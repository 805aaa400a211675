----------------------------- MODULE CoreProofs -----------------------------
(***************************************************************************)
(* Core sleeps neither too long nor on an open query, for any number of    *)
(* timeouts, sockets and queries.                                          *)
(***************************************************************************)
EXTENDS Core, TLAPS

(* Where the resolver is in every stage of the main loop, and that user    *)
(* code runs in three of them only.                                        *)
Control ==
  /\ stage \in {"main", "wait"} => ~user
  /\ stage = "main" => pc = "idle"
  /\ stage \in {"dispatch", "schedule"} =>
       pc = "idle" \/ (pc \in {"deliver", "callback"} /\ ret = "idle" /\ ~user)
  /\ stage = "dns" =>
       /\ ~user
       /\ \/ pc \in {"idle", "run", "merge"}
          \/ pc \in {"deliver", "callback"} /\ ret = "run"
  /\ stage \in {"again", "wait"} => pc = "ran"

(* dns::run() is entered when no task is due, and leaves no query without  *)
(* the timeout; if it leaves without one, no task is due afterwards.       *)
Attended ==
  /\ stage = "dns" /\ pc = "idle" => \A t \in Timers : due[t] # 0
  /\ stage = "dns" /\ pc = "merge" => due[Dns] > 0
  /\ stage \in {"again", "wait"} =>
       /\ due[Dns] # 0
       /\ due[Dns] = Off => /\ queries = {} /\ ~user
                            /\ \A t \in Timers : due[t] # 0

Inv == TypeOK /\ Control /\ Attended /\ SleepsInTime

(* The inductive invariant holds initially. *)
LEMMA InitInv == Init => Inv
<1> SUFFICES ASSUME Init PROVE Inv
    OBVIOUS
<1> USE CoreAssumption DEF Init, Res!Init
<1>1. polled \in BOOLEAN /\ user \in BOOLEAN
      OBVIOUS
<1>2. TypeOK
      BY <1>1 DEF TypeOK, Off
<1>3. Control /\ Attended /\ SleepsInTime
      BY DEF Control, Attended, SleepsInTime
<1> QED BY <1>2, <1>3 DEF Inv

(* User code keeps the invariant. *)
LEMMA OperationInv == Inv /\ Operation => Inv'
<1> SUFFICES ASSUME Inv, Operation PROVE Inv'
    OBVIOUS
<1> USE CoreAssumption DEF Inv, UserCode, resolver
<1>1. ASSUME NEW t \in Timeout, Cancel(t) PROVE Inv'
      BY <1>1 DEF Cancel, TypeOK, Control, Attended, SleepsInTime, Timers, Off
<1>2. ASSUME NEW t \in Timeout, NEW d \in Delay, Arm(t, d) PROVE Inv'
      BY <1>2 DEF Arm, TypeOK, Control, Attended, SleepsInTime, Timers, Off
<1>3. ASSUME NEW s \in Socket, Register(s) \/ Unregister(s) PROVE Inv'
      BY <1>3 DEF Register, Unregister, TypeOK, Control, Attended,
                  SleepsInTime, Off
<1>4. ASSUME NEW q \in Query, Submit(q) PROVE Inv'
      BY <1>4 DEF Submit, Res!Submit, TypeOK, Control, Attended,
                  SleepsInTime, Off
<1> QED BY <1>1, <1>2, <1>3, <1>4 DEF Operation

(* The steps that core::run() takes by itself keep it. *)
LEMMA RunInv ==
  Inv /\ (Run \/ Handler \/ DnsHandler \/ DnsNow \/ DnsMerge) => Inv'
<1> SUFFICES ASSUME Inv, Run \/ Handler \/ DnsHandler \/ DnsNow \/ DnsMerge
             PROVE  Inv'
    OBVIOUS
<1> USE CoreAssumption DEF Inv, TypeOK, Control, Attended, SleepsInTime,
                           resolver, Off
<1>1. CASE RunEnter \/ Handler \/ DispatchReturn \/ ScheduleReturn
  <2>1. /\ user' \in BOOLEAN
        /\ UNCHANGED <<queries, polled, pc, ret, due, socks, delay>>
        BY <1>1 DEF RunEnter, Handler, DispatchReturn, ScheduleReturn
  <2>2. TypeOK'
        BY <1>1, <2>1
           DEF RunEnter, Handler, DispatchReturn, ScheduleReturn
  <2>3. (Control /\ Attended /\ SleepsInTime)'
        BY <1>1, <2>1 DEF RunEnter, Handler, DispatchReturn, ScheduleReturn,
                          Scheduling
  <2> QED BY <2>2, <2>3
<1>2. CASE DnsHandler
      BY <1>2 DEF DnsHandler, Res!ProcessFd
<1>3. ASSUME NEW t \in Timeout, RunTask(t) PROVE Inv'
      BY <1>3 DEF RunTask, Scheduling, Timers
<1>4. CASE DnsTask
      BY <1>4 DEF DnsTask, Scheduling, Res!FireTimeout, Timers
<1>5. CASE DnsNone
  <2>1. polled' \in BOOLEAN
        BY <1>5 DEF DnsNone, Res!RunNone
  <2> QED BY <1>5, <2>1 DEF DnsNone, Res!RunNone, Timers
<1>6. CASE DnsEnter
      BY <1>6 DEF DnsEnter, Res!RunEnter, Timers
<1>7. CASE DnsNow
      BY <1>7 DEF DnsNow, Res!RunNow
<1>8. CASE DnsLater
      BY <1>8 DEF DnsLater, Res!RunLater, Timers
<1>9. CASE DnsMerge
      BY <1>9 DEF DnsMerge, Res!Merge
<1>10. CASE DnsReturn
  <2>1. polled' \in BOOLEAN
        BY <1>10, Zenon DEF DnsReturn, Res!RunReturn
  <2> QED BY <1>10, <2>1 DEF DnsReturn, Res!RunReturn
<1>11. CASE RunReturn
  <2>1. PICK d \in {due[t] : t \in Timers} \cup {0, MaxTimeout} :
          Sleep(d) /\ delay' = d
        BY <1>11 DEF RunReturn
  <2>2. /\ stage' = "wait"
        /\ UNCHANGED <<queries, polled, pc, ret, due, socks, user>>
        BY <1>11 DEF RunReturn
  <2>3. \A t \in Timers : due[t] # 0
        BY <1>11 DEF RunReturn
  <2>4. stage = "again" /\ ~user
        BY <1>11 DEF RunReturn, Scheduling
  <2>5. Armed' = Armed /\ Armed = {t \in Timers : due[t] # -1}
        BY <2>2 DEF Armed
  <2>6. \A t \in Armed : d <= due[t]
        BY <2>1, <2>5 DEF Sleep
  <2>7. ASSUME d = 0 PROVE Empty'
    <3>1. Armed = {} /\ socks = {} /\ ~polled
          BY <2>1, <2>3, <2>5, <2>7 DEF Sleep
    <3>2. due[Dns] = -1
          BY <3>1, <2>5 DEF Timers
    <3>3. queries = {}
          BY <3>2, <2>4
    <3> QED BY <3>1, <3>3, <2>2, <2>5 DEF Empty
  <2>8. d \in Nat
        BY <2>1, <2>5 DEF Sleep
  <2>9. ASSUME d > MaxTimeout PROVE queries = {} /\ Armed \subseteq Timeout
    <3>1. Dns \notin Armed
          BY <2>5, <2>6, <2>8, <2>9
    <3>2. due[Dns] = -1
          BY <3>1, <2>5 DEF Timers
    <3> QED BY <3>1, <3>2, <2>4, <2>5 DEF Timers
  <2>10. SleepsInTime'
        BY <2>1, <2>2, <2>5, <2>6, <2>7, <2>9 DEF SleepsInTime
  <2> QED BY <2>1, <2>2, <2>3, <2>4, <2>8, <2>10
<1> QED BY <1>1, <1>2, <1>3, <1>4, <1>5, <1>6, <1>7, <1>8, <1>9, <1>10, <1>11
           DEF Run

(* So do the ends of callbacks, handlers and tasks, and the clock. *)
LEMMA OtherInv ==
  /\ Inv
  /\ \/ UserReturn \/ UserThrow \/ Deliver \/ DnsThrow
     \/ \E k \in 0..MaxPass : Wait(k)
  => Inv'
<1> SUFFICES ASSUME Inv,
                    \/ UserReturn \/ UserThrow \/ Deliver \/ DnsThrow
                    \/ \E k \in 0..MaxPass : Wait(k)
             PROVE  Inv'
    OBVIOUS
<1> USE CoreAssumption DEF Inv, TypeOK, Control, Attended, SleepsInTime,
                           resolver, Off
<1>1. CASE UserReturn \/ UserThrow
      BY <1>1 DEF UserReturn, UserThrow
<1>2. ASSUME NEW q \in Query, Collect(q) PROVE Inv'
      BY <1>2 DEF Collect, Res!Collect
<1>3. CASE CallbackReturn
      BY <1>3 DEF CallbackReturn, Res!CallbackReturn
<1>4. CASE DeliverEnd
      BY <1>4 DEF DeliverEnd, Res!DeliverEnd
<1>5. CASE DnsThrow
      BY <1>5 DEF DnsThrow, Res!Throw
<1>6. ASSUME NEW k \in 0..MaxPass, Wait(k) PROVE Inv'
  <2>1. \A t \in Timers : due'[t] \in Nat \cup {-1}
        BY <1>6 DEF Wait
  <2>2. due' \in [Timers -> Nat \cup {-1}]
        BY <1>6, <2>1 DEF Wait
  <2>3. due'[Dns] \in 0..MaxTimeout \cup {-1}
        BY <1>6 DEF Wait, Timers
  <2> QED BY <1>6, <2>2, <2>3 DEF Wait, Res!Wait
<1> QED BY <1>1, <1>2, <1>3, <1>4, <1>5, <1>6 DEF Deliver

(* The inductive invariant is an invariant. *)
LEMMA Invariance == Spec => []Inv
<1>1. Inv /\ [Next]_vars => Inv'
  <2> SUFFICES ASSUME Inv, [Next]_vars PROVE Inv'
      OBVIOUS
  <2>1. CASE UNCHANGED vars
        BY <2>1 DEF vars, resolver, Inv, TypeOK, Control, Attended,
                    SleepsInTime, Armed, Empty
  <2>2. CASE Next
        BY <2>2, OperationInv, RunInv, OtherInv DEF Next
  <2> QED BY <2>1, <2>2
<1> QED BY InitInv, <1>1, PTL DEF Spec

(* The core's state is well-typed, however far ahead tasks are scheduled:  *)
(* run() returns a number of seconds and not a sentinel, and the           *)
(* resolver's own deadline is never further away than wait() can sleep.    *)
THEOREM CoreTypes == Spec => []TypeOK
<1>1. Inv => TypeOK
      BY DEF Inv
<1> QED BY Invariance, <1>1, PTL

(* wait() never oversleeps a deadline, run() returns 0 only if the core is *)
(* empty, and more than the demultiplexer takes only for the sake of tasks *)
(* of the program that are further ahead than that, with no query open.    *)
THEOREM SleepSafe == Spec => []SleepsInTime
<1>1. Inv => SleepsInTime
      BY DEF Inv
<1> QED BY Invariance, <1>1, PTL

(* The program never sleeps on an open query without the resolver's        *)
(* timeout.                                                                *)
THEOREM AttendedSafe == Spec => []QueriesAttended
<1>1. Inv => QueriesAttended
      BY DEF Inv, Attended, QueriesAttended
<1> QED BY Invariance, <1>1, PTL
=============================================================================
