---------------------------- MODULE EpollProofs -----------------------------
(***************************************************************************)
(* Theorems about EpollDispatch, for any set of native sockets, any length *)
(* of the array of events, any event sets, and handlers that create,       *)
(* modify and destroy any socket at any time.                              *)
(***************************************************************************)
EXTENDS EpollDispatch, DemuxLemmas, SequenceTheorems, TLAPS

(* The array holds at most one event of each socket: handing one out and   *)
(* dropping its socket from stale leaves the sockets of the others there.  *)
OneEach ==
  \A i, j \in 1..Len(events) : events[i].fd = events[j].fd => i = j

(* A wait starts with an empty array, so that an interrupted one, which    *)
(* assigns nothing, leaves no event of an earlier wait behind.             *)
Control ==
  /\ pc # "handler" => cur = NoEvent
  /\ pc = "ran" => events = <<>>

EpollInv == TypeOK /\ ListedHaveHandlers /\ OneEach /\ Control

-----------------------------------------------------------------------------
(* The invariant *)

(* EpollInv holds of a new dispatcher. *)
LEMMA InitInv == Init => EpollInv
<1> SUFFICES ASSUME Init PROVE EpollInv
  OBVIOUS
<1>1. events \in Seq(KernelEvent) /\ Len(events) = 0 /\ Sockets = {}
  BY DEF Init, DispatchInit, EpollInit, Sockets
<1> QED
  BY <1>1, MaxEventsAssumption
     DEF Init, DispatchInit, EpollInit, EpollInv, TypeOK, ListedHaveHandlers,
         OneEach, Control, Handler

(* Registering a socket and changing what it asks for keep EpollInv. *)
LEMMA RequestInv ==
  ASSUME EpollInv, NEW fd \in Fd, NEW h \in Handler, NEW ev \in Interest,
         Create(fd, h, ev) \/ Modify(fd, h, ev)
  PROVE  EpollInv'
<1>1. /\ handlers' = [handlers EXCEPT ![fd] = h]
      /\ listed' = listed \cup {fd}
      /\ interest' = [interest EXCEPT ![fd] = ev]
      /\ UNCHANGED <<pc, cur, stale, events>>
  BY DEF Create, Modify, Register, SetHandler, EpollRequest
<1>2. handlers' \in [Fd -> Handler \cup {"absent"}]
  BY <1>1 DEF EpollInv, TypeOK
<1>3. Sockets' = Sockets \cup {fd}
  BY <1>1 DEF EpollInv, TypeOK, Sockets, Handler
<1>4. interest' \in [Fd -> SUBSET EventFlag]
  BY <1>1, InterestAssumption DEF EpollInv, TypeOK
<1>5. TypeOK'
  BY <1>1, <1>2, <1>4 DEF EpollInv, TypeOK
<1>6. ListedHaveHandlers'
  BY <1>1, <1>3 DEF EpollInv, ListedHaveHandlers
<1> QED
  BY <1>1, <1>5, <1>6 DEF EpollInv, OneEach, Control

(* ~socket() keeps EpollInv: the events of the socket stay in the array,   *)
(* and the socket is stale if there is one.                                *)
LEMMA DestroyInv ==
  ASSUME EpollInv, NEW fd \in Fd, Destroy(fd)
  PROVE  EpollInv'
<1>1. /\ handlers' = [handlers EXCEPT ![fd] = "absent"]
      /\ listed' = listed \ {fd}
      /\ interest' = [interest EXCEPT ![fd] = {}]
      /\ stale' = IF IsPending(fd) THEN stale \cup {fd} ELSE stale
      /\ UNCHANGED <<pc, cur, events>>
  BY DEF Destroy, Unregister, EpollRemove
<1>2. handlers' \in [Fd -> Handler \cup {"absent"}]
  BY <1>1 DEF EpollInv, TypeOK
<1>3. Sockets' = Sockets \ {fd}
  BY <1>1 DEF EpollInv, TypeOK, Sockets
<1>4. interest' \in [Fd -> SUBSET EventFlag]
  BY <1>1 DEF EpollInv, TypeOK
<1>5. TypeOK'
  BY <1>1, <1>2, <1>4 DEF EpollInv, TypeOK
<1>6. ASSUME NEW i \in 1..Len(events)
      PROVE  events[i].fd \in Sockets' \cup stale'
  <2>1. CASE events[i].fd = fd
    BY <1>1, <2>1 DEF IsPending
  <2>2. CASE events[i].fd # fd
    BY <1>1, <1>3, <2>2 DEF EpollInv, ListedHaveHandlers
  <2> QED
    BY <2>1, <2>2
<1>7. ListedHaveHandlers'
  BY <1>1, <1>3, <1>6 DEF EpollInv, ListedHaveHandlers
<1> QED
  BY <1>1, <1>5, <1>7 DEF EpollInv, OneEach, Control

(* What is left in the array when the first event has been taken. *)
LEMMA Popped ==
  ASSUME EpollInv, NEW fd \in Fd, NEW flags \in SUBSET Flag,
         EpollPop(fd, flags)
  PROVE  /\ Len(events) \in Nat \ {0}
         /\ events[1] = [fd |-> fd, flags |-> flags]
         /\ events' \in Seq(KernelEvent)
         /\ Len(events') = Len(events) - 1
         /\ \A i \in 1..Len(events') : events'[i] = events[i + 1]
<1>1. events \in Seq(KernelEvent) /\ events # <<>>
  BY DEF EpollInv, TypeOK, EpollPop
<1>2. Len(events) \in Nat \ {0}
  BY <1>1, EmptySeq
<1>3. events[1] = [fd |-> fd, flags |-> flags]
  BY DEF EpollPop
<1>4. events' = Tail(events)
  BY DEF EpollPop
<1> QED
  BY <1>1, <1>2, <1>3, <1>4, HeadTailProperties

(* One round of run() keeps EpollInv. *)
LEMMA RunStepInv ==
  ASSUME EpollInv, RunStep
  PROVE  EpollInv'
<1>1. PICK fd \in Fd, flags \in SUBSET Flag :
        EpollPop(fd, flags) /\ Deliver(fd, EventSet(flags))
  BY DEF RunStep
<1>2. /\ Len(events) \in Nat \ {0}
      /\ events[1] = [fd |-> fd, flags |-> flags]
      /\ events' \in Seq(KernelEvent)
      /\ Len(events') = Len(events) - 1
      /\ \A i \in 1..Len(events') : events'[i] = events[i + 1]
  BY <1>1, Popped
<1>3. UNCHANGED <<handlers, listed, interest>> /\ Sockets' = Sockets
  BY <1>1 DEF EpollPop, Deliver, Sockets
<1>4. /\ pc' \in {"run", "idle", "handler"}
      /\ pc' # "handler" => cur' = NoEvent
      /\ cur' \in [fd : Fd, ev : SUBSET EventFlag] \cup {NoEvent}
      /\ stale' = stale \ {fd}
  <2>1. handlers[fd] \in {"absent", "empty", "bound"}
    BY DEF EpollInv, TypeOK, Handler
  <2> QED
    BY <1>1, <2>1, EventSetType DEF Deliver, AfterLookup
<1>5. TypeOK'
  BY <1>2, <1>3, <1>4, MaxEventsAssumption DEF EpollInv, TypeOK
<1>6. OneEach'
  BY <1>2 DEF EpollInv, OneEach
<1>7. ASSUME NEW i \in 1..Len(events')
      PROVE  events'[i].fd \in Sockets' \cup stale'
  <2>1. /\ i + 1 \in 1..Len(events) /\ i + 1 # 1 /\ 1 \in 1..Len(events)
        /\ events'[i] = events[i + 1]
    BY <1>2
  <2>2. events[i + 1].fd # fd
    BY <1>2, <2>1 DEF EpollInv, OneEach
  <2> QED
    BY <1>3, <1>4, <2>1, <2>2 DEF EpollInv, ListedHaveHandlers
<1>8. ListedHaveHandlers'
  BY <1>3, <1>7 DEF EpollInv, ListedHaveHandlers
<1> QED
  BY <1>4, <1>5, <1>6, <1>8 DEF EpollInv, Control

(* What epoll_wait(2) leaves in the array. *)
LEMMA Waited ==
  ASSUME EpollInv, EpollWait
  PROVE  /\ events' \in Seq(KernelEvent)
         /\ Len(events') <= MaxEvents
         /\ \A i \in 1..Len(events') :
              /\ events'[i].fd \in Sockets
              /\ events'[i].flags \in Reports(interest[events'[i].fd])
         /\ OneEach'
<1>1. PICK n \in 0..MaxEvents :
        \E q \in [1..n -> KernelEvent] :
          /\ \A i \in 1..n : /\ q[i].fd \in listed
                             /\ q[i].flags \in Reports(interest[q[i].fd])
          /\ \A i, j \in 1..n : q[i].fd = q[j].fd => i = j
          /\ events' = q
  BY DEF EpollWait
<1>2. PICK q \in [1..n -> KernelEvent] :
          /\ \A i \in 1..n : /\ q[i].fd \in listed
                             /\ q[i].flags \in Reports(interest[q[i].fd])
          /\ \A i, j \in 1..n : q[i].fd = q[j].fd => i = j
          /\ events' = q
  BY <1>1
<1>3. n \in Nat /\ n <= MaxEvents
  BY MaxEventsAssumption
<1>4. events' \in Seq(KernelEvent)
  BY <1>2, <1>3, SeqDef
<1>5. Len(events') = n
  BY <1>2, <1>3, <1>4, LenProperties
<1>6. listed = Sockets
  BY DEF EpollInv, ListedHaveHandlers
<1> QED
  BY <1>2, <1>3, <1>4, <1>5, <1>6 DEF OneEach

(* wait() keeps EpollInv. *)
LEMMA WaitInv ==
  ASSUME EpollInv, Wait
  PROVE  EpollInv'
<1>1. /\ pc = "ran" /\ pc' = "idle" /\ stale' = {}
      /\ UNCHANGED <<handlers, cur, listed, interest>>
      /\ EpollWait
  BY DEF Wait, WaitReturn, EpollWait
<1>2. Sockets' = Sockets
  BY <1>1 DEF Sockets
<1>3. TypeOK'
  BY <1>1, Waited DEF EpollInv, TypeOK
<1>4. ListedHaveHandlers'
  BY <1>1, <1>2, Waited DEF EpollInv, ListedHaveHandlers
<1>5. OneEach'
  BY <1>1, Waited
<1>6. Control'
  BY <1>1 DEF EpollInv, Control
<1> QED
  BY <1>3, <1>4, <1>5, <1>6 DEF EpollInv

(* Every step keeps EpollInv. *)
LEMMA StepInv == EpollInv /\ [Next]_vars => EpollInv'
<1> SUFFICES ASSUME EpollInv, [Next]_vars PROVE EpollInv'
  OBVIOUS
<1>1. ASSUME NEW fd \in Fd, NEW h \in Handler, NEW ev \in Interest,
             Create(fd, h, ev) \/ Modify(fd, h, ev)
      PROVE  EpollInv'
  BY <1>1, RequestInv
<1>2. ASSUME NEW fd \in Fd, Destroy(fd) PROVE EpollInv'
  BY <1>2, DestroyInv
<1>3. CASE RunStep
  BY <1>3, RunStepInv
<1>4. CASE Wait
  BY <1>4, WaitInv
<1>5. CASE Enter \/ Resume \/ Throw \/ Return
  <2>1. /\ UNCHANGED <<handlers, stale, listed, interest, events>>
        /\ pc' \in {"idle", "run", "ran"}
        /\ pc' = "ran" => events = <<>>
        /\ cur' = NoEvent
    BY <1>5 DEF EpollInv, Control, Enter, Resume, Throw, Return, RunEnter,
                HandlerReturn, HandlerThrow, RunReturn, EpollEmpty, epollVars
  <2> QED
    BY <2>1 DEF EpollInv, TypeOK, ListedHaveHandlers, OneEach, Control, Sockets
<1>6. CASE WaitInterrupted
  <2>1. /\ UNCHANGED <<handlers, cur, listed, interest, events>>
        /\ pc' = "idle" /\ stale' = {} /\ events = <<>> /\ cur = NoEvent
    BY <1>6 DEF EpollInv, Control, WaitInterrupted, WaitReturn,
                EpollInterrupted, epollVars
  <2>2. 1..Len(events) = {}
    BY <2>1
  <2> QED
    BY <2>1, <2>2 DEF EpollInv, TypeOK, ListedHaveHandlers, OneEach, Control,
                      Sockets
<1>7. CASE UNCHANGED vars
  BY <1>7 DEF vars, dispatchVars, epollVars, EpollInv, TypeOK,
              ListedHaveHandlers, OneEach, Control, Sockets
<1> QED
  BY <1>1, <1>2, <1>3, <1>4, <1>5, <1>6, <1>7 DEF Next

(* EpollInv holds in every state. *)
LEMMA Invariance == Spec => []EpollInv
BY InitInv, StepInv, PTL DEF Spec

(* The array never holds more than MaxEvents events, and none of the       *)
(* operations leaves a variable outside its type.                          *)
THEOREM EpollTypes == Spec => []TypeOK
BY Invariance, PTL DEF EpollInv

(* The kernel's interest list and dispatch::_handlers agree, and every     *)
(* event in the array was reported for a socket that exists or has been    *)
(* destroyed since, whatever the handlers of a batch create and destroy.   *)
THEOREM ListedSafe == Spec => []ListedHaveHandlers
BY Invariance, PTL DEF EpollInv

-----------------------------------------------------------------------------
(* Empty event sets *)

(* No event in the array is masked to no_events. *)
NoneEmpty == \A i \in 1..Len(events) : EventSet(events[i].flags) # {}

(* Flags that were asked for, or are aliases of one, leave something. *)
LEMMA AskedNotEmpty ==
  ASSUME Flag \cap Unasked = {}, NEW ev \in SUBSET EventFlag,
         NEW flags \in Reports(ev)
  PROVE  EventSet(flags) # {}
<1>1. PICK f \in flags :
        /\ f \in Flag
        /\ f \in ev \/ (f \in DOMAIN Alias /\ Alias[f] \in ev)
  BY DEF Reports
<1>2. CASE f \in ev
  BY <1>1, <1>2 DEF EventSet
<1>3. CASE f \in DOMAIN Alias /\ Alias[f] \in ev
  BY <1>1, <1>3 DEF EventSet
<1> QED
  BY <1>1, <1>2, <1>3

(* Every step keeps NoneEmpty if errors and hangups are not reported. *)
LEMMA NoneEmptyStep ==
  ASSUME Flag \cap Unasked = {}, EpollInv, NoneEmpty, [Next]_vars
  PROVE  NoneEmpty'
<1>1. CASE events' = events
  BY <1>1 DEF NoneEmpty, EventSet
<1>2. CASE RunStep
  <2>1. PICK fd \in Fd, flags \in SUBSET Flag : EpollPop(fd, flags)
    BY <1>2 DEF RunStep
  <2>2. /\ Len(events) \in Nat \ {0}
        /\ Len(events') = Len(events) - 1
        /\ \A i \in 1..Len(events') : events'[i] = events[i + 1]
    BY <2>1, Popped
  <2>3. ASSUME NEW i \in 1..Len(events')
        PROVE  EventSet(events'[i].flags) # {}
    <3>1. i + 1 \in 1..Len(events) /\ events'[i] = events[i + 1]
      BY <2>2
    <3> QED
      BY <3>1 DEF NoneEmpty
  <2> QED
    BY <2>3 DEF NoneEmpty, EventSet
<1>3. CASE Wait
  <2>1. ASSUME NEW i \in 1..Len(events')
        PROVE  EventSet(events'[i].flags) # {}
    <3>1. /\ events'[i].fd \in Sockets
          /\ events'[i].flags \in Reports(interest[events'[i].fd])
      BY <1>3, Waited DEF Wait
    <3>2. interest[events'[i].fd] \in SUBSET EventFlag
      BY <3>1 DEF EpollInv, TypeOK, Sockets
    <3> QED
      BY <3>1, <3>2, AskedNotEmpty
  <2> QED
    BY <2>1 DEF NoneEmpty, EventSet
<1> QED
  BY <1>1, <1>2, <1>3
     DEF Next, Create, Modify, Destroy, Enter, Resume, Throw, Return,
         WaitInterrupted, EpollRequest, EpollRemove, EpollEmpty,
         EpollInterrupted, epollVars, vars

(* What both pop_event() and run() assert, ev != no_events, holds in every *)
(* state of a program whose kernel reports no errors and no hangups: the   *)
(* flags that nobody asks for are the only way to the counterexample.      *)
THEOREM EventSetsSafe ==
  ASSUME Flag \cap Unasked = {} PROVE Spec => []NoEmptyEventSet
<1>1. Init => NoneEmpty
  BY DEF Init, EpollInit, NoneEmpty
<1>2. EpollInv /\ NoneEmpty /\ [Next]_vars => NoneEmpty'
  BY NoneEmptyStep
<1>3. EpollInv /\ NoneEmpty => NoEmptyEventSet
  <2> SUFFICES ASSUME EpollInv, NoneEmpty, events # <<>>
               PROVE  EventSet(Head(events).flags) # {}
    BY DEF NoEmptyEventSet
  <2>1. events \in Seq(KernelEvent)
    BY DEF EpollInv, TypeOK
  <2>2. Len(events) \in Nat \ {0} /\ Head(events) = events[1]
    BY <2>1, EmptySeq
  <2> QED
    BY <2>2 DEF NoneEmpty
<1> QED
  BY <1>1, <1>2, <1>3, Invariance, PTL DEF Spec

-----------------------------------------------------------------------------
(* The refinement of EventLoop *)

(* The event that EventLoop sees at a position of the array. *)
EventAt(i) == [fd |-> events[i].fd, ev |-> EventSet(events[i].flags)]

AllPending == {EventAt(i) : i \in 1..Len(events)}

(* A new dispatcher is an initial state of EventLoop. *)
LEMMA InitRefines == Init => Loop!Init
<1> SUFFICES ASSUME Init PROVE Loop!Init
  OBVIOUS
<1>1. 1..Len(events) = {}
  BY DEF Init, EpollInit
<1> QED
  BY <1>1 DEF Init, DispatchInit, EpollInit, Loop!Init, NoEvent, Loop!NoEvent

(* Registering a socket and changing what it asks for. *)
LEMMA RequestRefines ==
  ASSUME EpollInv, NEW fd \in Fd, NEW h \in Handler, NEW ev \in Interest,
         Create(fd, h, ev) \/ Modify(fd, h, ev)
  PROVE  Loop!Create(fd) \/ Loop!Modify(fd)
<1>1. /\ handlers' = [handlers EXCEPT ![fd] = h]
      /\ interest' = [interest EXCEPT ![fd] = ev]
      /\ UNCHANGED <<pc, cur, events>>
      /\ pc \in {"idle", "handler", "ran"}
  BY DEF Create, Modify, Register, SetHandler, EpollRequest, UserCode
<1>2. h \in {"empty", "bound"} /\ ev \in SUBSET EventFlag
  BY InterestAssumption DEF Handler
<1>3. CASE handlers[fd] = "absent"
  BY <1>1, <1>2, <1>3 DEF Loop!Create, Loop!UserCode
<1>4. CASE handlers[fd] # "absent"
  BY <1>1, <1>2, <1>4 DEF Loop!Modify, Loop!UserCode
<1> QED
  BY <1>3, <1>4

(* ~socket() leaves the events in the array. *)
LEMMA DestroyRefines ==
  ASSUME EpollInv, NEW fd \in Fd, Destroy(fd)
  PROVE  Loop!Destroy(fd)
BY DEF Destroy, Unregister, EpollRemove, UserCode, Sockets,
       Loop!Destroy, Loop!UserCode

(* pop_event() takes exactly one event: the others, of other sockets,      *)
(* stay, and the one it took is gone.                                      *)
LEMMA PopRefines ==
  ASSUME EpollInv, NEW fd \in Fd, NEW flags \in SUBSET Flag,
         EpollPop(fd, flags)
  PROVE  /\ EventAt(1) \in AllPending
         /\ EventAt(1) = [fd |-> fd, ev |-> EventSet(flags)]
         /\ AllPending' = AllPending \ {EventAt(1)}
<1>1. /\ Len(events) \in Nat \ {0}
      /\ events[1] = [fd |-> fd, flags |-> flags]
      /\ Len(events') = Len(events) - 1
      /\ \A i \in 1..Len(events') : events'[i] = events[i + 1]
  BY Popped
<1>2. EventAt(1) = [fd |-> fd, ev |-> EventSet(flags)]
  BY <1>1 DEF EventAt
<1>3. 1 \in 1..Len(events)
  BY <1>1
<1>4. EventAt(1) \in AllPending
  BY <1>3 DEF AllPending
<1>5. ASSUME NEW e \in AllPending' PROVE e \in AllPending \ {EventAt(1)}
  <2>1. PICK i \in 1..Len(events') :
          e = [fd |-> events'[i].fd, ev |-> EventSet(events'[i].flags)]
    BY DEF AllPending, EventAt, EventSet
  <2>2. i + 1 \in 1..Len(events) /\ i + 1 # 1 /\ events'[i] = events[i + 1]
    BY <1>1
  <2>3. e = EventAt(i + 1)
    BY <2>1, <2>2 DEF EventAt
  <2>4. e \in AllPending
    BY <2>2, <2>3 DEF AllPending
  <2>5. events[i + 1].fd # events[1].fd
    BY <1>3, <2>2 DEF EpollInv, OneEach
  <2>6. e.fd # EventAt(1).fd
    BY <2>3, <2>5 DEF EventAt
  <2> QED
    BY <2>4, <2>6
<1>6. ASSUME NEW e \in AllPending, e # EventAt(1) PROVE e \in AllPending'
  <2>1. PICK j \in 1..Len(events) : e = EventAt(j)
    BY DEF AllPending
  <2>2. j # 1
    BY <1>6, <2>1
  <2>3. j - 1 \in 1..Len(events') /\ (j - 1) + 1 = j
    BY <1>1, <2>2
  <2>4. events'[j - 1] = events[j]
    BY <1>1, <2>3
  <2>5. e = [fd |-> events'[j - 1].fd, ev |-> EventSet(events'[j - 1].flags)]
    BY <2>1, <2>4 DEF EventAt
  <2> QED
    BY <2>3, <2>5 DEF AllPending, EventAt, EventSet
<1> QED
  BY <1>2, <1>4, <1>5, <1>6

(* One round of run() delivers one pending event. *)
LEMMA RunStepRefines ==
  ASSUME EpollInv, RunStep
  PROVE  \E e \in AllPending : Loop!Deliver(e)
<1>1. PICK fd \in Fd, flags \in SUBSET Flag :
        EpollPop(fd, flags) /\ Deliver(fd, EventSet(flags))
  BY DEF RunStep
<1>2. /\ EventAt(1) \in AllPending
      /\ EventAt(1) = [fd |-> fd, ev |-> EventSet(flags)]
      /\ AllPending' = AllPending \ {EventAt(1)}
  BY <1>1, PopRefines
<1>3. /\ pc = "run"
      /\ pc' = AfterLookup[handlers[fd]]
      /\ cur' = IF handlers[fd] = "bound" THEN EventAt(1) ELSE NoEvent
      /\ UNCHANGED <<handlers, interest>>
  BY <1>1, <1>2 DEF Deliver, EpollPop
<1>4. cur = NoEvent /\ handlers[fd] \in {"absent", "empty", "bound"}
  BY <1>3 DEF EpollInv, Control, TypeOK, Handler
<1>5. EventAt(1).fd = fd
  BY <1>2
<1>6. PICK e \in AllPending : e = EventAt(1)
  BY <1>2
<1>7. Loop!Deliver(e)
  BY <1>2, <1>3, <1>4, <1>5, <1>6
     DEF Loop!Deliver, AllPending, EventAt, AfterLookup
<1> QED
  BY <1>7

(* wait() reports what was asked for, at most once for each socket. *)
LEMMA WaitRefines ==
  ASSUME EpollInv, Wait
  PROVE  Loop!Wait
<1>1. /\ pc = "ran" /\ pc' = "idle"
      /\ UNCHANGED <<handlers, cur, listed, interest>>
      /\ EpollWait
  BY DEF Wait, WaitReturn, EpollWait
<1>2. AllPending = {}
  BY <1>1 DEF EpollInv, Control, AllPending
<1>3. ASSUME NEW e \in AllPending'
      PROVE  \E i \in 1..Len(events') :
               e = [fd |-> events'[i].fd, ev |-> EventSet(events'[i].flags)]
  BY DEF AllPending, EventAt, EventSet
<1>4. ASSUME NEW e \in AllPending'
      PROVE  handlers[e.fd] # "absent" /\ e.ev \subseteq interest[e.fd]
  <2>1. PICK i \in 1..Len(events') :
          e = [fd |-> events'[i].fd, ev |-> EventSet(events'[i].flags)]
    BY <1>3
  <2>2. /\ events'[i].fd \in Sockets
        /\ events'[i].flags \in Reports(interest[events'[i].fd])
    BY <1>1, Waited
  <2>3. interest[events'[i].fd] \in SUBSET EventFlag
    BY <2>2 DEF EpollInv, TypeOK, Sockets
  <2>4. EventSet(events'[i].flags) \subseteq interest[events'[i].fd]
    BY <2>2, <2>3, ReportsAsked
  <2> QED
    BY <2>1, <2>2, <2>4 DEF Sockets
<1>5. ASSUME NEW e \in AllPending', NEW f \in AllPending', e.fd = f.fd
      PROVE  e = f
  <2>1. PICK i \in 1..Len(events') :
          e = [fd |-> events'[i].fd, ev |-> EventSet(events'[i].flags)]
    BY <1>3
  <2>2. PICK j \in 1..Len(events') :
          f = [fd |-> events'[j].fd, ev |-> EventSet(events'[j].flags)]
    BY <1>3
  <2>3. OneEach'
    BY <1>1, Waited
  <2>4. events'[i].fd = events'[j].fd
    BY <1>5, <2>1, <2>2
  <2>5. i = j
    BY <2>3, <2>4 DEF OneEach
  <2> QED
    BY <2>1, <2>2, <2>5
<1> QED
  BY <1>1, <1>2, <1>4, <1>5 DEF Loop!Wait, AllPending, EventAt

(* Every step is a step of EventLoop or leaves its variables alone. *)
LEMMA StepRefines ==
  EpollInv /\ [Next]_vars => [Loop!Next]_(Loop!vars)
<1> SUFFICES ASSUME EpollInv, [Next]_vars
             PROVE  [Loop!Next]_(Loop!vars)
  OBVIOUS
<1>1. ASSUME NEW fd \in Fd, NEW h \in Handler, NEW ev \in Interest,
             Create(fd, h, ev) \/ Modify(fd, h, ev)
      PROVE  Loop!Next
  BY <1>1, RequestRefines DEF Loop!Next
<1>2. ASSUME NEW fd \in Fd, Destroy(fd) PROVE Loop!Next
  BY <1>2, DestroyRefines DEF Loop!Next
<1>3. CASE RunStep
  BY <1>3, RunStepRefines DEF Loop!Next, AllPending, EventAt
<1>4. CASE Wait
  BY <1>4, WaitRefines DEF Loop!Next
<1>5. CASE Enter
  BY <1>5 DEF Enter, RunEnter, epollVars, Loop!Next, Loop!RunEnter
<1>6. CASE Resume \/ Throw
  BY <1>6 DEF Resume, Throw, HandlerReturn, HandlerThrow, epollVars, NoEvent,
              Loop!Next, Loop!HandlerEnd, Loop!NoEvent
<1>7. CASE Return
  <2>1. events = <<>> /\ 1..Len(events) = {}
    BY <1>7 DEF Return, EpollEmpty
  <2> QED
    BY <1>7, <2>1 DEF Return, RunReturn, EpollEmpty, epollVars,
                      Loop!Next, Loop!RunReturn
<1>8. CASE WaitInterrupted
  <2>1. events = <<>> /\ 1..Len(events) = {}
    BY <1>8 DEF WaitInterrupted, WaitReturn, EpollInv, Control
  <2> QED
    BY <1>8, <2>1 DEF WaitInterrupted, WaitReturn, EpollInterrupted,
                      epollVars, Loop!Next, Loop!Wait
<1>9. CASE UNCHANGED vars
  BY <1>9 DEF vars, dispatchVars, epollVars, Loop!vars
<1> QED
  BY <1>1, <1>2, <1>3, <1>4, <1>5, <1>6, <1>7, <1>8, <1>9 DEF Next

(* The dispatcher on top of epoll(7) keeps the promise of EventLoop: each  *)
(* event that epoll_wait(2) reports is handed out exactly once, before the *)
(* next wait, and contains only what its socket asked for, though handlers *)
(* destroy sockets that have events in the array.                          *)
THEOREM RefinesLoop == Spec => ImplementsLoop
BY InitRefines, Invariance, StepRefines, PTL
   DEF Spec, ImplementsLoop, Loop!Spec
=============================================================================
