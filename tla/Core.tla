-------------------------------- MODULE Core --------------------------------
(***************************************************************************)
(* The i/o core, include/ioxx/core.hpp: the schedule, the dispatcher and   *)
(* the resolver, run one after the other by core::run(), which says how    *)
(* long core::wait() may sleep.                                            *)
(*                                                                         *)
(* Each part is seen through what it promises.  The resolver is Resolver,  *)
(* its timeout one of the schedule's.  The schedule is one deadline for    *)
(* every timeout object, as in TimerService, here kept as the seconds that *)
(* are left until then, so that time need not be bounded; deadlines that   *)
(* have passed are 0, and their tasks are run in any order.  The           *)
(* dispatcher calls any handlers of the sockets registered.                *)
(*                                                                         *)
(* Handlers, tasks and DNS callbacks are arbitrary user code, and so is    *)
(* the main loop between two iterations.  The clock is read by core::wait()*)
(* and nowhere else.                                                       *)
(***************************************************************************)
EXTENDS Integers

CONSTANTS
  Query,        \* DNS queries
  Socket,       \* sockets the program registers
  Timeout,      \* timeout objects of the program
  Dns,          \* the resolver's timeout object
  Delay,        \* how many seconds ahead tasks are scheduled; 0 and times
                \* in the past come to the same
  MaxTimeout,   \* dispatch::max_timeout(), which nothing clamps delays to
  MaxPass       \* bound: the most seconds between two readings of the clock

ASSUME CoreAssumption ==
  /\ Dns \notin Timeout
  /\ MaxTimeout \in Nat \ {0}
  /\ Delay \subseteq Nat
  /\ MaxPass \in Nat \ {0}

VARIABLES
  queries, polled, pc, ret,     \* the resolver's state, see Resolver
  due,          \* seconds until the task of every timeout is due, or Off
  socks,        \* the program's sockets that are registered
  stage,        \* the "main" loop; in core::run() "dispatch", "schedule",
                \* "dns", "schedule again"; or about to "wait"
  user,         \* a handler or a task of the program is running
  delay         \* what run() has returned, until wait()

resolver == <<queries, polled, pc, ret>>
vars == <<resolver, due, socks, stage, user, delay>>

Off == -1

Timers == Timeout \cup {Dns}

(* The resolver of this core; its timeout is armed if a task is queued. *)
Res == INSTANCE Resolver WITH armed <- due[Dns] # Off

TypeOK ==
  /\ queries \subseteq Query
  /\ polled \in BOOLEAN
  /\ pc \in {"idle", "ran", "run", "merge", "deliver", "callback"}
  /\ ret \in {"idle", "ran", "run"}
  /\ due \in [Timers -> Nat \cup {Off}]
  /\ due[Dns] \in 0..MaxTimeout \cup {Off}
  /\ socks \subseteq Socket
  /\ stage \in {"main", "dispatch", "schedule", "dns", "again", "wait"}
  /\ user \in BOOLEAN
  /\ delay \in Nat

Init ==
  /\ due = [t \in Timers |-> Off]
  /\ Res!Init
  /\ socks = {}
  /\ stage = "main"
  /\ user = FALSE
  /\ delay = 0

(* The timeouts whose tasks are queued. *)
Armed == {t \in Timers : due[t] # Off}

(* core::empty() *)
Empty == Armed = {} /\ socks = {} /\ ~polled /\ queries = {}

-----------------------------------------------------------------------------
(* User code *)

UserCode == stage = "main" \/ user \/ pc = "callback"

Arm(t, d) ==
  /\ UserCode
  /\ due' = [due EXCEPT ![t] = d]
  /\ UNCHANGED <<resolver, socks, stage, user, delay>>

Cancel(t) ==
  /\ UserCode
  /\ due' = [due EXCEPT ![t] = Off]
  /\ UNCHANGED <<resolver, socks, stage, user, delay>>

Register(s) ==
  /\ UserCode
  /\ socks' = socks \cup {s}
  /\ UNCHANGED <<resolver, due, stage, user, delay>>

Unregister(s) ==
  /\ UserCode
  /\ socks' = socks \ {s}
  /\ UNCHANGED <<resolver, due, stage, user, delay>>

Submit(q) ==
  /\ UserCode
  /\ UNCHANGED <<due, socks, stage, user, delay>>
  /\ Res!Submit(q)

UserReturn ==
  /\ user
  /\ user' = FALSE
  /\ UNCHANGED <<resolver, due, socks, stage, delay>>

(* An exception leaves core::run(), wherever it was.  The main loop calls  *)
(* it again; pc = "ran" is forgotten.                                      *)
UserThrow ==
  /\ user
  /\ user' = FALSE
  /\ stage' = "main"
  /\ pc' = "idle"
  /\ UNCHANGED <<queries, polled, ret, due, socks, delay>>

-----------------------------------------------------------------------------
(* core::run() *)

RunEnter ==
  /\ stage = "main"
  /\ stage' = "dispatch"
  /\ UNCHANGED <<resolver, due, socks, user, delay>>

(* dispatch::run() *)
Handler ==
  /\ stage = "dispatch" /\ ~user /\ pc = "idle"
  /\ socks # {}
  /\ user' = TRUE
  /\ UNCHANGED <<resolver, due, socks, stage, delay>>

DnsHandler ==
  /\ stage = "dispatch" /\ ~user
  /\ UNCHANGED <<due, socks, stage, user, delay>>
  /\ Res!ProcessFd

DispatchReturn ==
  /\ stage = "dispatch" /\ ~user /\ pc = "idle"
  /\ stage' = "schedule"
  /\ UNCHANGED <<resolver, due, socks, user, delay>>

(* schedule::run(), before and after dns::run() *)
Scheduling ==
  /\ ~user
  /\ \/ stage = "schedule" /\ pc = "idle"
     \/ stage = "again" /\ pc = "ran"

RunTask(t) ==
  /\ Scheduling
  /\ due[t] = 0
  /\ due' = [due EXCEPT ![t] = Off]
  /\ user' = TRUE
  /\ UNCHANGED <<resolver, socks, stage, delay>>

DnsTask ==
  /\ Scheduling
  /\ due[Dns] = 0
  /\ due' = [due EXCEPT ![Dns] = Off]
  /\ UNCHANGED <<socks, stage, user, delay>>
  /\ Res!FireTimeout

(* Mutant: the first call of schedule::run() is left out. *)
ScheduleSkipped ==
  /\ stage = "schedule" /\ Scheduling
  /\ stage' = "dns"
  /\ UNCHANGED <<resolver, due, socks, user, delay>>

ScheduleReturn ==
  /\ stage = "schedule" /\ Scheduling
  /\ \A t \in Timers : due[t] # 0
  /\ stage' = "dns"
  /\ UNCHANGED <<resolver, due, socks, user, delay>>

(* Mutant: dns::run() returns at once and keeps its sockets. *)
DnsNoneKeeps ==
  /\ stage = "dns"
  /\ pc = "idle" /\ queries = {}
  /\ due' = [due EXCEPT ![Dns] = Off]
  /\ pc' = "ran"
  /\ stage' = "again"
  /\ UNCHANGED <<queries, polled, ret, socks, user, delay>>

(* dns::run() without a query *)
DnsNone ==
  /\ stage = "dns"
  /\ due' = [due EXCEPT ![Dns] = Off]
  /\ Res!RunNone
  /\ stage' = "again"
  /\ UNCHANGED <<socks, user, delay>>

DnsEnter ==
  /\ stage = "dns"
  /\ due' = [due EXCEPT ![Dns] = Off]
  /\ UNCHANGED <<socks, stage, user, delay>>
  /\ Res!RunEnter

DnsNow ==
  /\ stage = "dns"
  /\ UNCHANGED <<due, socks, stage, user, delay>>
  /\ Res!RunNow

(* Fractions of a second are rounded up, never down to none.  adns gives a *)
(* number of milliseconds, and never a long one.                           *)
DnsLater ==
  /\ stage = "dns"
  /\ \E d \in 1..MaxTimeout : due' = [due EXCEPT ![Dns] = d]
  /\ UNCHANGED <<socks, stage, user, delay>>
  /\ Res!RunLater

DnsMerge ==
  /\ stage = "dns"
  /\ UNCHANGED <<due, socks, stage, user, delay>>
  /\ Res!Merge

DnsReturn ==
  /\ stage = "dns"
  /\ stage' = "again"
  /\ UNCHANGED <<due, socks, user, delay>>
  /\ Res!RunReturn

(* Mutant: whenever a socket is registered, wait() may sleep as long as it *)
(* can.                                                                    *)
SleepForSockets(d) ==
  \/ /\ socks # {} \/ polled
     /\ d = MaxTimeout
  \/ /\ socks = {} /\ ~polled
     /\ IF Armed = {} THEN d = 0
        ELSE \E t \in Armed : d = due[t] /\ \A u \in Armed : d <= due[u]

(* Mutant: -1, as poll(2) takes it, if there are only sockets. *)
SleepUnlimited(d) ==
  \/ \E t \in Armed : d = due[t] /\ \A u \in Armed : d <= due[u]
  \/ /\ Armed = {}
     /\ d = IF socks = {} /\ ~polled THEN 0 ELSE -1

(* What run() returns: the result of the second schedule::run(), which is  *)
(* the time until the first deadline and 0 if there is none, or the        *)
(* longest time possible if there are only sockets.  A first deadline that *)
(* is further away than that is returned as it is.                         *)
Sleep(d) ==
  \/ \E t \in Armed : d = due[t] /\ \A u \in Armed : d <= due[u]
  \/ /\ Armed = {}
     /\ d = IF socks = {} /\ ~polled THEN 0 ELSE MaxTimeout

RunReturn ==
  /\ stage = "again" /\ Scheduling
  /\ \A t \in Timers : due[t] # 0
  /\ \E d \in {due[t] : t \in Timers} \cup {0, MaxTimeout} :
        Sleep(d) /\ delay' = d
  /\ stage' = "wait"
  /\ UNCHANGED <<resolver, due, socks, user>>

-----------------------------------------------------------------------------
(* DNS callbacks, in any of the three stages *)

Collect(q) ==
  /\ UNCHANGED <<due, socks, stage, user, delay>>
  /\ Res!Collect(q)

CallbackReturn ==
  /\ UNCHANGED <<due, socks, stage, user, delay>>
  /\ Res!CallbackReturn

DeliverEnd ==
  /\ UNCHANGED <<due, socks, stage, user, delay>>
  /\ Res!DeliverEnd

DnsThrow ==
  /\ stage' = "main"
  /\ UNCHANGED <<due, socks, user, delay>>
  /\ Res!Throw

-----------------------------------------------------------------------------

(* core::wait(): an event, a signal, a failure or the timeout ends the     *)
(* sleep, and k seconds have passed since the clock was last read.  The    *)
(* demultiplexers assert that delay <= MaxTimeout; without assertions a    *)
(* longer one may overflow, and then how long they sleep is anybody's      *)
(* guess.                                                                  *)
Wait(k) ==
  /\ stage = "wait"
  /\ due' = [t \in Timers |-> IF due[t] = Off THEN Off
                              ELSE IF due[t] <= k THEN 0 ELSE due[t] - k]
  /\ delay' = 0
  /\ stage' = "main"
  /\ UNCHANGED <<socks, user>>
  /\ Res!Wait

Operation ==
  \/ \E t \in Timeout : Cancel(t) \/ \E d \in Delay : Arm(t, d)
  \/ \E s \in Socket : Register(s) \/ Unregister(s)
  \/ \E q \in Query : Submit(q)

Deliver ==
  \/ \E q \in Query : Collect(q)
  \/ CallbackReturn \/ DeliverEnd

(* The steps that core::run() takes by itself. *)
Run ==
  \/ RunEnter \/ DispatchReturn
  \/ \E t \in Timeout : RunTask(t)
  \/ DnsTask \/ ScheduleReturn
  \/ DnsNone \/ DnsEnter \/ DnsLater \/ DnsReturn
  \/ RunReturn

Next ==
  \/ Operation \/ UserReturn \/ UserThrow
  \/ Run \/ Handler \/ DnsHandler \/ DnsNow \/ DnsMerge
  \/ Deliver \/ DnsThrow
  \/ \E k \in 0..MaxPass : Wait(k)

Spec == Init /\ [][Next]_vars

(* The main loop keeps calling run() and wait(), and the clock advances.   *)
(* User code returns, does not throw for ever, and does not for ever       *)
(* schedule tasks for the very second that is being run.  dispatch::run()  *)
(* comes to an end (RunEnds of the dispatchers), and so do the loops of    *)
(* dns::run() and deliver_responses() (FairSpec of Adns).                  *)
FairSpec ==
  /\ Spec
  /\ WF_vars(Run) /\ WF_vars(UserReturn)
  /\ SF_vars(DispatchReturn) /\ SF_vars(DnsLater) /\ SF_vars(DnsReturn)
  /\ WF_vars(CallbackReturn) /\ SF_vars(DeliverEnd)
  /\ <>[][~UserThrow /\ ~DnsThrow]_vars
  /\ []<>(stage \notin {"schedule", "again"})
  /\ WF_vars(\E k \in 0..MaxPass : Wait(k))
  /\ SF_vars(\E k \in 1..MaxPass : Wait(k))

-----------------------------------------------------------------------------
(* Properties *)

(* wait() is never given more time than is left until a deadline, those    *)
(* made by the callbacks of dns::run() and by the tasks they schedule      *)
(* included, and run() returns 0 only if empty() is true: a main loop that *)
(* tests empty() neither oversleeps nor spins.  It is given more than the  *)
(* demultiplexer takes only if no query is open and all that is scheduled  *)
(* are tasks of the program that are further ahead than that.              *)
SleepsInTime ==
  stage = "wait" =>
    /\ \A t \in Armed : delay <= due[t]
    /\ delay = 0 => Empty
    /\ delay > MaxTimeout => queries = {} /\ Armed \subseteq Timeout

(* The program never sleeps on a query: whoever submitted it, and after    *)
(* whatever exception, the resolver's timeout is armed and bounds the      *)
(* sleep.  Queries that the tasks of the second schedule::run() submit     *)
(* come after dns::run() has looked at its queries; such tasks exist only  *)
(* if dns::run() called a callback, and then it has armed its timeout.     *)
QueriesAttended == stage = "wait" /\ queries # {} => due[Dns] # Off


(* Nothing that belongs to the program is left. *)
Done == Armed \subseteq {Dns} /\ socks = {} /\ queries = {}

(* When the program has no task, no socket and no query, empty() becomes   *)
(* true, or the program finds something new to do: what the resolver still *)
(* has registered and scheduled does not keep the main loop going.         *)
Empties == Done ~> Empty \/ ~Done
=============================================================================
