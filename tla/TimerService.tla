---------------------------- MODULE TimerService ----------------------------
(***************************************************************************)
(* What schedule<>::timeout and schedule::run() promise to the rest of     *)
(* ioxx, with no task queue, no iterators and no task ids: every timeout   *)
(* object has at most one deadline, arming replaces it, cancelling removes *)
(* it and touches no other timeout's deadline; run() removes a deadline    *)
(* only once it has passed and only by running its task, earliest deadline *)
(* first, and does not return while one is left that has passed.  Schedule *)
(* implements this specification as long as time does not run backwards    *)
(* and tasks are scheduled in the future.                                  *)
(***************************************************************************)
EXTENDS Integers

CONSTANTS
  Timeout,      \* the schedule::timeout objects of the program
  MaxTime       \* bound: the last second the clock shows

VARIABLES
  now,          \* the time of day
  deadline,     \* when each timeout's task is due; 0: it has none
  pc            \* "idle", in run() between two tasks ("loop"), or in a "task"

vars == <<now, deadline, pc>>

Init ==
  /\ now \in 1..MaxTime
  /\ deadline = [t \in Timeout |-> 0]
  /\ pc = "idle"

(* The program arms and cancels between two runs and in tasks, never while *)
(* run() looks for the next task.                                          *)
UserCode == pc # "loop"

(* Arming a timeout gives it one deadline, whatever it had before. *)
Arm(t) ==
  /\ UserCode
  /\ \E ts \in 1..MaxTime :
        /\ ts > now
        /\ deadline' = [deadline EXCEPT ![t] = ts]
  /\ UNCHANGED <<now, pc>>

(* Cancelling affects the timeout it is called on, and no other. *)
Cancel(t) ==
  /\ UserCode
  /\ deadline' = [deadline EXCEPT ![t] = 0]
  /\ UNCHANGED <<now, pc>>

RunEnter ==
  /\ pc = "idle"
  /\ pc' = "loop"
  /\ UNCHANGED <<now, deadline>>

(* A task runs once its deadline has come, and no task runs before one     *)
(* that is due earlier.                                                    *)
Fire(t) ==
  /\ pc = "loop"
  /\ deadline[t] \in 1..now
  /\ \A u \in Timeout : deadline[u] # 0 => deadline[t] <= deadline[u]
  /\ deadline' = [deadline EXCEPT ![t] = 0]
  /\ pc' = "task"
  /\ UNCHANGED now

(* The task returns to run(), or throws out of it. *)
TaskEnd ==
  /\ pc = "task"
  /\ pc' \in {"loop", "idle"}
  /\ UNCHANGED <<now, deadline>>

(* run() returns when no deadline is left that has come. *)
RunReturn ==
  /\ pc = "loop"
  /\ \A t \in Timeout : deadline[t] \notin 1..now
  /\ pc' = "idle"
  /\ UNCHANGED <<now, deadline>>

Advance ==
  /\ pc = "idle"
  /\ now' \in 1..MaxTime
  /\ now' > now
  /\ UNCHANGED <<deadline, pc>>

Next ==
  \/ \E t \in Timeout : Arm(t) \/ Cancel(t) \/ Fire(t)
  \/ RunEnter \/ TaskEnd \/ RunReturn
  \/ Advance

Spec == Init /\ [][Next]_vars
=============================================================================
