------------------------------ MODULE Schedule ------------------------------
(***************************************************************************)
(* The time-event dispatcher, include/ioxx/schedule.hpp: a task queue      *)
(* (std::multimap keyed by time_t), the task ids that name its entries,    *)
(* and the scoped schedule::timeout objects built on them.                 *)
(*                                                                         *)
(* A task id is a pair of a time and an iterator.  run() erases the entry  *)
(* of a task before it calls the task and does not reset the id, so a      *)
(* timeout whose task has run keeps a stale id with a dangling iterator;   *)
(* cancel() has to tell stale ids from live ones by comparing times only.  *)
(* An iterator is therefore modelled as the address of its queue node, and *)
(* addresses are recycled the way an allocator does.                       *)
(*                                                                         *)
(* Tasks are arbitrary user code: while one runs, every operation of every *)
(* timeout may be called, in any order, before it returns or throws.  A    *)
(* task scheduled with schedule::at()/in() whose id is thrown away is a    *)
(* timeout that nobody cancels.                                            *)
(*                                                                         *)
(* std::multimap keeps entries with equal times in an order that C++98     *)
(* does not specify: begin() is any entry of the least time.               *)
(***************************************************************************)
EXTENDS Integers

CONSTANTS
  Timeout,      \* the schedule::timeout objects of the program
  Node,         \* addresses of queue nodes
  NoNode,       \* the iterator of a default-constructed task id
  Delay,        \* what is added to now() when a task is scheduled: the
                \* seconds_t of in(), or ts - now() of at(), which may be
                \* zero or negative
  MaxTime,      \* bound: the last second the clock shows
  Monotonic     \* gettimeofday(2) never steps back

ASSUME ScheduleAssumption ==
  /\ NoNode \notin Node
  /\ MaxTime \in Nat \ {0}
  /\ Delay \subseteq Int
  /\ Monotonic \in BOOLEAN

VARIABLES
  now,          \* the time_t that schedule::_now refers to
  queue,        \* schedule::_queue
  tid,          \* timeout::_id of every timeout
  pc            \* "idle", in run() at its "loop" head, in a "task", or
                \* "corrupt" once a dangling iterator has been erased

vars == <<now, queue, tid, pc>>

Time == 1..MaxTime

(* task_id; the time 0 says that there is no task. *)
TaskId == [ts : 0..MaxTime, node : Node \cup {NoNode}]

NullId == [ts |-> 0, node |-> NoNode]

(* A queue_entry at its address, with the timeout that scheduled it.  The  *)
(* owner is not stored by the code; no guard below reads it.               *)
QueueEntry == [ts : Time, node : Node, owner : Timeout]

TypeOK ==
  /\ now \in Time
  /\ queue \subseteq QueueEntry
  /\ tid \in [Timeout -> TaskId]
  /\ pc \in {"idle", "loop", "task", "corrupt"}

Init ==
  /\ now \in Time
  /\ queue = {}
  /\ tid = [t \in Timeout |-> NullId]
  /\ pc = "idle"

-----------------------------------------------------------------------------
(* schedule::cancel() *)

(* tid.first > _queue.begin()->first: something is queued before id's time.*)
LaterThanBegin(id) == \E e \in queue : e.ts < id.ts

(* Mutant: the entries at the head are compared by address alone. *)
ErasedByAddress(id) == {e \in queue : id.ts # 0 /\ e.node = id.node}

(* The entries that cancel(id) erases.  An id later than the head of the   *)
(* queue is taken to be live and whatever is at its address is erased;     *)
(* otherwise the entries that share the head's time are searched for it.   *)
Erased(id) ==
  {e \in queue : /\ id.ts # 0
                 /\ e.node = id.node
                 /\ LaterThanBegin(id) \/ e.ts = id.ts}

(* cancel(id) returns true, and resets id. *)
Cancelled(id) == id.ts # 0 /\ (LaterThanBegin(id) \/ Erased(id) # {})

(* unsafe_cancel() is called on an iterator whose node has been freed. *)
ErasesDangling(id) == id.ts # 0 /\ LaterThanBegin(id) /\ Erased(id) = {}

(* The search over the entries that share the head's time finds nothing,   *)
(* nothing later is queued, and the loop reads the time of end().  What is *)
(* stored there is no time of day (libstdc++ keeps the queue's length in   *)
(* its place), so that the loop ends and cancel() returns false.           *)
ReadsEnd(id) ==
  /\ id.ts # 0
  /\ queue # {}
  /\ \A e \in queue : e.ts = id.ts /\ e.node # id.node

(* Nothing can be said of the program once it has corrupted its heap.      *)
PcAfterCancel(id) == IF ErasesDangling(id) THEN "corrupt" ELSE pc

-----------------------------------------------------------------------------
(* The operations of a timeout.  They are called between two runs or by a  *)
(* task.                                                                   *)

UserCode == pc \in {"idle", "task"}

(* Mutant: -1 instead of 0 for "no task". *)
CancelMinusOne(t) ==
  /\ UserCode
  /\ queue' = queue \ Erased(tid[t])
  /\ pc' = PcAfterCancel(tid[t])
  /\ tid' = [tid EXCEPT ![t].ts = IF Cancelled(tid[t]) THEN -1 ELSE @]
  /\ UNCHANGED now

(* timeout::cancel() *)
Cancel(t) ==
  /\ UserCode
  /\ queue' = queue \ Erased(tid[t])
  /\ pc' = PcAfterCancel(tid[t])
  /\ tid' = [tid EXCEPT ![t].ts = IF Cancelled(tid[t]) THEN 0 ELSE @]
  /\ UNCHANGED now

(* schedule::at(): insert an entry, at an address no entry of the queue    *)
(* has, and keep its id.                                                   *)
Insert(t, ts, rest) ==
  \E n \in Node :
    /\ \A e \in rest : e.node # n
    /\ queue' = rest \cup {[ts |-> ts, node |-> n, owner |-> t]}
    /\ tid' = [tid EXCEPT ![t] = [ts |-> ts, node |-> n]]

(* Mutant: the old id is overwritten and its task stays queued. *)
ArmWithoutCancel(t, d) ==
  /\ UserCode
  /\ now + d \in Time
  /\ Insert(t, now + d, queue)
  /\ UNCHANGED <<now, pc>>

(* Mutant: the task is scheduled a second early. *)
ArmEarly(t, d) ==
  /\ UserCode
  /\ now + d - 1 \in Time
  /\ Insert(t, now + d - 1, queue \ Erased(tid[t]))
  /\ pc' = PcAfterCancel(tid[t])
  /\ UNCHANGED now

(* timeout::at(), timeout::in(), and the constructors that schedule a      *)
(* task: cancel the old id, schedule, keep the new id.                     *)
Arm(t, d) ==
  /\ UserCode
  /\ now + d \in Time
  /\ Insert(t, now + d, queue \ Erased(tid[t]))
  /\ pc' = PcAfterCancel(tid[t])
  /\ UNCHANGED now

(* ~timeout().  The object is default-constructed again where the program  *)
(* next needs it.                                                          *)
Destroy(t) ==
  /\ UserCode
  /\ queue' = queue \ Erased(tid[t])
  /\ pc' = PcAfterCancel(tid[t])
  /\ tid' = [tid EXCEPT ![t] = NullId]
  /\ UNCHANGED now

-----------------------------------------------------------------------------
(* schedule::run(), and the clock. *)

RunEnter ==
  /\ pc = "idle"
  /\ pc' = "loop"
  /\ UNCHANGED <<now, queue, tid>>

(* Mutant: any due task is run, not the first. *)
RunTaskUnordered ==
  /\ pc = "loop"
  /\ \E e \in queue : e.ts <= now /\ queue' = queue \ {e}
  /\ pc' = "task"
  /\ UNCHANGED <<now, tid>>

(* The head of the queue is due: copy its task, erase it, call the copy. *)
RunTask ==
  /\ pc = "loop"
  /\ \E e \in queue :
        /\ \A f \in queue : e.ts <= f.ts
        /\ e.ts <= now
        /\ queue' = queue \ {e}
  /\ pc' = "task"
  /\ UNCHANGED <<now, tid>>

TaskReturn ==
  /\ pc = "task"
  /\ pc' = "loop"
  /\ UNCHANGED <<now, queue, tid>>

(* An exception leaves run() through the task. *)
TaskThrow ==
  /\ pc = "task"
  /\ pc' = "idle"
  /\ UNCHANGED <<now, queue, tid>>

(* Mutant: a task of the current second is left for later. *)
RunReturnEarly ==
  /\ pc = "loop"
  /\ \A e \in queue : e.ts >= now
  /\ pc' = "idle"
  /\ UNCHANGED <<now, queue, tid>>

(* The queue is empty or its head is not due. *)
RunReturn ==
  /\ pc = "loop"
  /\ \A e \in queue : e.ts > now
  /\ pc' = "idle"
  /\ UNCHANGED <<now, queue, tid>>

(* Mutant: the clock is set back while it is assumed not to be. *)
UpdateBackwards ==
  /\ pc = "idle"
  /\ now' \in Time \ {now}
  /\ UNCHANGED <<queue, tid, pc>>

(* time_of_day::update(), called by core::wait() between two runs. *)
Update ==
  /\ pc = "idle"
  /\ now' \in Time \ {now}
  /\ Monotonic => now' > now
  /\ UNCHANGED <<queue, tid, pc>>

Operation ==
  \E t \in Timeout :
    \/ Cancel(t)
    \/ \E d \in Delay : Arm(t, d)
    \/ Destroy(t)

Next ==
  \/ Operation
  \/ RunEnter \/ RunTask \/ TaskReturn \/ TaskThrow \/ RunReturn
  \/ Update

Spec == Init /\ [][Next]_vars

(* The main loop calls run() again and again, tasks return, and the clock, *)
(* which is read once per iteration, advances.                             *)
FairSpec ==
  /\ Spec
  /\ WF_vars(RunEnter)
  /\ WF_vars(RunTask)
  /\ WF_vars(TaskReturn)
  /\ WF_vars(RunReturn)
  /\ SF_vars(Update)

-----------------------------------------------------------------------------
(* Properties *)

Live(t) == \E e \in queue : e.owner = t

(* When the task of t is due; 0 if none is queued. *)
Deadline(t) ==
  IF Live(t) THEN (CHOOSE e \in queue : e.owner = t).ts ELSE 0

(* The iterator comparisons of cancel() never erase a freed queue node:    *)
(* holds when the clock does not step back and nothing is scheduled in the *)
(* past, however often a timeout is cancelled after its task has run.      *)
HeapOK == pc # "corrupt"

(* Cancelling, re-arming or destroying a timeout removes its own task or   *)
(* none.  The id that cancel() is given may be stale and its node address  *)
(* may belong to another timeout's task by now.  Holds when every task is  *)
(* scheduled after now().                                                  *)
CancelHitsOwn ==
  UserCode => \A t \in Timeout : \A e \in Erased(tid[t]) : e.owner = t

(* Every queued task can still be cancelled: the timeout that scheduled it *)
(* has the entry's id, so at most one task of a timeout is queued and none *)
(* survives its timeout.                                                   *)
NoOrphan ==
  \A e \in queue : tid[e.owner].ts = e.ts /\ tid[e.owner].node = e.node

(* A timeout whose task has run keeps its id; nothing that is or comes     *)
(* into the queue is earlier than that id, which is what lets cancel() see *)
(* that the id is stale.                                                   *)
StaleIdsPrecede ==
  \A t \in Timeout :
    tid[t].ts # 0 /\ ~Live(t) =>
      /\ tid[t].ts <= now
      /\ \A e \in queue : tid[t].ts <= e.ts

(* cancel() only looks at entries of the queue.  Violated: the search over *)
(* the entries that share the head's time is not stopped by end().         *)
CancelStaysInQueue ==
  UserCode => \A t \in Timeout : ~ReadsEnd(tid[t])

(* run() returns to the main loop, whatever the tasks schedule, as long as *)
(* they schedule it later than now().                                      *)
RunReturns == pc = "loop" ~> pc = "idle"

(* No deadline is passed over: a queued task runs, or is cancelled or      *)
(* re-armed for another time, even if tasks keep throwing out of run().    *)
DeadlineMet ==
  \A t \in Timeout, ts \in Time : Deadline(t) = ts ~> Deadline(t) # ts

(* The queue, the ids and the stale iterators implement one deadline per   *)
(* timeout object, whose task is run neither early nor before one that is  *)
(* due earlier, and always before run() returns.                           *)
Timers == INSTANCE TimerService
            WITH deadline <- [t \in Timeout |-> Deadline(t)]

ImplementsTimers == Timers!Spec
=============================================================================
