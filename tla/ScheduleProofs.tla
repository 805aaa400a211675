--------------------------- MODULE ScheduleProofs ---------------------------
(***************************************************************************)
(* Theorems about Schedule, for any number of timeouts, node addresses and *)
(* delays and any length of time.                                          *)
(***************************************************************************)
EXTENDS Schedule, TLAPS

(* No two entries of the queue share an address. *)
UniqueNodes == \A e, f \in queue : e.node = f.node => e = f

(* cancel() can tell the entries of the queue apart by time and address. *)
NoAlias ==
  \A t \in Timeout : \A e \in queue :
    e.ts = tid[t].ts /\ e.node = tid[t].node => e.owner = t

(* Inductive when the clock is monotone and nothing is scheduled in the    *)
(* past.                                                                   *)
QueueInv ==
  /\ TypeOK
  /\ HeapOK
  /\ UniqueNodes
  /\ NoOrphan
  /\ StaleIdsPrecede

(* Inductive when, in addition, nothing is scheduled for the current       *)
(* second.                                                                 *)
StrictInv == QueueInv /\ NoAlias

-----------------------------------------------------------------------------
(* What schedule::cancel() erases *)

(* cancel() erases entries of the queue. *)
LEMMA ErasedSubset ==
  ASSUME NEW id PROVE Erased(id) \subseteq queue
BY DEF Erased

(* A new schedule is well-typed. *)
LEMMA TypeInit == Init => TypeOK
BY ScheduleAssumption DEF Init, TypeOK, Time, TaskId, NullId, QueueEntry

(* Every operation keeps the state well-typed. *)
LEMMA TypeStep == TypeOK /\ [Next]_vars => TypeOK'
<1> SUFFICES ASSUME TypeOK, [Next]_vars PROVE TypeOK'
  OBVIOUS
<1> USE ScheduleAssumption DEF TypeOK, Time, TaskId, NullId, QueueEntry
<1>1. ASSUME NEW t \in Timeout, Cancel(t) PROVE TypeOK'
  BY <1>1, ErasedSubset DEF Cancel, PcAfterCancel
<1>2. ASSUME NEW t \in Timeout, NEW d \in Delay, Arm(t, d) PROVE TypeOK'
  BY <1>2, ErasedSubset DEF Arm, Insert, PcAfterCancel
<1>3. ASSUME NEW t \in Timeout, Destroy(t) PROVE TypeOK'
  BY <1>3, ErasedSubset DEF Destroy, PcAfterCancel
<1>4. CASE RunEnter
  BY <1>4 DEF RunEnter
<1>5. CASE RunTask
  BY <1>5 DEF RunTask
<1>6. CASE TaskReturn
  BY <1>6 DEF TaskReturn
<1>7. CASE TaskThrow
  BY <1>7 DEF TaskThrow
<1>8. CASE RunReturn
  BY <1>8 DEF RunReturn
<1>9. CASE Update
  BY <1>9 DEF Update
<1>10. CASE UNCHANGED vars
  BY <1>10 DEF vars
<1> QED
  BY <1>1, <1>2, <1>3, <1>4, <1>5, <1>6, <1>7, <1>8, <1>9, <1>10
     DEF Next, Operation

(* The state is well-typed in every behaviour, whatever the clock does. *)
THEOREM TypeCorrect == Spec => []TypeOK
<1>1. Init => TypeOK
  BY TypeInit
<1>2. TypeOK /\ [Next]_vars => TypeOK'
  BY TypeStep
<1> QED
  BY <1>1, <1>2, PTL DEF Spec

-----------------------------------------------------------------------------
(* The heap *)

(* A live timeout's id names its own entry, and cancel() erases it. *)
LEMMA LiveErased ==
  ASSUME TypeOK, NoOrphan, NEW t \in Timeout,
         NEW e \in queue, e.owner = t
  PROVE  e \in Erased(tid[t]) /\ tid[t].ts = e.ts /\ tid[t].node = e.node
<1>1. e.ts # 0
  BY ScheduleAssumption DEF TypeOK, QueueEntry, Time
<1>2. tid[t].ts = e.ts /\ tid[t].node = e.node
  BY DEF NoOrphan
<1> QED
  BY <1>1, <1>2 DEF Erased

(* The id of a timeout that is not live is never later than the head of    *)
(* the queue, so cancel() does not follow its iterator.                    *)
LEMMA NeverDangling ==
  ASSUME QueueInv, NEW t \in Timeout
  PROVE  ~ErasesDangling(tid[t])
<1> SUFFICES ASSUME ErasesDangling(tid[t]) PROVE FALSE
  OBVIOUS
<1>1. tid[t].ts # 0 /\ LaterThanBegin(tid[t]) /\ Erased(tid[t]) = {}
  BY DEF ErasesDangling
<1>2. ~Live(t)
  BY <1>1, LiveErased DEF QueueInv, Live
<1>3. \A e \in queue : tid[t].ts <= e.ts
  BY <1>1, <1>2 DEF QueueInv, StaleIdsPrecede
<1> QED
  BY <1>1, <1>3 DEF LaterThanBegin, QueueInv, TypeOK, QueueEntry, Time, TaskId

(* Erasing what cancel(tid[t]) erases leaves every surviving entry with    *)
(* its owner's id; an owner that lost its entry to t's stale id is itself  *)
(* stale, at the same time.                                                *)
LEMMA ErasedAsStale ==
  ASSUME QueueInv, NEW t \in Timeout, NEW e \in Erased(tid[t]), e.owner # t
  PROVE  e.ts = tid[t].ts /\ tid[t].ts # 0 /\ ~Live(t)
<1>1. e \in queue /\ e.node = tid[t].node /\ tid[t].ts # 0
  BY DEF Erased
<1>2. ASSUME Live(t) PROVE FALSE
  <2>1. PICK f \in queue : f.owner = t
    BY <1>2 DEF Live
  <2>2. f.node = tid[t].node
    BY <2>1, LiveErased DEF QueueInv
  <2> QED
    BY <1>1, <2>1, <2>2 DEF QueueInv, UniqueNodes
<1>3. ~LaterThanBegin(tid[t])
  BY <1>1, <1>2 DEF QueueInv, StaleIdsPrecede, LaterThanBegin, TypeOK,
                     QueueEntry, Time, TaskId
<1> QED
  BY <1>1, <1>2, <1>3 DEF Erased

(* Cancelling preserves the queue's invariants: rest is the queue after    *)
(* the cancellation, when t is left with an id that is 0 or unchanged.     *)
LEMMA StaleAfterErase ==
  ASSUME QueueInv, NEW t \in Timeout, NEW u \in Timeout, u # t,
         tid[u].ts # 0, ~(\E e \in queue \ Erased(tid[t]) : e.owner = u)
  PROVE  /\ tid[u].ts <= now
         /\ \A e \in queue : tid[u].ts <= e.ts
<1>1. CASE ~Live(u)
  BY <1>1 DEF QueueInv, StaleIdsPrecede
<1>2. CASE Live(u)
  <2>1. PICK e \in queue : e.owner = u
    BY <1>2 DEF Live
  <2>2. e \in Erased(tid[t])
    BY <2>1
  <2>3. e.ts = tid[t].ts /\ tid[t].ts # 0 /\ ~Live(t)
    BY <2>1, <2>2, ErasedAsStale
  <2>4. tid[u].ts = e.ts
    BY <2>1, LiveErased DEF QueueInv
  <2> QED
    BY <2>3, <2>4 DEF QueueInv, StaleIdsPrecede
<1> QED
  BY <1>1, <1>2

(* Cancelling and destroying *)

(* cancel() and ~timeout() keep QueueInv. *)
LEMMA QueueInvErase ==
  ASSUME QueueInv, NEW t \in Timeout, TypeOK',
         queue' = queue \ Erased(tid[t]),
         pc' = PcAfterCancel(tid[t]),
         now' = now,
         \A u \in Timeout \ {t} : tid'[u] = tid[u],
         tid'[t].ts # 0 => tid'[t].ts = tid[t].ts /\ Erased(tid[t]) = {}
  PROVE  QueueInv'
<1>1. HeapOK'
  BY NeverDangling DEF PcAfterCancel, HeapOK, QueueInv
<1>2. UniqueNodes'
  BY DEF QueueInv, UniqueNodes
<1>3. \A e \in queue' : e \in queue /\ e.owner \in Timeout \ {t}
  BY LiveErased DEF QueueInv, TypeOK, QueueEntry
<1>4. NoOrphan'
  BY <1>3 DEF NoOrphan, QueueInv
<1>5. StaleIdsPrecede'
  <2> SUFFICES ASSUME NEW u \in Timeout, tid'[u].ts # 0, ~Live(u)'
               PROVE  tid'[u].ts <= now' /\ \A e \in queue' : tid'[u].ts <= e.ts
    BY DEF StaleIdsPrecede
  <2>1. CASE u # t
    BY <2>1, StaleAfterErase DEF Live
  <2>2. CASE u = t
    <3>1. tid[t].ts = tid'[t].ts /\ ~Live(t)
      BY <2>2, LiveErased DEF QueueInv, Live
    <3> QED
      BY <2>2, <3>1 DEF QueueInv, StaleIdsPrecede
  <2> QED
    BY <2>1, <2>2
<1> QED
  BY <1>1, <1>2, <1>4, <1>5 DEF QueueInv

(* Arming *)
LEMMA QueueInvArm ==
  ASSUME QueueInv, NEW t \in Timeout, NEW d \in Nat, Arm(t, d), TypeOK'
  PROVE  QueueInv'
<1> DEFINE rest == queue \ Erased(tid[t])
<1>1. PICK n \in Node :
        /\ \A e \in rest : e.node # n
        /\ queue' = rest \cup {[ts |-> now + d, node |-> n, owner |-> t]}
        /\ tid' = [tid EXCEPT ![t] = [ts |-> now + d, node |-> n]]
  BY DEF Arm, Insert
<1>2. now' = now /\ now \in Nat /\ d \in Nat
  BY ScheduleAssumption DEF Arm, QueueInv, TypeOK, Time
<1>3. tid'[t].ts = now + d /\ tid'[t].node = n
  BY <1>1 DEF QueueInv, TypeOK
<1>4. \A u \in Timeout \ {t} : tid'[u] = tid[u]
  BY <1>1 DEF QueueInv, TypeOK
<1>5. \A e \in rest : e \in queue /\ e.owner \in Timeout \ {t}
  BY LiveErased DEF QueueInv, TypeOK, QueueEntry
<1>6. HeapOK'
  BY NeverDangling DEF Arm, PcAfterCancel, HeapOK, QueueInv
<1>7. UniqueNodes'
  BY <1>1 DEF QueueInv, UniqueNodes
<1>8. NoOrphan'
  <2> SUFFICES ASSUME NEW e \in queue'
               PROVE  tid'[e.owner].ts = e.ts /\ tid'[e.owner].node = e.node
    BY DEF NoOrphan
  <2>1. CASE e \in rest
    BY <2>1, <1>4, <1>5 DEF QueueInv, NoOrphan
  <2>2. CASE e = [ts |-> now + d, node |-> n, owner |-> t]
    BY <2>2, <1>3
  <2> QED
    BY <2>1, <2>2, <1>1
<1>9. StaleIdsPrecede'
  <2> SUFFICES ASSUME NEW u \in Timeout, tid'[u].ts # 0, ~Live(u)'
               PROVE  tid'[u].ts <= now' /\ \A e \in queue' : tid'[u].ts <= e.ts
    BY DEF StaleIdsPrecede
  <2>1. u # t
    <3>1. \E e \in queue' : e.owner = t
      <4> DEFINE new == [ts |-> now + d, node |-> n, owner |-> t]
      <4>1. new \in queue' /\ new.owner = t
        BY <1>1
      <4> QED
        BY <4>1
    <3> QED
      BY <3>1 DEF Live
  <2>2. tid[u].ts <= now /\ \A e \in queue : tid[u].ts <= e.ts
    BY <2>1, <1>1, <1>4, StaleAfterErase DEF Live
  <2>3. tid[u].ts \in Nat
    BY ScheduleAssumption DEF QueueInv, TypeOK, TaskId
  <2>4. tid'[u].ts <= now'
    BY <2>1, <2>2, <1>2, <1>4
  <2>5. ASSUME NEW e \in queue' PROVE tid'[u].ts <= e.ts
    <3>1. CASE e \in rest
      BY <3>1, <2>1, <2>2, <1>4, <1>5
    <3>2. CASE e = [ts |-> now + d, node |-> n, owner |-> t]
      BY <3>2, <2>1, <2>2, <2>3, <1>2, <1>4
    <3> QED
      BY <3>1, <3>2, <1>1
  <2> QED
    BY <2>4, <2>5
<1> QED
  BY <1>6, <1>7, <1>8, <1>9 DEF QueueInv

(* Running a task *)
LEMMA QueueInvRunTask ==
  ASSUME QueueInv, RunTask, TypeOK'
  PROVE  QueueInv'
<1>1. PICK e \in queue :
        /\ \A f \in queue : e.ts <= f.ts
        /\ e.ts <= now
        /\ queue' = queue \ {e}
  BY DEF RunTask
<1>2. now' = now /\ tid' = tid /\ pc' = "task"
  BY DEF RunTask
<1>3. HeapOK' /\ UniqueNodes' /\ NoOrphan'
  BY <1>1, <1>2 DEF QueueInv, HeapOK, UniqueNodes, NoOrphan
<1>4. StaleIdsPrecede'
  <2> SUFFICES ASSUME NEW u \in Timeout, tid[u].ts # 0,
                      ~(\E f \in queue' : f.owner = u)
               PROVE  tid[u].ts <= now /\ \A f \in queue' : tid[u].ts <= f.ts
    BY <1>2 DEF StaleIdsPrecede, Live
  <2>1. CASE ~Live(u)
    BY <2>1, <1>1 DEF QueueInv, StaleIdsPrecede
  <2>2. CASE Live(u)
    <3>1. e.owner = u
      BY <2>2, <1>1 DEF Live
    <3>2. tid[u].ts = e.ts
      BY <3>1 DEF QueueInv, NoOrphan
    <3> QED
      BY <3>2, <1>1
  <2> QED
    BY <2>1, <2>2
<1> QED
  BY <1>3, <1>4 DEF QueueInv

(* QueueInv holds of a new schedule. *)
LEMMA QueueInvInit == Init => QueueInv
BY TypeInit DEF Init, QueueInv, HeapOK, UniqueNodes, NoOrphan,
                StaleIdsPrecede, NullId

(* Every operation keeps QueueInv. *)
LEMMA QueueInvStep ==
  ASSUME Monotonic, Delay \subseteq Nat, QueueInv, [Next]_vars
  PROVE  QueueInv'
<1>0. TypeOK'
  BY TypeStep DEF QueueInv
<1>1. ASSUME NEW t \in Timeout, Cancel(t) PROVE QueueInv'
  <2>1. tid' = [tid EXCEPT ![t].ts = IF Cancelled(tid[t]) THEN 0 ELSE @]
    BY <1>1 DEF Cancel
  <2>2. tid'[t].ts = IF Cancelled(tid[t]) THEN 0 ELSE tid[t].ts
    BY <2>1 DEF QueueInv, TypeOK, TaskId
  <2>3. \A u \in Timeout \ {t} : tid'[u] = tid[u]
    BY <2>1 DEF QueueInv, TypeOK
  <2>4. tid'[t].ts # 0 => tid'[t].ts = tid[t].ts /\ Erased(tid[t]) = {}
    BY <2>2 DEF Cancelled
  <2> QED
    BY <1>0, <1>1, <2>3, <2>4, QueueInvErase DEF Cancel
<1>2. ASSUME NEW t \in Timeout, NEW d \in Delay, Arm(t, d) PROVE QueueInv'
  BY <1>0, <1>2, QueueInvArm
<1>3. ASSUME NEW t \in Timeout, Destroy(t) PROVE QueueInv'
  <2>1. tid'[t].ts = 0 /\ \A u \in Timeout \ {t} : tid'[u] = tid[u]
    BY <1>3 DEF Destroy, QueueInv, TypeOK, NullId
  <2> QED
    BY <1>0, <1>3, <2>1, QueueInvErase DEF Destroy
<1>4. CASE RunTask
  BY <1>0, <1>4, QueueInvRunTask
<1>5. CASE Update
  <2>1. now <= now' /\ now \in Nat /\ now' \in Nat
    BY <1>5, ScheduleAssumption DEF Update, QueueInv, TypeOK, Time
  <2>2. \A t \in Timeout : tid[t].ts \in Nat
    BY ScheduleAssumption DEF QueueInv, TypeOK, TaskId
  <2>3. StaleIdsPrecede'
    BY <1>5, <2>1, <2>2 DEF Update, QueueInv, StaleIdsPrecede, Live
  <2> QED
    BY <1>0, <1>5, <2>3
       DEF Update, QueueInv, HeapOK, UniqueNodes, NoOrphan
<1>6. CASE RunEnter \/ TaskReturn \/ TaskThrow \/ RunReturn \/ UNCHANGED vars
  <2>1. /\ now' = now /\ queue' = queue /\ tid' = tid
        /\ pc' = pc \/ pc' \in {"idle", "loop"}
    BY <1>6 DEF RunEnter, TaskReturn, TaskThrow, RunReturn, vars
  <2> QED
    BY <1>0, <2>1 DEF QueueInv, HeapOK, UniqueNodes, NoOrphan,
                      StaleIdsPrecede, Live
<1> QED
  BY <1>1, <1>2, <1>3, <1>4, <1>5, <1>6 DEF Next, Operation

(* Where the clock does not step back and nothing is scheduled in the      *)
(* past, no call of schedule::cancel() erases a freed queue node.          *)
THEOREM HeapSafe ==
  ASSUME Monotonic, Delay \subseteq Nat
  PROVE  Spec => []HeapOK
<1>1. Init => QueueInv
  BY QueueInvInit
<1>2. QueueInv /\ [Next]_vars => QueueInv'
  BY QueueInvStep
<1>3. QueueInv => HeapOK
  BY DEF QueueInv
<1> QED
  BY <1>1, <1>2, <1>3, PTL DEF Spec

(* Under the same conditions every queued task can still be cancelled by   *)
(* the timeout that scheduled it.                                          *)
THEOREM NoTaskOrphaned ==
  ASSUME Monotonic, Delay \subseteq Nat
  PROVE  Spec => []NoOrphan
<1>1. Init => QueueInv
  BY QueueInvInit
<1>2. QueueInv /\ [Next]_vars => QueueInv'
  BY QueueInvStep
<1>3. QueueInv => NoOrphan
  BY DEF QueueInv
<1> QED
  BY <1>1, <1>2, <1>3, PTL DEF Spec

(* Nothing queued is earlier than the id of a task that has run, so that   *)
(* cancel(), which compares times only, takes no stale id for a live one   *)
(* unless both are for the same second.                                    *)
THEOREM StaleIdsSafe ==
  ASSUME Monotonic, Delay \subseteq Nat
  PROVE  Spec => []StaleIdsPrecede
<1>1. Init => QueueInv
  BY QueueInvInit
<1>2. QueueInv /\ [Next]_vars => QueueInv'
  BY QueueInvStep
<1>3. QueueInv => StaleIdsPrecede
  BY DEF QueueInv
<1> QED
  BY <1>1, <1>2, <1>3, PTL DEF Spec

-----------------------------------------------------------------------------
(* Cancelling the right task *)

(* What cancel() erases for a timeout was scheduled by it. *)
LEMMA ErasesOwn ==
  ASSUME StrictInv, NEW t \in Timeout, NEW e \in Erased(tid[t])
  PROVE  e.owner = t
<1> SUFFICES ASSUME e.owner # t PROVE FALSE
  OBVIOUS
<1>1. e.ts = tid[t].ts
  BY ErasedAsStale DEF StrictInv
<1>2. e \in queue /\ e.node = tid[t].node
  BY DEF Erased
<1> QED
  BY <1>1, <1>2 DEF StrictInv, NoAlias

(* cancel() and ~timeout() keep NoAlias. *)
LEMMA NoAliasErase ==
  ASSUME StrictInv, NEW t \in Timeout,
         queue' \subseteq queue,
         \A u \in Timeout \ {t} : tid'[u] = tid[u],
         tid'[t].ts # 0 => tid'[t] = tid[t]
  PROVE  NoAlias'
<1>1. \A e \in queue : e.ts # 0
  BY ScheduleAssumption DEF StrictInv, QueueInv, TypeOK, QueueEntry, Time
<1> QED
  BY <1>1 DEF StrictInv, NoAlias

(* at() and in() keep NoAlias when they schedule after now(). *)
LEMMA NoAliasArm ==
  ASSUME StrictInv, NEW t \in Timeout, NEW d \in Nat \ {0}, Arm(t, d)
  PROVE  NoAlias'
<1> DEFINE rest == queue \ Erased(tid[t])
           new(n) == [ts |-> now + d, node |-> n, owner |-> t]
<1>1. PICK n \in Node :
        /\ \A e \in rest : e.node # n
        /\ queue' = rest \cup {new(n)}
        /\ tid' = [tid EXCEPT ![t] = [ts |-> now + d, node |-> n]]
  BY DEF Arm, Insert
<1>2. now \in Nat /\ d \in Nat \ {0}
  BY ScheduleAssumption DEF StrictInv, QueueInv, TypeOK, Time
<1>3. tid'[t].node = n
  BY <1>1 DEF StrictInv, QueueInv, TypeOK
<1>4. \A u \in Timeout \ {t} : tid'[u] = tid[u]
  BY <1>1 DEF StrictInv, QueueInv, TypeOK
<1> SUFFICES ASSUME NEW u \in Timeout, NEW e \in queue',
                    e.ts = tid'[u].ts, e.node = tid'[u].node, u # e.owner
             PROVE  FALSE
  BY DEF NoAlias
<1>5. CASE e \in rest /\ u # t
  BY <1>4, <1>5 DEF StrictInv, NoAlias
<1>6. CASE e \in rest /\ u = t
  BY <1>1, <1>3, <1>6
<1>7. CASE e = new(n)
  <2>1. u # t /\ tid[u].ts = now + d /\ tid[u].node = n
    BY <1>4, <1>7
  <2>2. CASE Live(u)
    <3>1. PICK f \in queue : f.owner = u
      BY <2>2 DEF Live
    <3>2. f.node = n
      BY <2>1, <3>1 DEF StrictInv, QueueInv, NoOrphan
    <3>3. f \in Erased(tid[t])
      BY <1>1, <3>2
    <3> QED
      BY <2>1, <3>1, <3>3, ErasesOwn
  <2>3. CASE ~Live(u)
    <3>1. tid[u].ts <= now
      BY <1>2, <2>1, <2>3 DEF StrictInv, QueueInv, StaleIdsPrecede
    <3> QED
      BY <1>2, <2>1, <3>1
  <2> QED
    BY <2>2, <2>3
<1> QED
  BY <1>1, <1>5, <1>6, <1>7

(* StrictInv holds of a new schedule. *)
LEMMA StrictInvInit == Init => StrictInv
BY QueueInvInit DEF StrictInv, NoAlias, Init

(* Every operation keeps StrictInv. *)
LEMMA StrictInvStep ==
  ASSUME Monotonic, Delay \subseteq Nat \ {0}, StrictInv, [Next]_vars
  PROVE  StrictInv'
<1>0. QueueInv'
  BY QueueInvStep DEF StrictInv
<1>1. ASSUME NEW t \in Timeout, Cancel(t) PROVE NoAlias'
  <2>1. tid' = [tid EXCEPT ![t].ts = IF Cancelled(tid[t]) THEN 0 ELSE @]
    BY <1>1 DEF Cancel
  <2>2. \A u \in Timeout \ {t} : tid'[u] = tid[u]
    BY <2>1 DEF StrictInv, QueueInv, TypeOK
  <2>3. CASE Cancelled(tid[t])
    <3>1. tid'[t].ts = 0
      BY <2>1, <2>3 DEF StrictInv, QueueInv, TypeOK, TaskId
    <3> QED
      BY <1>1, <2>2, <3>1, NoAliasErase DEF Cancel
  <2>4. CASE ~Cancelled(tid[t])
    <3>1. tid'[t] = tid[t]
      BY <2>1, <2>4 DEF StrictInv, QueueInv, TypeOK, TaskId
    <3> QED
      BY <1>1, <2>2, <3>1, NoAliasErase DEF Cancel
  <2> QED
    BY <2>3, <2>4
<1>2. ASSUME NEW t \in Timeout, NEW d \in Delay, Arm(t, d) PROVE NoAlias'
  BY <1>2, NoAliasArm
<1>3. ASSUME NEW t \in Timeout, Destroy(t) PROVE NoAlias'
  <2>1. tid'[t].ts = 0 /\ \A u \in Timeout \ {t} : tid'[u] = tid[u]
    BY <1>3 DEF Destroy, StrictInv, QueueInv, TypeOK, NullId
  <2> QED
    BY <1>3, <2>1, NoAliasErase DEF Destroy
<1>4. CASE RunTask
  BY <1>0, <1>4 DEF RunTask, StrictInv, NoAlias
<1>5. CASE \/ RunEnter \/ TaskReturn \/ TaskThrow \/ RunReturn \/ Update
           \/ UNCHANGED vars
  BY <1>0, <1>5 DEF RunEnter, TaskReturn, TaskThrow, RunReturn, Update,
                    vars, StrictInv, NoAlias
<1> QED
  BY <1>0, <1>1, <1>2, <1>3, <1>4, <1>5 DEF Next, Operation, StrictInv

(* Where, in addition, every task is scheduled later than now(), a         *)
(* cancellation removes the caller's own task or none.                     *)
THEOREM CancelSafe ==
  ASSUME Monotonic, Delay \subseteq Nat \ {0}
  PROVE  Spec => []CancelHitsOwn
<1>1. Init => StrictInv
  BY StrictInvInit
<1>2. StrictInv /\ [Next]_vars => StrictInv'
  BY StrictInvStep
<1>3. StrictInv => CancelHitsOwn
  BY ErasesOwn DEF CancelHitsOwn
<1> QED
  BY <1>1, <1>2, <1>3, PTL DEF Spec

-----------------------------------------------------------------------------
(* Refinement *)

(* A timeout's deadline can be read off its id. *)
DeadlineFromId ==
  \A t \in Timeout : Deadline(t) = IF Live(t) THEN tid[t].ts ELSE 0

(* The deadline of a timeout with a queued task is in its id. *)
LEMMA DeadlineIs == QueueInv => DeadlineFromId
BY DEF QueueInv, NoOrphan, Deadline, Live, DeadlineFromId

(* The same in the next state. *)
LEMMA DeadlineIsNext == QueueInv' => DeadlineFromId'
BY DeadlineIs, PTL

(* A step that changes the deadline of t alone. *)
LEMMA OneDeadline ==
  ASSUME QueueInv, QueueInv', NEW t \in Timeout,
         \A u \in Timeout \ {t} : Live(u)' = Live(u) /\ tid'[u] = tid[u]
  PROVE  [u \in Timeout |-> Deadline(u)]' =
           [[u \in Timeout |-> Deadline(u)] EXCEPT ![t] = Deadline(t)']
<1>1. \A u \in Timeout \ {t} : Deadline(u)' = Deadline(u)
  BY DeadlineIs, DeadlineIsNext DEF DeadlineFromId
<1> QED
  BY <1>1

(* Cancelling t leaves every other timeout live. *)
LEMMA OthersLive ==
  ASSUME StrictInv, NEW t \in Timeout, NEW u \in Timeout \ {t}
  PROVE  Live(u) = \E e \in queue \ Erased(tid[t]) : e.owner = u
BY ErasesOwn DEF Live

(* What cancel() is given erases a queued task or nothing: it leaves the   *)
(* program where it was.                                                   *)
LEMMA CancelKeepsControl ==
  ASSUME StrictInv, NEW t \in Timeout, UserCode
  PROVE  PcAfterCancel(tid[t]) = pc /\ Timers!UserCode
BY NeverDangling DEF PcAfterCancel, StrictInv, UserCode, Timers!UserCode

(* cancel() and ~timeout() are Cancel steps of TimerService. *)
LEMMA EraseIsCancel ==
  ASSUME StrictInv, StrictInv', NEW t \in Timeout, UserCode,
         queue' = queue \ Erased(tid[t]), now' = now,
         pc' = PcAfterCancel(tid[t]),
         \A u \in Timeout \ {t} : tid'[u] = tid[u]
  PROVE  Timers!Cancel(t)
<1>1. \A u \in Timeout \ {t} : Live(u)' = Live(u)
  BY OthersLive DEF Live
<1>2. ~Live(t)'
  BY LiveErased DEF Live, StrictInv, QueueInv
<1>3. Deadline(t)' = 0
  BY <1>2 DEF Deadline
<1> QED
  BY <1>1, <1>3, OneDeadline, CancelKeepsControl DEF Timers!Cancel, StrictInv

(* at() and in() are Arm steps of TimerService. *)
LEMMA ArmIsArm ==
  ASSUME StrictInv, StrictInv', NEW t \in Timeout, NEW d \in Nat \ {0},
         Arm(t, d)
  PROVE  Timers!Arm(t)
<1>1. PICK n \in Node :
        /\ queue' = (queue \ Erased(tid[t]))
                       \cup {[ts |-> now + d, node |-> n, owner |-> t]}
        /\ tid' = [tid EXCEPT ![t] = [ts |-> now + d, node |-> n]]
  BY DEF Arm, Insert
<1>2. now' = now /\ now \in Nat /\ now + d \in 1..MaxTime
  BY ScheduleAssumption DEF Arm, Time, StrictInv, QueueInv, TypeOK
<1>3. \A u \in Timeout \ {t} : tid'[u] = tid[u]
  BY <1>1 DEF StrictInv, QueueInv, TypeOK
<1>4. \A u \in Timeout \ {t} : Live(u)' = Live(u)
  BY <1>1, OthersLive DEF Live
<1>5. Live(t)' /\ tid'[t].ts = now + d
  <2> DEFINE new == [ts |-> now + d, node |-> n, owner |-> t]
  <2>1. new \in queue' /\ new.owner = t
    BY <1>1
  <2>2. tid'[t].ts = now + d
    BY <1>1 DEF StrictInv, QueueInv, TypeOK
  <2> QED
    BY <2>1, <2>2 DEF Live
<1>6. Deadline(t)' = now + d
  BY <1>5, DeadlineIsNext DEF DeadlineFromId, StrictInv
<1>7. now + d > now
  BY <1>2
<1>8. Timers!UserCode /\ pc' = pc
  BY CancelKeepsControl DEF Arm
<1> QED
  BY <1>2, <1>3, <1>4, <1>6, <1>7, <1>8, OneDeadline DEF Timers!Arm, StrictInv

(* run() calling a task is a Fire step of TimerService. *)
LEMMA RunTaskIsFire ==
  ASSUME StrictInv, StrictInv', RunTask
  PROVE  \E t \in Timeout : Timers!Fire(t)
<1>1. PICK e \in queue :
        /\ \A f \in queue : e.ts <= f.ts
        /\ e.ts <= now
        /\ queue' = queue \ {e}
  BY DEF RunTask
<1>2. now' = now /\ tid' = tid /\ pc = "loop" /\ pc' = "task"
  BY DEF RunTask
<1>3. e.owner \in Timeout /\ e.ts \in 1..now
  BY <1>1, ScheduleAssumption DEF StrictInv, QueueInv, TypeOK, QueueEntry, Time
<1>4. \A u \in Timeout \ {e.owner} : Live(u)' = Live(u)
  BY <1>1 DEF Live
<1>5. ~Live(e.owner)'
  BY <1>1 DEF Live, StrictInv, QueueInv, NoOrphan, UniqueNodes
<1>6. Deadline(e.owner)' = 0
  BY <1>5 DEF Deadline
<1>7. Deadline(e.owner) = e.ts
  BY <1>3, DeadlineIs DEF DeadlineFromId, Live, StrictInv, QueueInv, NoOrphan
<1>8. \A u \in Timeout : Deadline(u) # 0 => e.ts <= Deadline(u)
  BY <1>1 DEF Deadline, Live
<1> QED
  BY <1>2, <1>3, <1>4, <1>6, <1>7, <1>8, OneDeadline
     DEF Timers!Fire, StrictInv

(* run() returning is a step of TimerService: no deadline has come. *)
LEMMA ReturnIsReturn ==
  ASSUME StrictInv, RunReturn
  PROVE  Timers!RunReturn
<1>1. \A e \in queue : e.ts > now
  BY DEF RunReturn
<1>2. \A t \in Timeout : Deadline(t) \notin 1..now
  <2> SUFFICES ASSUME NEW t \in Timeout, Deadline(t) \in 1..now
               PROVE  FALSE
    OBVIOUS
  <2>0. Deadline(t) # 0
    BY ScheduleAssumption DEF StrictInv, QueueInv, TypeOK, Time
  <2>1. PICK e \in queue : e.ts = Deadline(t)
    BY <2>0 DEF Deadline, Live
  <2> QED
    BY <1>1, <2>1, ScheduleAssumption
       DEF StrictInv, QueueInv, TypeOK, QueueEntry, Time
<1> QED
  BY <1>2 DEF RunReturn, Timers!RunReturn, Deadline, Live

(* As long as time does not run backwards and tasks are scheduled in the   *)
(* future, the task queue with its stale ids implements a service that     *)
(* keeps one deadline per timeout object, runs tasks in the order of their *)
(* deadlines, never early, and does not return while one is due.           *)
THEOREM Refinement ==
  ASSUME Monotonic, Delay \subseteq Nat \ {0}
  PROVE  Spec => ImplementsTimers
<1>1. Init => StrictInv
  BY StrictInvInit
<1>2. StrictInv /\ [Next]_vars => StrictInv'
  BY StrictInvStep
<1>3. Init => Timers!Init
  BY DEF Init, Timers!Init, Deadline, Live, Time
<1>4. StrictInv /\ StrictInv' /\ [Next]_vars => [Timers!Next]_(Timers!vars)
  <2> SUFFICES ASSUME StrictInv, StrictInv', [Next]_vars
               PROVE  [Timers!Next]_(Timers!vars)
    OBVIOUS
  <2>1. ASSUME NEW t \in Timeout, Cancel(t) PROVE Timers!Next
    <3>1. \A u \in Timeout \ {t} : tid'[u] = tid[u]
      BY <2>1 DEF Cancel, StrictInv, QueueInv, TypeOK
    <3> QED
      BY <2>1, <3>1, EraseIsCancel DEF Cancel, Timers!Next
  <2>2. ASSUME NEW t \in Timeout, NEW d \in Delay, Arm(t, d)
        PROVE  Timers!Next
    BY <2>2, ArmIsArm DEF Timers!Next
  <2>3. ASSUME NEW t \in Timeout, Destroy(t) PROVE Timers!Next
    <3>1. \A u \in Timeout \ {t} : tid'[u] = tid[u]
      BY <2>3 DEF Destroy, StrictInv, QueueInv, TypeOK
    <3> QED
      BY <2>3, <3>1, EraseIsCancel DEF Destroy, Timers!Next
  <2>4. CASE RunTask
    BY <2>4, RunTaskIsFire DEF Timers!Next
  <2>5. CASE Update
    BY <2>5 DEF Update, Time, Timers!Next, Timers!Advance, Deadline, Live
  <2>6. CASE RunEnter
    BY <2>6 DEF RunEnter, Timers!Next, Timers!RunEnter, Deadline, Live
  <2>7. CASE TaskReturn \/ TaskThrow
    BY <2>7 DEF TaskReturn, TaskThrow, Timers!Next, Timers!TaskEnd,
                Deadline, Live
  <2>8. CASE RunReturn
    BY <2>8, ReturnIsReturn DEF Timers!Next
  <2>9. CASE UNCHANGED vars
    BY <2>9 DEF vars, Timers!vars, Deadline, Live
  <2> QED
    BY <2>1, <2>2, <2>3, <2>4, <2>5, <2>6, <2>7, <2>8, <2>9
       DEF Next, Operation
<1> QED
  BY <1>1, <1>2, <1>3, <1>4, PTL DEF Spec, ImplementsTimers, Timers!Spec
=============================================================================
