----------------------------- MODULE AdnsProofs -----------------------------
(***************************************************************************)
(* Theorems about Adns, for any number of queries, any descriptors and     *)
(* anything the adns library may ask for.                                  *)
(***************************************************************************)
EXTENDS Adns, FiniteSetTheorems, WellFoundedInduction, TLAPS

(* The adns library does not answer a query twice. *)
Disjoint == inFlight \cap answered = {}

(* run() arms the timeout before it merges. *)
MergeArmed == pc = "merge" => armed

(* Only deliver_responses() has somewhere to return to. *)
Returns == pc \notin {"deliver", "callback"} => ret = "idle"

(* HandlersMatch is inductive with Disjoint, the others by themselves.     *)
AdnsInv ==
  /\ TypeOK
  /\ HandlersMatch
  /\ Disjoint
  /\ MergeSettled
  /\ MergeArmed
  /\ Returns

(* The head of the remaining descriptors exists and precedes the others.   *)
LEMMA LeastIs ==
  ASSUME NEW S, S \subseteq Fd, S # {}
  PROVE  Least(S) \in S /\ \A n \in S : Least(S) <= n
<1>1. S \subseteq Nat
  BY AdnsAssumption
<1>2. \E x \in S : \A y \in S : <<y, x>> \notin OpToRel(<, Nat)
  BY <1>1, NatLessThanWellFounded, WFMin, Zenon
<1>3. \A x, y \in Nat : y < x => <<y, x>> \in OpToRel(<, Nat)
  BY Zenon DEF OpToRel
<1>4. \E m \in S : \A n \in S : m <= n
  <2>1. PICK x \in S : \A y \in S : <<y, x>> \notin OpToRel(<, Nat)
    BY <1>2, Zenon
  <2>2. \A y \in S : ~(y < x)
    BY <1>1, <1>3, <2>1, Zenon
  <2> QED
    BY <1>1, <2>2
<1> QED
  BY <1>4 DEF Least

(* adns_beforepoll() asks for a number of descriptors. *)
LEMMA NeededType == Needed \in Nat
<1>1. InUse(wanted) \subseteq Fd
  BY DEF InUse
<1>2. IsFiniteSet(InUse(wanted))
  BY <1>1, AdnsAssumption, FS_Subset
<1> QED
  BY <1>2, FS_CardinalityType DEF Needed

-----------------------------------------------------------------------------
(* Types *)

(* A new resolver is well-typed. *)
LEMMA TypeInit == Init => TypeOK
<1> SUFFICES ASSUME Init PROVE TypeOK
  OBVIOUS
<1>1. wanted \in [Fd -> SUBSET EventFlag]
  BY AdnsAssumption DEF Init
<1>2. registered \in [Fd -> SUBSET EventFlag]
  BY DEF Init, NoSockets
<1>3. size \in Nat /\ nfds \in 0..size
  BY AdnsAssumption DEF Init
<1>4. armed \in BOOLEAN /\ slept \in BOOLEAN
  BY DEF Init
<1> QED
  BY <1>1, <1>2, <1>3, <1>4 DEF Init, TypeOK

(* Steps of the adns library keep its state well-typed. *)
LEMMA LibraryType ==
  ASSUME TypeOK,
         \/ \E q \in Query : Accept(q)
         \/ ProcessSocket
         \/ ProcessTimeouts
  PROVE  /\ inFlight' \subseteq Query
         /\ answered' \subseteq Query
         /\ expired' \subseteq inFlight'
         /\ wanted' \in [Fd -> SUBSET EventFlag]
<1> USE AdnsAssumption DEF TypeOK
<1>1. ASSUME NEW q \in Query, Accept(q)
      PROVE  /\ inFlight' \subseteq Query
             /\ answered' \subseteq Query
             /\ expired' \subseteq inFlight'
  BY <1>1 DEF Accept
<1>2. wanted' \in Wants
  BY DEF Accept, ProcessSocket, ProcessTimeouts
<1>3. CASE ProcessSocket
  BY <1>2, <1>3 DEF ProcessSocket
<1>4. CASE ProcessTimeouts
  BY <1>2, <1>4 DEF ProcessTimeouts
<1> QED
  BY <1>1, <1>2, <1>3, <1>4

(* Every step keeps the state well-typed. *)
LEMMA TypeStep == TypeOK /\ [Next]_vars => TypeOK'
<1> SUFFICES ASSUME TypeOK, [Next]_vars PROVE TypeOK'
  OBVIOUS
<1> USE DEF TypeOK, polling, adnsLib
<1>1. ASSUME NEW q \in Query, NewQuery(q) PROVE TypeOK'
  BY <1>1, LibraryType DEF NewQuery, Submit
<1>2. CASE ProcessFd
  BY <1>2, LibraryType DEF ProcessFd
<1>3. CASE FireTimeout
  <2>1. armed' \in BOOLEAN /\ ret' \in {"idle", "before"}
    BY <1>3 DEF FireTimeout
  <2> QED
    BY <1>3, <2>1, LibraryType DEF FireTimeout
<1>4. ASSUME NEW q \in Query, Collect(q) PROVE TypeOK'
  BY <1>4 DEF Collect
<1>5. CASE CheckAgain
  BY <1>5 DEF CheckAgain
<1>6. CASE CheckNone
  BY <1>6 DEF CheckNone, NoSockets
<1>7. CASE CallbackReturn
  BY <1>7 DEF CallbackReturn
<1>8. CASE DeliverThrow
  BY <1>8 DEF DeliverThrow
<1>9. CASE RunNone
  BY <1>9 DEF RunNone, NoSockets
<1>10. CASE RunEnter
  <2>1. armed' \in BOOLEAN /\ slept' \in BOOLEAN
    BY <1>10 DEF RunEnter
  <2>2. size' \in Nat /\ nfds' \in 0..size'
    BY <1>10 DEF RunEnter
  <2> QED
    BY <1>10, <2>1, <2>2 DEF RunEnter
<1>11. CASE BeforeRange
  BY <1>11, NeededType DEF BeforeRange
<1>12. CASE BeforeNow
  BY <1>12, NeededType, LibraryType DEF BeforeNow
<1>13. CASE BeforeLater
  BY <1>13, NeededType DEF BeforeLater, InUse
<1>14. CASE MergeAdd
  BY <1>14, LeastIs DEF MergeAdd, RegisterFd
<1>15. CASE MergeModify
  BY <1>15, LeastIs DEF MergeModify
<1>16. CASE MergeErase
  BY <1>16, LeastIs DEF MergeErase
<1>17. CASE MergeDone
  BY <1>17 DEF MergeDone
<1>18. CASE RunThrow
  BY <1>18 DEF RunThrow
<1>19. CASE Wait
  BY <1>19 DEF Wait
<1>20. CASE UNCHANGED vars
  BY <1>20 DEF vars
<1> QED
  BY <1>1, <1>2, <1>3, <1>4, <1>5, <1>6, <1>7, <1>8, <1>9, <1>10, <1>11,
     <1>12, <1>13, <1>14, <1>15, <1>16, <1>17, <1>18, <1>19, <1>20
     DEF Next, Run, Deliver

-----------------------------------------------------------------------------
(* Queries and callbacks *)

(* Every step keeps a callback for every query that adns has, and no       *)
(* other.                                                                  *)
LEMMA HandlersStep ==
  ASSUME TypeOK, HandlersMatch, Disjoint, [Next]_vars
  PROVE  HandlersMatch' /\ Disjoint'
<1> USE DEF TypeOK, HandlersMatch, Disjoint
<1>1. ASSUME NEW q \in Query, NewQuery(q) PROVE HandlersMatch' /\ Disjoint'
  BY <1>1 DEF NewQuery, Submit, Accept
<1>2. CASE ProcessFd
  BY <1>2 DEF ProcessFd, ProcessSocket
<1>3. CASE FireTimeout
  BY <1>3 DEF FireTimeout, ProcessTimeouts
<1>4. ASSUME NEW q \in Query, Collect(q) PROVE HandlersMatch' /\ Disjoint'
  BY <1>4 DEF Collect
<1>5. CASE BeforeNow
  BY <1>5 DEF BeforeNow, ProcessTimeouts
<1>6. CASE UNCHANGED <<inFlight, answered, queries>>
  BY <1>6
<1> QED
  BY <1>1, <1>2, <1>3, <1>4, <1>5, <1>6
     DEF Next, Run, Deliver, CheckAgain, CheckNone, CallbackReturn,
         DeliverThrow, RunNone, RunEnter, BeforeRange, BeforeLater, MergeAdd,
         MergeModify, MergeErase, MergeDone, RunThrow, Wait, vars, adnsLib

-----------------------------------------------------------------------------
(* The merge *)

(* Only run() enters and continues the merge. *)
LEMMA MergeSteps ==
  ASSUME [Next]_vars, pc' = "merge", TypeOK
  PROVE  \/ BeforeLater \/ MergeAdd \/ MergeModify \/ MergeErase
         \/ pc = "merge" /\ UNCHANGED vars
<1>1. ASSUME NEW q \in Query, NewQuery(q) PROVE FALSE
  BY <1>1 DEF NewQuery, UserCode
<1>2. ASSUME NEW q \in Query, Collect(q) PROVE FALSE
  BY <1>2 DEF Collect
<1>3. CASE ProcessFd \/ FireTimeout \/ CheckAgain \/ CheckNone
  BY <1>3 DEF ProcessFd, FireTimeout, CheckAgain, CheckNone, TypeOK
<1>4. CASE CallbackReturn \/ DeliverThrow \/ RunNone \/ RunEnter
  BY <1>4 DEF CallbackReturn, DeliverThrow, RunNone, RunEnter
<1>5. CASE BeforeRange \/ BeforeNow \/ MergeDone \/ RunThrow \/ Wait
  BY <1>5 DEF BeforeRange, BeforeNow, MergeDone, RunThrow, Wait
<1>6. CASE UNCHANGED vars
  BY <1>6 DEF vars
<1> QED
  BY <1>1, <1>2, <1>3, <1>4, <1>5, <1>6 DEF Next, Run, Deliver

(* Each comparison of the merge settles the descriptor that it passes.     *)
LEMMA MergeStep ==
  ASSUME TypeOK, MergeSettled, [Next]_vars
  PROVE  MergeSettled'
<1> SUFFICES ASSUME pc' = "merge" PROVE MergeSettled'
  BY DEF MergeSettled
<1> USE DEF TypeOK, MergeSettled, InUse
<1>1. CASE BeforeLater
  BY <1>1 DEF BeforeLater, adnsLib
<1>2. CASE MergeAdd
  <2> DEFINE f == Least(req)
  <2>1. pc = "merge" /\ wanted' = wanted /\ reg' = reg /\ req' = req \ {f}
    BY <1>2 DEF MergeAdd, adnsLib
  <2>2. registered' = [registered EXCEPT ![f] = wanted[f]]
    BY <1>2 DEF MergeAdd, RegisterFd
  <2>3. f \in req
    BY <1>2, LeastIs DEF MergeAdd
  <2>4. f \notin reg
    <3> SUFFICES ASSUME f \in reg PROVE FALSE
      OBVIOUS
    <3>1. f < Least(reg) /\ Least(reg) <= f
      BY <1>2, LeastIs DEF MergeAdd
    <3>2. f \in Nat /\ Least(reg) \in Nat
      BY LeastIs, AdnsAssumption
    <3> QED
      BY <3>1, <3>2
  <2> QED
    BY <2>1, <2>2, <2>3, <2>4
<1>3. CASE MergeModify
  <2> DEFINE f == Least(req)
  <2>1. /\ pc = "merge" /\ wanted' = wanted
        /\ req' = req \ {f} /\ reg' = reg \ {f}
    BY <1>3 DEF MergeModify, adnsLib
  <2>2. registered' = [registered EXCEPT ![f] = wanted[f]]
    BY <1>3 DEF MergeModify
  <2>3. f \in req
    BY <1>3, LeastIs DEF MergeModify
  <2> QED
    BY <2>1, <2>2, <2>3
<1>4. CASE MergeErase
  <2> DEFINE f == Least(reg)
  <2>1. pc = "merge" /\ wanted' = wanted /\ req' = req /\ reg' = reg \ {f}
    BY <1>4 DEF MergeErase, adnsLib
  <2>2. registered' = [registered EXCEPT ![f] = {}]
    BY <1>4 DEF MergeErase
  <2>3. f \in reg
    BY <1>4, LeastIs DEF MergeErase
  <2>4. f \notin req
    <3> SUFFICES ASSUME f \in req PROVE FALSE
      OBVIOUS
    <3>1. f < Least(req) /\ Least(req) <= f
      <4>1. Least(req) > f
        BY <1>4 DEF MergeErase
      <4>2. Least(req) <= f /\ Least(req) \in Nat /\ f \in Nat
        BY <2>3, LeastIs, AdnsAssumption
      <4> QED
        BY <4>1, <4>2
    <3>2. f \in Nat /\ Least(req) \in Nat
      BY LeastIs, AdnsAssumption
    <3> QED
      BY <3>1, <3>2
  <2>5. wanted[f] = {}
    BY <2>1, <2>3, <2>4
  <2> QED
    BY <2>1, <2>2, <2>3, <2>4, <2>5
<1>5. CASE pc = "merge" /\ UNCHANGED vars
  BY <1>5 DEF vars, adnsLib, polling
<1> QED
  BY <1>1, <1>2, <1>3, <1>4, <1>5, MergeSteps

(* The timeout stays armed during the merge. *)
LEMMA ArmedStep ==
  ASSUME TypeOK, MergeArmed, [Next]_vars
  PROVE  MergeArmed'
<1> SUFFICES ASSUME pc' = "merge" PROVE armed'
  BY DEF MergeArmed
<1>1. CASE BeforeLater
  BY <1>1 DEF BeforeLater
<1>2. CASE MergeAdd \/ MergeModify \/ MergeErase
  BY <1>2 DEF MergeArmed, MergeAdd, MergeModify, MergeErase
<1>3. CASE pc = "merge" /\ UNCHANGED vars
  BY <1>3 DEF MergeArmed, vars
<1> QED
  BY <1>1, <1>2, <1>3, MergeSteps

(* deliver_responses() is entered with the place to return to, and left    *)
(* for it or by an exception.                                              *)
LEMMA ReturnsStep ==
  ASSUME TypeOK, Returns, [Next]_vars
  PROVE  Returns'
<1> USE DEF Returns, TypeOK
<1>1. ASSUME NEW q \in Query, NewQuery(q) \/ Collect(q) PROVE Returns'
  BY <1>1 DEF NewQuery, Collect
<1>2. CASE ProcessFd \/ FireTimeout \/ CheckAgain \/ CheckNone
  BY <1>2 DEF ProcessFd, FireTimeout, CheckAgain, CheckNone
<1>3. CASE CallbackReturn \/ DeliverThrow \/ RunNone \/ RunEnter \/ Wait
  BY <1>3 DEF CallbackReturn, DeliverThrow, RunNone, RunEnter, Wait
<1>4. CASE BeforeRange \/ BeforeNow \/ BeforeLater \/ RunThrow
  BY <1>4 DEF BeforeRange, BeforeNow, BeforeLater, RunThrow
<1>5. CASE MergeAdd \/ MergeModify \/ MergeErase \/ MergeDone
  BY <1>5 DEF MergeAdd, MergeModify, MergeErase, MergeDone
<1>6. CASE UNCHANGED vars
  BY <1>6 DEF vars
<1> QED
  BY <1>1, <1>2, <1>3, <1>4, <1>5, <1>6 DEF Next, Run, Deliver

-----------------------------------------------------------------------------
(* AdnsInv holds of a new resolver. *)
LEMMA InvInit == Init => AdnsInv
<1> SUFFICES ASSUME Init PROVE AdnsInv
  OBVIOUS
<1>1. HandlersMatch /\ Disjoint
  BY DEF Init, HandlersMatch, Disjoint
<1>2. MergeSettled /\ MergeArmed /\ Returns
  BY DEF Init, MergeSettled, MergeArmed, Returns
<1> QED
  BY <1>1, <1>2, TypeInit DEF AdnsInv

(* Every step keeps AdnsInv. *)
LEMMA InvStep == AdnsInv /\ [Next]_vars => AdnsInv'
<1> SUFFICES ASSUME AdnsInv, [Next]_vars PROVE AdnsInv'
  OBVIOUS
<1> QED
  BY TypeStep, HandlersStep, MergeStep, ArmedStep, ReturnsStep DEF AdnsInv

(* What check_consistency() asserts: adns has a query exactly if a         *)
(* callback is waiting for it, though ids are given out again while the    *)
(* callback of the query they named before is running.                     *)
THEOREM QueriesSafe == Spec => []HandlersMatch
<1>1. AdnsInv => HandlersMatch
  BY DEF AdnsInv
<1> QED
  BY <1>1, InvInit, InvStep, PTL DEF Spec

(* The merge of run(): whatever was registered and whatever is wanted, run *)
(* leaves exactly the wanted sockets registered, and the timeout armed.    *)
THEOREM MergeCorrect == Spec => RunCovers
<1> DEFINE Covers == pc = "merge" /\ pc' = "ran" => registered' = wanted' /\ armed'
<1>1. AdnsInv /\ [Next]_vars => Covers
  <2> SUFFICES ASSUME AdnsInv, [Next]_vars, pc = "merge", pc' = "ran"
               PROVE  registered' = wanted' /\ armed'
    OBVIOUS
  <2>1. MergeDone
    <3>1. ASSUME NEW q \in Query, NewQuery(q) \/ Collect(q) PROVE FALSE
      BY <3>1 DEF NewQuery, UserCode, Collect
    <3>2. ~(ProcessFd \/ FireTimeout \/ CheckAgain \/ CheckNone)
      BY DEF ProcessFd, FireTimeout, CheckAgain, CheckNone
    <3>3. ~(CallbackReturn \/ DeliverThrow \/ RunNone \/ RunEnter \/ Wait)
      BY DEF CallbackReturn, DeliverThrow, RunNone, RunEnter, Wait
    <3>4. ~(BeforeRange \/ BeforeNow \/ BeforeLater \/ RunThrow)
      BY DEF BeforeRange, BeforeNow, BeforeLater, RunThrow
    <3>5. ~(MergeAdd \/ MergeModify \/ MergeErase)
      BY DEF MergeAdd, MergeModify, MergeErase
    <3>6. ~UNCHANGED vars
      BY DEF vars
    <3> QED
      BY <3>1, <3>2, <3>3, <3>4, <3>5, <3>6 DEF Next, Run, Deliver
  <2>2. armed'
    BY <2>1 DEF MergeDone, AdnsInv, MergeArmed
  <2>3. wanted' = wanted /\ req = {}
    BY <2>1 DEF MergeDone, adnsLib
  <2>4. registered' = [fd \in Fd |-> IF fd \in reg THEN {} ELSE registered[fd]]
    BY <2>1 DEF MergeDone
  <2>5. \A fd \in Fd : registered'[fd] = wanted[fd]
    BY <2>3, <2>4 DEF AdnsInv, MergeSettled
  <2>6. wanted \in [Fd -> SUBSET EventFlag]
    BY DEF AdnsInv, TypeOK
  <2>7. registered' = wanted'
    BY <2>3, <2>4, <2>5, <2>6
  <2> QED
    BY <2>2, <2>7
<1>2. AdnsInv /\ [Next]_vars => [Covers]_vars
  BY <1>1
<1> QED
  BY <1>2, InvInit, InvStep, PTL DEF Spec, RunCovers

(* Types of the resolver's state: the array given to adns_beforepoll() is  *)
(* never smaller than the number of entries it is said to have.            *)
THEOREM AdnsTypes == Spec => []TypeOK
BY TypeInit, TypeStep, PTL DEF Spec

-----------------------------------------------------------------------------
(* The refinement *)

(* Some socket is registered. *)
LEMMA PolledInUse ==
  ASSUME TypeOK
  PROVE  InUse(registered) # {} <=> registered # NoSockets
<1>1. ASSUME registered # NoSockets PROVE \E fd \in Fd : registered[fd] # {}
  BY <1>1 DEF TypeOK, NoSockets
<1>2. ASSUME NEW fd \in Fd, registered[fd] # {} PROVE registered # NoSockets
  BY <1>2 DEF NoSockets
<1> QED
  BY <1>1, <1>2 DEF InUse

(* Giving sockets up leaves none if there was none. *)
LEMMA DoneKeepsNone ==
  ASSUME TypeOK, MergeDone, registered = NoSockets
  PROVE  registered' = NoSockets
BY DEF TypeOK, MergeDone, NoSockets

(* Handlers, tasks and callbacks do what those of Resolver do. *)
LEMMA UserRefines ==
  ASSUME AdnsInv,
         \/ \E q \in Query : NewQuery(q)
         \/ ProcessFd \/ FireTimeout \/ Wait
  PROVE  [Res!Next]_(Res!vars)
<1> USE DEF AdnsInv
<1>1. ASSUME NEW q \in Query, NewQuery(q) PROVE Res!Submit(q)
  BY <1>1 DEF NewQuery, Submit, Accept, UserCode, HandlersMatch, Res!Submit
<1>2. CASE ProcessFd
  <2>1. registered # NoSockets
    BY <1>2, PolledInUse DEF ProcessFd
  <2>2. CASE pc' = "deliver"
    BY <1>2, <2>1, <2>2 DEF ProcessFd, Res!ProcessFd, Res!Next
  <2>3. CASE pc' = "idle"
    BY <1>2, <2>3 DEF ProcessFd, Returns, Res!vars
  <2> QED
    BY <1>2, <2>2, <2>3 DEF ProcessFd
<1>3. CASE FireTimeout
  BY <1>3 DEF FireTimeout, TimeoutDue, Res!FireTimeout, Res!Next
<1>4. CASE Wait
  BY <1>4 DEF Wait, Returns, Res!Wait, Res!Next
<1> QED
  BY <1>1, <1>2, <1>3, <1>4 DEF Res!Next

(* deliver_responses() does what Resolver's does. *)
LEMMA DeliverRefines ==
  ASSUME AdnsInv, Deliver \/ CallbackReturn \/ DeliverThrow
  PROVE  Res!Next
<1> USE DEF AdnsInv
<1>1. ASSUME NEW q \in Query, Collect(q) PROVE Res!Collect(q)
  BY <1>1 DEF Collect, HandlersMatch, Res!Collect
<1>2. CASE CheckAgain
  <2>1. queries # {}
    BY <1>2 DEF CheckAgain, HandlersMatch
  <2> QED
    BY <1>2, <2>1 DEF CheckAgain, TypeOK, Res!DeliverEnd, Res!Next
<1>3. CASE CheckNone
  <2>1. queries = {}
    BY <1>3 DEF CheckNone, HandlersMatch
  <2> QED
    BY <1>3, <2>1 DEF CheckNone, TypeOK, Res!DeliverEnd, Res!Next
<1>4. CASE CallbackReturn
  BY <1>4 DEF CallbackReturn, Res!CallbackReturn, Res!Next
<1>5. CASE DeliverThrow
  BY <1>5 DEF DeliverThrow, Res!Throw, Res!Next
<1> QED
  BY <1>1, <1>2, <1>3, <1>4, <1>5 DEF Deliver, Res!Next

(* run() does what Resolver's does; how large the array is does not        *)
(* matter, and the merge is that of sets of sockets.                       *)
LEMMA RunRefines ==
  ASSUME AdnsInv, Run \/ RunThrow
  PROVE  [Res!Next]_(Res!vars)
<1> USE DEF AdnsInv
<1>1. CASE RunNone
  BY <1>1 DEF RunNone, Returns, Res!RunNone, Res!Next
<1>2. CASE RunEnter
  BY <1>2 DEF RunEnter, Returns, Res!RunEnter, Res!Next
<1>3. CASE BeforeRange
  BY <1>3 DEF BeforeRange, Res!vars
<1>4. CASE BeforeNow
  BY <1>4 DEF BeforeNow, Res!RunNow, Res!Next
<1>5. CASE BeforeLater
  BY <1>5 DEF BeforeLater, Returns, Res!RunLater, Res!Next
<1>6. CASE MergeAdd \/ MergeModify \/ MergeErase
  BY <1>6 DEF MergeAdd, MergeModify, MergeErase, Res!Merge, Res!Next
<1>7. CASE MergeDone
  BY <1>7, DoneKeepsNone DEF MergeDone, Returns, Res!RunReturn, Res!Next
<1>8. CASE RunThrow
  BY <1>8 DEF RunThrow, Returns, Res!Throw, Res!Next
<1> QED
  BY <1>1, <1>2, <1>3, <1>4, <1>5, <1>6, <1>7, <1>8 DEF Run

(* The adapter of the adns library is a resolver as core::run() needs one. *)
THEOREM RefinesResolver == Spec => ImplementsResolver
<1>1. Init => Res!Init
  BY DEF Init, Res!Init
<1>2. AdnsInv /\ [Next]_vars => [Res!Next]_(Res!vars)
  <2> SUFFICES ASSUME AdnsInv, [Next]_vars PROVE [Res!Next]_(Res!vars)
    OBVIOUS
  <2>1. CASE UNCHANGED vars
    BY <2>1 DEF vars, Res!vars
  <2> QED
    BY <2>1, UserRefines, DeliverRefines, RunRefines DEF Next
<1> QED
  BY <1>1, <1>2, InvInit, InvStep, PTL DEF Spec, ImplementsResolver, Res!Spec
=============================================================================
