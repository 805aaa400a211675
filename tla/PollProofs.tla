----------------------------- MODULE PollProofs -----------------------------
(***************************************************************************)
(* Theorems about PollDispatch, for any set of native sockets, any event   *)
(* sets, and handlers that destroy any socket at any time.                 *)
(***************************************************************************)
EXTENDS PollDispatch, DemuxLemmas, SequenceTheorems, FiniteSetTheorems, TLAPS

(* TypeOK is not inductive without the agreement of vector and map: the    *)
(* index of a record that is moved has to be the index of that record.     *)
PollInv == TypeOK /\ IndicesConsistent

(* PollInv holds of a new dispatcher. *)
LEMMA InitInv == Init => PollInv
<1> SUFFICES ASSUME Init PROVE PollInv
  OBVIOUS
<1>1. Sockets = {} /\ Len(pfd) = 0 /\ pfd \in Seq(PollFd)
  BY DEF Init, DispatchInit, PollInit, Sockets
<1>2. indices \in [Sockets -> 1..Len(pfd)]
  BY <1>1 DEF Init, PollInit
<1> QED
  BY <1>1, <1>2 DEF Init, DispatchInit, PollInit, PollInv, TypeOK,
                    IndicesConsistent, Handler

(* The constructor of a socket keeps PollInv. *)
LEMMA CreateInv ==
  ASSUME PollInv, NEW fd \in Fd, NEW h \in Handler, NEW ev \in Interest,
         Create(fd, h, ev)
  PROVE  PollInv'
<1> DEFINE rec == [fd |-> fd, events |-> ev, revents |-> {}]
<1> USE DEF PollInv, TypeOK
<1>1. /\ fd \notin Sockets
      /\ handlers' = [handlers EXCEPT ![fd] = h]
      /\ pfd' = Append(pfd, rec)
      /\ indices' = [f \in DOMAIN indices \cup {fd} |->
                       IF f = fd THEN Len(pfd) + 1 ELSE indices[f]]
      /\ UNCHANGED <<pc, cur, stale, nEvents, current>>
  BY DEF Create, Register, PollAdd
<1>2. handlers' \in [Fd -> Handler \cup {"absent"}]
  BY <1>1
<1>3. Sockets' = Sockets \cup {fd}
  BY <1>1 DEF Sockets, Handler
<1>4. rec \in PollFd
  BY PollDispatchAssumption DEF PollFd
<1>5. /\ pfd' \in Seq(PollFd)
      /\ Len(pfd') = Len(pfd) + 1
      /\ pfd'[Len(pfd) + 1] = rec
      /\ \A k \in 1..Len(pfd) : pfd'[k] = pfd[k]
  BY <1>1, <1>4, AppendProperties
<1>6. Len(pfd) \in Nat
  BY LenProperties
<1>7. /\ \A f \in Sockets : indices'[f] = indices[f]
      /\ indices'[fd] = Len(pfd) + 1
  BY <1>1
<1>8. indices' \in [Sockets' -> 1..Len(pfd')]
  BY <1>1, <1>3, <1>5, <1>6
<1>9. IndicesConsistent'
  <2>1. ASSUME NEW f \in Sockets' PROVE pfd'[indices'[f]].fd = f
    BY <1>1, <1>3, <1>5, <1>6, <1>7 DEF IndicesConsistent
  <2>2. ASSUME NEW k \in 1..Len(pfd')
        PROVE  pfd'[k].fd \in Sockets' /\ indices'[pfd'[k].fd] = k
    <3>1. CASE k = Len(pfd) + 1
      BY <3>1, <1>3, <1>5, <1>7
    <3>2. CASE k \in 1..Len(pfd)
      BY <3>2, <1>1, <1>3, <1>5, <1>7 DEF IndicesConsistent
    <3> QED
      BY <3>1, <3>2, <1>5, <1>6
  <2> QED
    BY <2>1, <2>2 DEF IndicesConsistent
<1> QED
  BY <1>1, <1>2, <1>5, <1>8, <1>9

(* modify() and request() keep PollInv. *)
LEMMA ModifyInv ==
  ASSUME PollInv, NEW fd \in Fd, NEW h \in Handler, NEW ev \in Interest,
         Modify(fd, h, ev)
  PROVE  PollInv'
<1> USE DEF PollInv, TypeOK
<1>1. /\ fd \in Sockets
      /\ handlers' = [handlers EXCEPT ![fd] = h]
      /\ pfd' = [pfd EXCEPT ![indices[fd]].events = ev]
      /\ UNCHANGED <<pc, cur, stale, indices, nEvents, current>>
  BY DEF Modify, SetHandler, PollRequest
<1>2. handlers' \in [Fd -> Handler \cup {"absent"}] /\ Sockets' = Sockets
  BY <1>1 DEF Sockets, Handler
<1> DEFINE i == indices[fd]
           rec == [pfd[i] EXCEPT !.events = ev]
<1>3. i \in 1..Len(pfd) /\ pfd[i] \in PollFd
  BY <1>1, ElementOfSeq
<1>4. rec \in PollFd /\ rec.fd = pfd[i].fd
  BY <1>3, PollDispatchAssumption DEF PollFd
<1>5. pfd' = [pfd EXCEPT ![i] = rec]
  BY <1>1
<1>6. /\ pfd' \in Seq(PollFd)
      /\ Len(pfd') = Len(pfd)
      /\ \A k \in 1..Len(pfd) : pfd'[k] = IF k = i THEN rec ELSE pfd[k]
  <2> HIDE DEF rec, i
  <2>1. pfd \in Seq(PollFd)
    OBVIOUS
  <2> QED
    BY <1>3, <1>4, <1>5, <2>1, ExceptSeq
<1>7. \A k \in 1..Len(pfd) : pfd'[k].fd = pfd[k].fd
  BY <1>4, <1>6
<1>8. IndicesConsistent'
  BY <1>1, <1>2, <1>6, <1>7 DEF IndicesConsistent
<1> QED
  BY <1>1, <1>2, <1>6, <1>8

(* ~socket() keeps PollInv, whichever record it moves. *)
LEMMA DestroyInv ==
  ASSUME PollInv, NEW fd \in Fd, Destroy(fd)
  PROVE  PollInv'
<1> USE DEF PollInv, TypeOK
<1> DEFINE last == Len(pfd)
           i    == indices[fd]
<1>1. /\ fd \in Sockets
      /\ handlers' = [handlers EXCEPT ![fd] = "absent"]
      /\ pfd' = [k \in 1..(last - 1) |-> IF k = i THEN pfd[last] ELSE pfd[k]]
      /\ indices' = [f \in DOMAIN indices \ {fd} |->
                       IF f = pfd[last].fd THEN i ELSE indices[f]]
      /\ stale' = stale
      /\ UNCHANGED <<pc, cur, nEvents, current>>
  BY DEF Destroy, Unregister, PollRemove
<1>2. handlers' \in [Fd -> Handler \cup {"absent"}] /\ Sockets' = Sockets \ {fd}
  BY <1>1 DEF Sockets
<1>3. last \in Nat /\ i \in 1..last /\ last \in 1..last
  BY <1>1, LenProperties
<1>4. \A k \in 1..last : pfd[k] \in PollFd
  BY ElementOfSeq
<1>5. /\ pfd' \in Seq(PollFd)
      /\ Len(pfd') = last - 1
      /\ \A k \in 1..(last - 1) :
           pfd'[k] = IF k = i THEN pfd[last] ELSE pfd[k]
  <2>1. \A k \in 1..(last - 1) :
          (IF k = i THEN pfd[last] ELSE pfd[k]) \in PollFd
    BY <1>3, <1>4
  <2>2. pfd' \in [1..(last - 1) -> PollFd] /\ last - 1 \in Nat
    BY <1>1, <1>3, <2>1
  <2>3. pfd' \in Seq(PollFd)
    BY <2>2, IsASeq
  <2>4. Len(pfd') = last - 1
    BY <2>2, <2>3, LenProperties
  <2> QED
    BY <1>1, <2>3, <2>4
(* The record that is moved, and its index. *)
<1>6. /\ pfd[last].fd \in Sockets
      /\ indices[pfd[last].fd] = last
      /\ pfd[i].fd = fd
  BY <1>1, <1>3 DEF IndicesConsistent
<1>7. \A f \in Sockets' :
        /\ f \in Sockets /\ f # fd
        /\ indices'[f] = IF f = pfd[last].fd THEN i ELSE indices[f]
  BY <1>1, <1>2
<1>8. ASSUME NEW f \in Sockets'
      PROVE  indices'[f] \in 1..(last - 1) /\ pfd'[indices'[f]].fd = f
  <2>1. f \in Sockets /\ f # fd /\ indices[f] \in 1..last /\ pfd[indices[f]].fd = f
    BY <1>7 DEF IndicesConsistent
  <2>2. CASE f = pfd[last].fd
    <3>1. i # last
      BY <1>6, <2>1, <2>2
    <3>2. indices'[f] = i /\ i \in 1..(last - 1)
      BY <1>3, <1>7, <2>2, <3>1
    <3> QED
      BY <1>5, <2>2, <3>2
  <2>3. CASE f # pfd[last].fd
    <3>1. indices[f] # last /\ indices[f] # i
      BY <1>6, <2>1, <2>3
    <3>2. indices'[f] = indices[f] /\ indices[f] \in 1..(last - 1)
      BY <1>3, <1>7, <2>1, <2>3, <3>1
    <3> QED
      BY <1>5, <2>1, <3>1, <3>2
  <2> QED
    BY <2>2, <2>3
<1>9. ASSUME NEW k \in 1..(last - 1)
      PROVE  pfd'[k].fd \in Sockets' /\ indices'[pfd'[k].fd] = k
  <2>0. k \in 1..last /\ k # last
    BY <1>3
  <2>1. CASE k = i
    <3>1. pfd'[k].fd = pfd[last].fd /\ pfd[last].fd # fd
      BY <1>5, <1>6, <2>0, <2>1
    <3> QED
      BY <1>2, <1>6, <1>7, <2>1, <3>1
  <2>2. CASE k # i
    <3>1. pfd'[k] = pfd[k]
      BY <1>5, <2>2
    <3>2. pfd[k].fd \in Sockets /\ indices[pfd[k].fd] = k
      BY <2>0 DEF IndicesConsistent
    <3>3. pfd[k].fd # fd /\ pfd[k].fd # pfd[last].fd
      BY <1>6, <2>0, <2>2, <3>2
    <3> QED
      BY <1>2, <1>7, <3>1, <3>2, <3>3
  <2> QED
    BY <2>1, <2>2
<1>10. indices' \in [Sockets' -> 1..Len(pfd')]
  BY <1>1, <1>2, <1>5, <1>8
<1>11. IndicesConsistent'
  BY <1>5, <1>8, <1>9 DEF IndicesConsistent
<1> QED
  BY <1>1, <1>2, <1>5, <1>10, <1>11

(* Steps that leave the vector's sockets alone. *)
LEMMA FrameInv ==
  ASSUME PollInv, UNCHANGED <<handlers, pfd, indices>>
  PROVE  Sockets' = Sockets /\ IndicesConsistent'
BY DEF PollInv, Sockets, IndicesConsistent

(* pop_event() keeps PollInv, even when it reads beyond the vector. *)
LEMMA RunStepInv ==
  ASSUME PollInv, RunStep
  PROVE  PollInv'
<1> USE DEF PollInv, TypeOK
<1>1. CASE PollOverrun
  BY <1>1, FrameInv DEF RunStep, pollVars
<1>2. CASE ~PollOverrun
  <2>1. PICK fd \in Fd, flags \in SUBSET Flag :
          PollPop(fd, flags) /\ Deliver(fd, EventSet(flags))
    BY <1>2 DEF RunStep
  <2>2. UNCHANGED <<handlers, pfd, indices>>
    BY <2>1 DEF PollPop, Deliver
  <2>3. nEvents' \in Nat /\ current' \in Nat
    BY <2>1, LenProperties DEF PollPop
  <2>4. pc' \in {"run", "idle", "handler"}
    BY <2>1 DEF Deliver, AfterLookup, Handler
  <2>5. cur' \in [fd : Fd, ev : SUBSET EventFlag] \cup {NoEvent}
    BY <2>1, EventSetType DEF Deliver
  <2>6. stale' \subseteq Fd
    BY <2>1 DEF Deliver
  <2> QED
    BY <2>2, <2>3, <2>4, <2>5, <2>6, FrameInv
<1> QED
  BY <1>1, <1>2

(* poll::wait() keeps PollInv. *)
LEMMA WaitInv ==
  ASSUME PollInv, Wait
  PROVE  PollInv'
<1> USE DEF PollInv, TypeOK
<1>1. PICK ready \in SUBSET (1..Len(pfd)) :
        \E r \in [ready -> SUBSET Flag] :
          /\ \A k \in ready : r[k] \in Reports(pfd[k].events)
          /\ pfd' = [k \in 1..Len(pfd) |->
               [pfd[k] EXCEPT !.revents = IF k \in ready THEN r[k] ELSE {}]]
          /\ nEvents' = Cardinality(ready)
          /\ current' = 0
          /\ UNCHANGED indices
  BY DEF Wait, PollWait
<1>2. PICK r \in [ready -> SUBSET Flag] :
          /\ pfd' = [k \in 1..Len(pfd) |->
               [pfd[k] EXCEPT !.revents = IF k \in ready THEN r[k] ELSE {}]]
          /\ nEvents' = Cardinality(ready)
          /\ current' = 0
          /\ UNCHANGED indices
  BY <1>1
<1>3. handlers' = handlers /\ pc' = "idle" /\ stale' = {} /\ cur' = cur
  BY DEF Wait, WaitReturn
<1>4. Sockets' = Sockets
  BY <1>3 DEF Sockets
<1>5. nEvents' \in Nat
  <2>1. Len(pfd) \in Nat
    BY LenProperties
  <2>2. IsFiniteSet(1..Len(pfd))
    BY <2>1, FS_Interval
  <2> QED
    BY <1>2, <2>2, FS_Subset, FS_CardinalityType
<1>6. ASSUME NEW k \in 1..Len(pfd)
      PROVE  pfd'[k] \in PollFd /\ pfd'[k].fd = pfd[k].fd
  <2>1. pfd[k] \in PollFd
    BY ElementOfSeq
  <2>2. pfd'[k] = [pfd[k] EXCEPT !.revents = IF k \in ready THEN r[k] ELSE {}]
    BY <1>2
  <2>3. (IF k \in ready THEN r[k] ELSE {}) \in SUBSET Flag
    OBVIOUS
  <2> QED
    BY <2>1, <2>2, <2>3 DEF PollFd
<1>7. pfd' \in Seq(PollFd) /\ Len(pfd') = Len(pfd)
  <2>1. Len(pfd) \in Nat
    BY LenProperties
  <2>2. pfd' \in [1..Len(pfd) -> PollFd]
    BY <1>2, <1>6
  <2>3. pfd' \in Seq(PollFd)
    BY <2>1, <2>2, IsASeq
  <2> QED
    BY <2>1, <2>2, <2>3, LenProperties
<1>8. IndicesConsistent'
  BY <1>2, <1>4, <1>6, <1>7 DEF IndicesConsistent
<1> QED
  BY <1>2, <1>3, <1>4, <1>5, <1>7, <1>8

(* Every operation keeps PollInv. *)
LEMMA StepInv == PollInv /\ [Next]_vars => PollInv'
<1> SUFFICES ASSUME PollInv, [Next]_vars PROVE PollInv'
  OBVIOUS
<1>1. ASSUME NEW fd \in Fd, NEW h \in Handler, NEW ev \in Interest,
             Create(fd, h, ev)
      PROVE  PollInv'
  BY <1>1, CreateInv
<1>2. ASSUME NEW fd \in Fd, NEW h \in Handler, NEW ev \in Interest,
             Modify(fd, h, ev)
      PROVE  PollInv'
  BY <1>2, ModifyInv
<1>3. ASSUME NEW fd \in Fd, Destroy(fd) PROVE PollInv'
  BY <1>3, DestroyInv
<1>4. CASE RunStep
  BY <1>4, RunStepInv
<1>5. CASE Wait
  BY <1>5, WaitInv
<1>6. CASE Enter \/ Resume \/ Throw \/ Return \/ WaitInterrupted
  <2>1. /\ UNCHANGED <<handlers, pfd, indices, nEvents, current>>
        /\ pc' \in {"idle", "run", "ran"}
        /\ cur' = cur \/ cur' = NoEvent
        /\ stale' = stale \/ stale' = {}
    BY <1>6 DEF Enter, Resume, Throw, Return, WaitInterrupted, RunEnter,
                HandlerReturn, HandlerThrow, RunReturn, WaitReturn,
                PollEmpty, PollInterrupted, pollVars
  <2> QED
    BY <2>1, FrameInv DEF PollInv, TypeOK
<1>7. CASE UNCHANGED vars
  <2>1. UNCHANGED <<handlers, pfd, indices, nEvents, current, pc, cur, stale>>
    BY <1>7 DEF vars, dispatchVars, pollVars
  <2> QED
    BY <2>1, FrameInv DEF PollInv, TypeOK
<1> QED
  BY <1>1, <1>2, <1>3, <1>4, <1>5, <1>6, <1>7 DEF Next

(* PollInv holds in every state. *)
LEMMA Invariance == Spec => []PollInv
BY InitInv, StepInv, PTL DEF Spec

(* None of the operations leaves a variable outside its type, even when    *)
(* pop_event() has read beyond the vector.                                 *)
THEOREM PollTypes == Spec => []TypeOK
BY Invariance, PTL DEF PollInv

(* What check_consistency() and the assertions of ~socket() say holds for  *)
(* every sequence of constructions, requests and destructions, also of     *)
(* sockets with pending events: the vector and the index map agree.        *)
THEOREM IndicesSafe == Spec => []IndicesConsistent
BY Invariance, PTL DEF PollInv

-----------------------------------------------------------------------------
(* The scan, as long as no socket is destroyed while events are pending *)

(* The count alone is not inductive: a wait that is interrupted keeps it,  *)
(* and starts the next run() with what the last one left, which is         *)
(* nothing.                                                                *)
Control ==
  /\ pc # "undefined"
  /\ pc # "handler" => cur = NoEvent
  /\ pc = "ran" => nEvents = 0

CountedInv == PollInv /\ EventsCounted /\ Control

(* The positions still to be found can be counted. *)
LEMMA UnreadFinite ==
  ASSUME PollInv
  PROVE  /\ IsFiniteSet(Unread)
         /\ Cardinality(Unread) \in Nat
         /\ Cardinality(Unread) = 0 <=> Unread = {}
<1>1. Len(pfd) \in Nat
  BY LenProperties DEF PollInv, TypeOK
<1>2. IsFiniteSet(1..Len(pfd))
  BY <1>1, FS_Interval
<1>3. IsFiniteSet(Unread)
  BY <1>2, FS_Subset DEF Unread
<1> QED
  BY <1>3, FS_CardinalityType, FS_EmptySet

(* A new record has no event, and a request leaves the events alone. *)
LEMMA RequestUnread ==
  ASSUME PollInv, NEW fd \in Fd, NEW h \in Handler, NEW ev \in Interest,
         Create(fd, h, ev) \/ Modify(fd, h, ev)
  PROVE  Unread' = Unread
<1>1. pfd \in Seq(PollFd) /\ Len(pfd) \in Nat /\ current \in Nat
  BY LenProperties DEF PollInv, TypeOK
<1>2. CASE Create(fd, h, ev)
  <2> DEFINE rec == [fd |-> fd, events |-> ev, revents |-> {}]
  <2>1. pfd' = Append(pfd, rec) /\ current' = current
    BY <1>2 DEF Create, PollAdd
  <2>2. rec \in PollFd
    BY PollDispatchAssumption DEF PollFd
  <2>3. /\ Len(pfd') = Len(pfd) + 1
        /\ pfd'[Len(pfd) + 1].revents = {}
        /\ \A k \in 1..Len(pfd) : pfd'[k] = pfd[k]
    BY <1>1, <2>1, <2>2, AppendProperties
  <2> QED
    BY <1>1, <2>1, <2>3 DEF Unread
<1>3. CASE Modify(fd, h, ev)
  <2>1. /\ fd \in Sockets /\ current' = current
        /\ pfd' = [pfd EXCEPT ![indices[fd]].events = ev]
    BY <1>3 DEF Modify, SetHandler, PollRequest
  <2> DEFINE i == indices[fd]
             rec == [pfd[i] EXCEPT !.events = ev]
  <2>2. i \in 1..Len(pfd) /\ pfd[i] \in PollFd
    BY <1>1, <2>1, ElementOfSeq DEF PollInv, TypeOK
  <2>3. rec \in PollFd /\ rec.revents = pfd[i].revents
    BY <2>2, PollDispatchAssumption DEF PollFd
  <2>4. pfd' = [pfd EXCEPT ![i] = rec]
    BY <2>1
  <2>5. /\ Len(pfd') = Len(pfd)
        /\ \A k \in 1..Len(pfd) : pfd'[k] = IF k = i THEN rec ELSE pfd[k]
    <3> HIDE DEF rec, i
    <3> QED
      BY <1>1, <2>2, <2>3, <2>4, ExceptSeq
  <2>6. \A k \in 1..Len(pfd) : pfd'[k].revents = pfd[k].revents
    BY <2>3, <2>5
  <2> QED
    BY <2>1, <2>5, <2>6 DEF Unread
<1> QED
  BY <1>2, <1>3

(* ~socket() moves no record with an event into the path of the scan when  *)
(* the scan is over.                                                       *)
LEMMA DestroyUnread ==
  ASSUME CountedInv, Destroys = "none", NEW fd \in Fd, Destroy(fd)
  PROVE  nEvents = 0 /\ nEvents' = 0 /\ Unread = {} /\ Unread' = {}
<1> DEFINE last == Len(pfd)
           i    == indices[fd]
<1>1. nEvents = 0
  BY DEF Destroy
<1>2. /\ fd \in Sockets
      /\ pfd' = [k \in 1..(last - 1) |-> IF k = i THEN pfd[last] ELSE pfd[k]]
      /\ UNCHANGED <<nEvents, current>>
  BY DEF Destroy, Unregister, PollRemove
<1>3. Unread = {}
  BY <1>1, UnreadFinite DEF CountedInv, EventsCounted
<1>4. last \in Nat /\ i \in 1..last /\ last \in 1..last /\ current \in Nat
  BY <1>2, LenProperties DEF CountedInv, PollInv, TypeOK
<1>5. Len(pfd') = last - 1
  <2>1. last - 1 \in Nat /\ DOMAIN pfd' = 1..(last - 1)
    BY <1>2, <1>4
  <2>2. PollInv'
    BY DestroyInv DEF CountedInv
  <2>3. Len(pfd') \in Nat /\ DOMAIN pfd' = 1..Len(pfd')
    BY <2>2, LenProperties DEF PollInv, TypeOK
  <2> QED
    BY <2>1, <2>3
<1>6. ASSUME NEW k \in 1..(last - 1), k > current
      PROVE  pfd'[k].revents = {}
  <2>1. \A j \in 1..last : j > current => pfd[j].revents = {}
    BY <1>3 DEF Unread
  <2>2. CASE k = i
    BY <1>2, <1>4, <1>6, <2>1, <2>2
  <2>3. CASE k # i
    BY <1>2, <1>4, <1>6, <2>1, <2>3
  <2> QED
    BY <2>2, <2>3
<1>7. Unread' = {}
  <2>1. current' = current
    BY <1>2
  <2> QED
    BY <1>5, <1>6, <2>1 DEF Unread
<1> QED
  BY <1>1, <1>2, <1>3, <1>7

(* As long as an event is counted the scan finds one: it does not read     *)
(* beyond the vector.                                                      *)
LEMMA NoOverrun ==
  ASSUME CountedInv
  PROVE  ~PollOverrun
<1> SUFFICES ASSUME nEvents # 0 PROVE \E k \in 1..Len(pfd) : IsNext(k)
  BY DEF PollOverrun
<1>1. Unread # {} /\ Unread \subseteq Nat
  BY UnreadFinite DEF CountedInv, EventsCounted, Unread
<1>2. PICK k \in Unread : \A j \in Unread : k <= j
  BY <1>1, FirstExists
<1>3. Len(pfd) \in Nat /\ current \in Nat
  BY LenProperties DEF CountedInv, PollInv, TypeOK
<1>4. k \in 1..Len(pfd) /\ k > current /\ pfd[k].revents # {}
  BY DEF Unread
<1>5. ASSUME NEW j \in (current + 1)..(k - 1) PROVE pfd[j].revents = {}
  <2>1. j \in 1..Len(pfd) /\ j > current /\ ~(k <= j)
    BY <1>3, <1>4
  <2> QED
    BY <1>2, <2>1 DEF Unread
<1>6. IsNext(k)
  BY <1>3, <1>4, <1>5 DEF IsNext
<1> QED
  BY <1>4, <1>6

(* The scan takes exactly one of the positions still to be found. *)
LEMMA PopUnread ==
  ASSUME PollInv, NEW fd \in Fd, NEW flags \in SUBSET Flag,
         PollPop(fd, flags)
  PROVE  \E k \in Unread :
           /\ fd = pfd[k].fd /\ flags = pfd[k].revents
           /\ Unread' = Unread \ {k}
<1>1. PICK k \in 1..Len(pfd) : /\ IsNext(k)
                               /\ fd = pfd[k].fd /\ flags = pfd[k].revents
                               /\ current' = k
  BY DEF PollPop
<1>2. pfd' = pfd
  BY DEF PollPop
<1>3. Len(pfd) \in Nat /\ current \in Nat
  BY LenProperties DEF PollInv, TypeOK
<1>4. k > current /\ pfd[k].revents # {}
  BY <1>1, <1>3 DEF IsNext
<1>5. ASSUME NEW j \in Unread, j # k PROVE j > k
  <2>1. j \in 1..Len(pfd) /\ j > current /\ pfd[j].revents # {}
    BY DEF Unread
  <2>2. j \notin (current + 1)..(k - 1)
    BY <1>1, <2>1 DEF IsNext
  <2> QED
    BY <1>3, <1>5, <2>1, <2>2
<1>6. Unread' = Unread \ {k}
  BY <1>1, <1>2, <1>3, <1>4, <1>5 DEF Unread
<1> QED
  BY <1>1, <1>4, <1>6 DEF Unread

(* After poll(2) the scan has all of the reported records before it. *)
LEMMA WaitUnread ==
  ASSUME PollInv, PollWait
  PROVE  /\ nEvents' = Cardinality(Unread')
         /\ Len(pfd') = Len(pfd)
         /\ \A k \in 1..Len(pfd) :
              /\ pfd'[k].fd = pfd[k].fd /\ pfd'[k].events = pfd[k].events
              /\ pfd'[k].revents # {} =>
                   pfd'[k].revents \in Reports(pfd[k].events)
<1>1. PICK ready \in SUBSET (1..Len(pfd)) :
        \E r \in [ready -> SUBSET Flag] :
          /\ \A k \in ready : r[k] \in Reports(pfd[k].events)
          /\ pfd' = [k \in 1..Len(pfd) |->
               [pfd[k] EXCEPT !.revents = IF k \in ready THEN r[k] ELSE {}]]
          /\ nEvents' = Cardinality(ready)
          /\ current' = 0
  BY DEF PollWait
<1>2. PICK r \in [ready -> SUBSET Flag] :
          /\ \A k \in ready : r[k] \in Reports(pfd[k].events)
          /\ pfd' = [k \in 1..Len(pfd) |->
               [pfd[k] EXCEPT !.revents = IF k \in ready THEN r[k] ELSE {}]]
          /\ nEvents' = Cardinality(ready)
          /\ current' = 0
  BY <1>1
<1>3. pfd \in Seq(PollFd) /\ Len(pfd) \in Nat
  BY LenProperties DEF PollInv, TypeOK
<1>4. Len(pfd') = Len(pfd)
  BY <1>2, <1>3
<1>5. ASSUME NEW k \in 1..Len(pfd)
      PROVE  /\ pfd'[k].fd = pfd[k].fd /\ pfd'[k].events = pfd[k].events
             /\ pfd'[k].revents = IF k \in ready THEN r[k] ELSE {}
  <2>1. pfd[k] \in PollFd
    BY <1>3, ElementOfSeq
  <2>2. pfd'[k] = [pfd[k] EXCEPT !.revents = IF k \in ready THEN r[k] ELSE {}]
    BY <1>2
  <2> QED
    BY <2>1, <2>2 DEF PollFd
<1>6. \A k \in ready : r[k] # {}
  BY <1>2 DEF Reports
<1>7. Unread' = ready
  BY <1>2, <1>3, <1>4, <1>5, <1>6 DEF Unread
<1> QED
  BY <1>2, <1>4, <1>5, <1>7

(* Every step keeps CountedInv. *)
LEMMA CountedStep ==
  ASSUME Destroys = "none", CountedInv, [Next]_vars
  PROVE  CountedInv'
<1>1. PollInv'
  BY StepInv DEF CountedInv
<1>2. ASSUME NEW fd \in Fd, NEW h \in Handler, NEW ev \in Interest,
             Create(fd, h, ev) \/ Modify(fd, h, ev)
      PROVE  CountedInv'
  <2>1. UNCHANGED <<nEvents, pc, cur>>
    BY <1>2 DEF Create, Modify, Register, SetHandler, PollAdd, PollRequest
  <2>2. Unread' = Unread
    BY <1>2, RequestUnread DEF CountedInv
  <2> QED
    BY <1>1, <2>1, <2>2 DEF CountedInv, EventsCounted, Control
<1>3. ASSUME NEW fd \in Fd, Destroy(fd) PROVE CountedInv'
  <2>1. UNCHANGED <<pc, cur>>
    BY <1>3 DEF Destroy, Unregister
  <2>2. nEvents' = nEvents /\ Unread' = Unread
    BY <1>3, DestroyUnread
  <2> QED
    BY <1>1, <2>1, <2>2 DEF CountedInv, EventsCounted, Control
<1>4. CASE RunStep
  <2>1. PICK fd \in Fd, flags \in SUBSET Flag :
          PollPop(fd, flags) /\ Deliver(fd, EventSet(flags))
    BY <1>4, NoOverrun DEF RunStep
  <2>2. PICK k \in Unread : Unread' = Unread \ {k}
    BY <2>1, PopUnread DEF CountedInv
  <2>3. Cardinality(Unread') = Cardinality(Unread) - 1
    BY <2>2, UnreadFinite, FS_RemoveElement DEF CountedInv
  <2>4. nEvents' = nEvents - 1
    BY <2>1 DEF PollPop
  <2>5. EventsCounted'
    BY <2>3, <2>4 DEF CountedInv, EventsCounted
  <2>6. /\ pc' \in {"run", "idle", "handler"}
        /\ pc' # "handler" => cur' = NoEvent
    <3>1. handlers[fd] \in {"absent", "empty", "bound"}
      BY DEF CountedInv, PollInv, TypeOK, Handler
    <3> QED
      BY <2>1, <3>1 DEF Deliver, AfterLookup
  <2> QED
    BY <1>1, <2>5, <2>6 DEF CountedInv, Control
<1>5. CASE Wait
  <2>1. pc = "ran" /\ pc' = "idle" /\ cur' = cur /\ PollWait
    BY <1>5 DEF Wait, WaitReturn
  <2>2. EventsCounted'
    BY <2>1, WaitUnread DEF CountedInv, EventsCounted
  <2> QED
    BY <1>1, <2>1, <2>2 DEF CountedInv, Control
<1>6. CASE Enter \/ Resume \/ Throw \/ Return \/ WaitInterrupted
  <2>1. /\ UNCHANGED <<pfd, nEvents, current>>
        /\ pc' \in {"idle", "run", "ran"}
        /\ pc' = "ran" => nEvents = 0
        /\ cur' = NoEvent
    BY <1>6 DEF CountedInv, Control, Enter, Resume, Throw, Return,
                WaitInterrupted, RunEnter, HandlerReturn, HandlerThrow,
                RunReturn, WaitReturn, PollEmpty, PollInterrupted, pollVars
  <2>2. Unread' = Unread
    BY <2>1 DEF Unread
  <2> QED
    BY <1>1, <2>1, <2>2 DEF CountedInv, EventsCounted, Control
<1>7. CASE UNCHANGED vars
  <2>1. UNCHANGED <<pfd, nEvents, current, pc, cur>>
    BY <1>7 DEF vars, dispatchVars, pollVars
  <2>2. Unread' = Unread
    BY <2>1 DEF Unread
  <2> QED
    BY <1>1, <2>1, <2>2 DEF CountedInv, EventsCounted, Control
<1> QED
  BY <1>2, <1>3, <1>4, <1>5, <1>6, <1>7 DEF Next

(* CountedInv holds of a new dispatcher. *)
LEMMA CountedInit == Init => CountedInv
<1> SUFFICES ASSUME Init PROVE CountedInv
  OBVIOUS
<1>1. PollInv
  BY InitInv
<1>2. Unread = {}
  BY DEF Init, PollInit, Unread
<1>3. Cardinality(Unread) = 0
  BY <1>2, FS_EmptySet
<1> QED
  BY <1>1, <1>3 DEF Init, DispatchInit, PollInit, CountedInv, EventsCounted,
                    Control

(* CountedInv holds in every state when no socket is destroyed early. *)
LEMMA CountedInvariance ==
  ASSUME Destroys = "none" PROVE Spec => []CountedInv
<1>1. CountedInv /\ [Next]_vars => CountedInv'
  BY CountedStep
<1> QED
  BY <1>1, CountedInit, PTL DEF Spec

(* _n_events is the number of events pop_event() will still find, for any  *)
(* number of sockets, as long as none is destroyed while events are        *)
(* pending: what goes wrong in the counterexample to ScanInBounds is that  *)
(* handlers destroy sockets, and nothing else.                             *)
THEOREM CountSafe ==
  ASSUME Destroys = "none" PROVE Spec => []EventsCounted
BY CountedInvariance, PTL DEF CountedInv

(* Under the same condition the scan stays within the vector. *)
THEOREM ScanSafe ==
  ASSUME Destroys = "none" PROVE Spec => []ScanInBounds
BY CountedInvariance, PTL DEF CountedInv, Control, ScanInBounds

-----------------------------------------------------------------------------
(* The refinement of EventLoop, under the same condition *)

(* What EventLoop sees of the vector: the event at a position, and what    *)
(* each socket asks for.                                                   *)
EventAt(k) == [fd |-> pfd[k].fd, ev |-> EventSet(pfd[k].revents)]

Asked == [fd \in Fd |-> IF fd \in Sockets THEN pfd[indices[fd]].events ELSE {}]

(* The pending events are those the scan has not come to, before and after *)
(* a step.                                                                 *)
PendingAreUnread == Pending = {EventAt(k) : k \in Unread}

LEMMA PendingUnread == CountedInv => PendingAreUnread
<1> SUFFICES ASSUME CountedInv PROVE PendingAreUnread
  OBVIOUS
<1>1. nEvents = 0 => Unread = {}
  BY UnreadFinite DEF CountedInv, EventsCounted
<1> QED
  BY <1>1 DEF PendingAreUnread, Pending, EventAt

LEMMA PendingUnreadNext == CountedInv' => PendingAreUnread'
BY PendingUnread, PTL

(* A new dispatcher is an initial state of EventLoop. *)
LEMMA InitRefines == Init => Loop!Init
<1> SUFFICES ASSUME Init PROVE Loop!Init
  OBVIOUS
<1>1. Sockets = {}
  BY DEF Init, DispatchInit, Sockets
<1> QED
  BY <1>1 DEF Init, DispatchInit, PollInit, Pending, NoEvent,
              Loop!Init, Loop!NoEvent

(* The records at the positions the scan has not come to stay as they are  *)
(* when sockets are registered or modified, and so do the pending events.  *)
LEMMA RequestPending ==
  ASSUME CountedInv, NEW fd \in Fd, NEW h \in Handler, NEW ev \in Interest,
         Create(fd, h, ev) \/ Modify(fd, h, ev)
  PROVE  Pending' = Pending
<1>1. Unread' = Unread /\ nEvents' = nEvents
  BY RequestUnread DEF CountedInv, Create, Modify, PollAdd, PollRequest
<1>2. pfd \in Seq(PollFd) /\ Len(pfd) \in Nat
  BY LenProperties DEF CountedInv, PollInv, TypeOK
<1>3. ASSUME NEW k \in 1..Len(pfd)
      PROVE  pfd'[k].fd = pfd[k].fd /\ pfd'[k].revents = pfd[k].revents
  <2>1. CASE Create(fd, h, ev)
    BY <1>2, <2>1 DEF Create, PollAdd
  <2>2. CASE Modify(fd, h, ev)
    <3>1. /\ fd \in Sockets
          /\ pfd' = [pfd EXCEPT ![indices[fd]].events = ev]
      BY <2>2 DEF Modify, SetHandler, PollRequest
    <3>2. indices[fd] \in 1..Len(pfd) /\ pfd[k] \in PollFd
      BY <1>2, <3>1, ElementOfSeq DEF CountedInv, PollInv, TypeOK
    <3> QED
      BY <1>2, <3>1, <3>2 DEF PollFd
  <2> QED
    BY <2>1, <2>2
<1>4. \A k \in Unread : k \in 1..Len(pfd)
  BY DEF Unread
<1>5. {[fd |-> pfd'[k].fd, ev |-> EventSet(pfd'[k].revents)] : k \in Unread}
        = {[fd |-> pfd[k].fd, ev |-> EventSet(pfd[k].revents)] : k \in Unread}
  BY <1>3, <1>4
<1> QED
  BY <1>1, <1>5 DEF Pending, EventSet

(* Registering a socket and changing what it asks for changes that, and    *)
(* what no other socket asks for.                                          *)
LEMMA RequestAsked ==
  ASSUME PollInv, NEW fd \in Fd, NEW h \in Handler, NEW ev \in Interest,
         Create(fd, h, ev) \/ Modify(fd, h, ev)
  PROVE  Asked' = [Asked EXCEPT ![fd] = ev]
<1>1. /\ handlers' = [handlers EXCEPT ![fd] = h]
      /\ Sockets' = Sockets \cup {fd}
  BY DEF PollInv, TypeOK, Create, Modify, Register, SetHandler, Sockets,
         Handler
<1>2. pfd \in Seq(PollFd) /\ Len(pfd) \in Nat
  BY LenProperties DEF PollInv, TypeOK
<1>3. \A f \in Sockets : indices[f] \in 1..Len(pfd) /\ pfd[indices[f]].fd = f
  BY DEF PollInv, TypeOK, IndicesConsistent
<1>4. /\ pfd'[indices'[fd]].events = ev
      /\ \A f \in Sockets \ {fd} :
           pfd'[indices'[f]].events = pfd[indices[f]].events
  <2>1. CASE Create(fd, h, ev)
    <3> DEFINE rec == [fd |-> fd, events |-> ev, revents |-> {}]
    <3>1. /\ pfd' = Append(pfd, rec)
          /\ indices' = [f \in DOMAIN indices \cup {fd} |->
                           IF f = fd THEN Len(pfd) + 1 ELSE indices[f]]
          /\ DOMAIN indices = Sockets
      BY <2>1 DEF Create, PollAdd, PollInv, TypeOK
    <3>2. /\ indices'[fd] = Len(pfd) + 1
          /\ \A f \in Sockets \ {fd} : indices'[f] = indices[f]
      BY <3>1
    <3>3. /\ pfd'[Len(pfd) + 1] = rec
          /\ \A k \in 1..Len(pfd) : pfd'[k] = pfd[k]
      BY <1>2, <3>1
    <3> QED
      BY <1>3, <3>2, <3>3
  <2>2. CASE Modify(fd, h, ev)
    <3>1. /\ fd \in Sockets /\ indices' = indices
          /\ pfd' = [pfd EXCEPT ![indices[fd]].events = ev]
      BY <2>2 DEF Modify, SetHandler, PollRequest
    <3>2. ASSUME NEW f \in Sockets \ {fd}
          PROVE  pfd'[indices[f]] = pfd[indices[f]]
      <4>1. indices[f] # indices[fd]
        BY <1>3, <3>1
      <4> QED
        BY <1>2, <1>3, <3>1, <4>1
    <3>3. pfd'[indices[fd]].events = ev
      <4>1. pfd[indices[fd]] \in PollFd
        BY <1>2, <1>3, <3>1, ElementOfSeq
      <4> QED
        BY <1>2, <1>3, <3>1, <4>1 DEF PollFd
    <3> QED
      BY <3>1, <3>2, <3>3
  <2> QED
    BY <2>1, <2>2
<1>5. ASSUME NEW f \in Fd
      PROVE  Asked'[f] = IF f = fd THEN ev ELSE Asked[f]
  BY <1>1, <1>4 DEF Asked
<1> QED
  BY <1>5 DEF Asked

(* Removing a record changes nothing about the others. *)
LEMMA DestroyAsked ==
  ASSUME PollInv, NEW fd \in Fd, Destroy(fd)
  PROVE  Asked' = [Asked EXCEPT ![fd] = {}]
<1> DEFINE last == Len(pfd)
           i    == indices[fd]
<1>1. /\ fd \in Sockets
      /\ handlers' = [handlers EXCEPT ![fd] = "absent"]
      /\ pfd' = [k \in 1..(last - 1) |-> IF k = i THEN pfd[last] ELSE pfd[k]]
      /\ indices' = [f \in DOMAIN indices \ {fd} |->
                       IF f = pfd[last].fd THEN i ELSE indices[f]]
      /\ DOMAIN indices = Sockets
  BY DEF Destroy, Unregister, PollRemove, PollInv, TypeOK
<1>2. Sockets' = Sockets \ {fd}
  BY <1>1 DEF PollInv, TypeOK, Sockets
<1>3. last \in Nat /\ i \in 1..last /\ last \in 1..last
  BY <1>1, LenProperties DEF PollInv, TypeOK
<1>4. /\ pfd[last].fd \in Sockets /\ indices[pfd[last].fd] = last
      /\ pfd[i].fd = fd
  BY <1>1, <1>3 DEF PollInv, IndicesConsistent
<1>5. ASSUME NEW f \in Sockets \ {fd}
      PROVE  pfd'[indices'[f]] = pfd[indices[f]]
  <2>1. indices[f] \in 1..last /\ pfd[indices[f]].fd = f
    BY DEF PollInv, TypeOK, IndicesConsistent
  <2>2. CASE f = pfd[last].fd
    <3>1. indices'[f] = i
      BY <1>1, <2>2
    <3>2. i # last /\ i \in 1..(last - 1)
      BY <1>3, <1>4, <2>2
    <3>3. pfd'[i] = pfd[last]
      BY <1>1, <3>2
    <3> QED
      BY <1>4, <2>2, <3>1, <3>3
  <2>3. CASE f # pfd[last].fd
    <3>1. indices'[f] = indices[f]
      BY <1>1, <2>3
    <3>2. indices[f] # last /\ indices[f] # i
      BY <1>4, <2>1, <2>3
    <3>3. indices[f] \in 1..(last - 1)
      BY <1>3, <2>1, <3>2
    <3> QED
      BY <1>1, <3>1, <3>2, <3>3
  <2> QED
    BY <2>2, <2>3
<1>6. ASSUME NEW f \in Fd
      PROVE  Asked'[f] = IF f = fd THEN {} ELSE Asked[f]
  <2>1. CASE f \in Sockets \ {fd}
    BY <1>2, <1>5, <2>1 DEF Asked
  <2>2. CASE f \notin Sockets \ {fd}
    BY <1>2, <2>2 DEF Asked
  <2> QED
    BY <2>1, <2>2
<1> QED
  BY <1>6 DEF Asked

(* One round of run() delivers one pending event; the others are events of *)
(* other sockets and stay.                                                 *)
LEMMA RunStepRefines ==
  ASSUME CountedInv, CountedInv', RunStep
  PROVE  \E e \in Pending : Loop!Deliver(e)
<1>1. PICK fd \in Fd, flags \in SUBSET Flag :
        PollPop(fd, flags) /\ Deliver(fd, EventSet(flags))
  BY NoOverrun DEF RunStep
<1>2. PICK k \in Unread : /\ fd = pfd[k].fd /\ flags = pfd[k].revents
                          /\ Unread' = Unread \ {k}
  BY <1>1, PopUnread DEF CountedInv
<1>3. UNCHANGED <<pfd, indices, handlers>> /\ Sockets' = Sockets
  BY <1>1 DEF PollPop, Deliver, Sockets
<1>4. PICK e \in Pending : e = EventAt(k)
  BY PendingUnread DEF PendingAreUnread
<1>5. e.fd = fd /\ e = [fd |-> fd, ev |-> EventSet(flags)]
  BY <1>2, <1>4 DEF EventAt
<1>6. \A j \in Unread : EventAt(j) = EventAt(k) => j = k
  BY DEF CountedInv, PollInv, IndicesConsistent, Unread, EventAt
<1>7. Pending' = {EventAt(j) : j \in Unread'}
  <2>1. Pending' = {EventAt(j)' : j \in Unread'}
    BY PendingUnreadNext DEF PendingAreUnread
  <2>2. \A j : EventAt(j)' = EventAt(j)
    BY <1>3 DEF EventAt, EventSet
  <2> QED
    BY <2>1, <2>2
<1>8. Pending' = Pending \ {e}
  BY <1>2, <1>4, <1>6, <1>7, PendingUnread DEF PendingAreUnread
<1>9. Asked' = Asked
  BY <1>3 DEF Asked
<1>10. /\ pc = "run"
       /\ pc' = AfterLookup[handlers[fd]]
       /\ cur' = IF handlers[fd] = "bound" THEN e ELSE NoEvent
  BY <1>1, <1>5 DEF Deliver
<1>11. cur = NoEvent /\ handlers[fd] \in {"absent", "empty", "bound"}
  BY <1>10 DEF CountedInv, Control, PollInv, TypeOK, Handler
<1>12. Loop!Deliver(e)
  BY <1>3, <1>5, <1>8, <1>9, <1>10, <1>11
     DEF Loop!Deliver, Asked, AfterLookup
<1> QED
  BY <1>12

(* wait() reports what was asked for, at most once for each socket. *)
LEMMA WaitRefines ==
  ASSUME CountedInv, CountedInv', Wait
  PROVE  Loop!Wait
<1>1. /\ pc = "ran" /\ pc' = "idle" /\ PollWait
      /\ UNCHANGED <<handlers, cur, indices>>
  BY DEF Wait, WaitReturn, PollWait
<1>2. nEvents = 0 /\ Pending = {}
  BY <1>1 DEF CountedInv, Control, Pending
<1>3. /\ Len(pfd') = Len(pfd)
      /\ \A k \in 1..Len(pfd) :
           /\ pfd'[k].fd = pfd[k].fd /\ pfd'[k].events = pfd[k].events
           /\ pfd'[k].revents # {} =>
                pfd'[k].revents \in Reports(pfd[k].events)
  BY <1>1, WaitUnread DEF CountedInv
<1>4. Sockets' = Sockets
  BY <1>1 DEF Sockets
<1>5. \A f \in Sockets : indices[f] \in 1..Len(pfd)
  BY DEF CountedInv, PollInv, TypeOK
<1>6. Asked' = Asked
  BY <1>1, <1>3, <1>4, <1>5 DEF Asked
<1>7. ASSUME NEW e \in Pending'
      PROVE  \E k \in 1..Len(pfd) :
               /\ e = [fd |-> pfd[k].fd, ev |-> EventSet(pfd'[k].revents)]
               /\ pfd'[k].revents # {}
  <2>1. PICK k \in Unread' :
          e = [fd |-> pfd'[k].fd, ev |-> EventSet(pfd'[k].revents)]
    <3>1. Pending' = {EventAt(k)' : k \in Unread'}
      BY PendingUnreadNext DEF PendingAreUnread
    <3> QED
      BY <3>1 DEF EventAt, EventSet
  <2>2. k \in 1..Len(pfd) /\ pfd'[k].revents # {}
    BY <1>3 DEF Unread
  <2> QED
    BY <1>3, <2>1, <2>2
<1>8. ASSUME NEW e \in Pending'
      PROVE  handlers[e.fd] # "absent" /\ e.ev \subseteq Asked[e.fd]
  <2>1. PICK k \in 1..Len(pfd) :
          /\ e = [fd |-> pfd[k].fd, ev |-> EventSet(pfd'[k].revents)]
          /\ pfd'[k].revents # {}
    BY <1>7
  <2>2. pfd[k] \in PollFd
    BY ElementOfSeq DEF CountedInv, PollInv, TypeOK
  <2>3. EventSet(pfd'[k].revents) \subseteq pfd[k].events
    BY <1>3, <2>1, <2>2, ReportsAsked DEF PollFd
  <2>4. pfd[k].fd \in Sockets /\ indices[pfd[k].fd] = k
    BY DEF CountedInv, PollInv, IndicesConsistent
  <2>5. pfd[k].fd \in Fd /\ Asked[pfd[k].fd] = pfd[k].events
    BY <2>4 DEF Asked, Sockets
  <2> QED
    BY <2>1, <2>3, <2>4, <2>5 DEF Sockets
<1>9. ASSUME NEW e \in Pending', NEW f \in Pending', e.fd = f.fd
      PROVE  e = f
  <2>1. PICK k \in 1..Len(pfd) :
          e = [fd |-> pfd[k].fd, ev |-> EventSet(pfd'[k].revents)]
    BY <1>7
  <2>2. PICK j \in 1..Len(pfd) :
          f = [fd |-> pfd[j].fd, ev |-> EventSet(pfd'[j].revents)]
    BY <1>7
  <2>3. pfd[k].fd = pfd[j].fd
    BY <1>9, <2>1, <2>2
  <2>4. k = j
    BY <2>3 DEF CountedInv, PollInv, IndicesConsistent
  <2> QED
    BY <2>1, <2>2, <2>4
<1> QED
  BY <1>1, <1>2, <1>6, <1>8, <1>9 DEF Loop!Wait, Asked

(* Every step is a step of EventLoop or leaves its variables alone. *)
LEMMA StepRefines ==
  ASSUME Destroys = "none", CountedInv, [Next]_vars
  PROVE  [Loop!Next]_(Loop!vars)
<1>1. CountedInv'
  BY CountedStep
<1>2. ASSUME NEW fd \in Fd, NEW h \in Handler, NEW ev \in Interest,
             Create(fd, h, ev) \/ Modify(fd, h, ev)
      PROVE  Loop!Next
  <2>1. /\ handlers' = [handlers EXCEPT ![fd] = h]
        /\ UNCHANGED <<pc, cur>>
        /\ pc \in {"idle", "handler", "ran"}
    BY <1>2 DEF Create, Modify, Register, SetHandler, UserCode
  <2>2. h \in {"empty", "bound"} /\ ev \in SUBSET EventFlag
    BY PollDispatchAssumption DEF Handler
  <2>3. Pending' = Pending
    BY <1>2, RequestPending
  <2>4. Asked' = [Asked EXCEPT ![fd] = ev]
    BY <1>2, RequestAsked DEF CountedInv
  <2>5. Loop!Create(fd) \/ Loop!Modify(fd)
    BY <2>1, <2>2, <2>3, <2>4
       DEF Loop!Create, Loop!Modify, Loop!UserCode, Asked
  <2> QED
    BY <2>5 DEF Loop!Next
<1>3. ASSUME NEW fd \in Fd, Destroy(fd) PROVE Loop!Next
  <2>1. /\ handlers' = [handlers EXCEPT ![fd] = "absent"]
        /\ UNCHANGED <<pc, cur>>
        /\ pc \in {"idle", "handler", "ran"}
        /\ handlers[fd] # "absent"
    BY <1>3 DEF Destroy, Unregister, UserCode, Sockets
  <2>2. Pending = {} /\ Pending' = {}
    BY <1>3, DestroyUnread DEF Pending
  <2>3. Asked' = [Asked EXCEPT ![fd] = {}]
    BY <1>3, DestroyAsked DEF CountedInv
  <2>4. Loop!Destroy(fd)
    BY <2>1, <2>2, <2>3 DEF Loop!Destroy, Loop!UserCode, Asked
  <2> QED
    BY <2>4 DEF Loop!Next
<1>4. CASE RunStep
  BY <1>1, <1>4, RunStepRefines DEF Loop!Next
<1>5. CASE Wait
  BY <1>1, <1>5, WaitRefines DEF Loop!Next
<1>6. CASE Enter \/ Resume \/ Throw \/ Return \/ WaitInterrupted
  <2>1. UNCHANGED <<handlers, pollVars>>
    BY <1>6 DEF Enter, Resume, Throw, Return, WaitInterrupted, RunEnter,
                HandlerReturn, HandlerThrow, RunReturn, WaitReturn,
                PollEmpty, PollInterrupted
  <2>2. Pending' = Pending /\ Asked' = Asked
    BY <2>1 DEF pollVars, Pending, Unread, EventSet, Asked, Sockets
  <2>3. CASE Enter
    BY <2>1, <2>2, <2>3 DEF Enter, RunEnter, Loop!Next, Loop!RunEnter, Asked
  <2>4. CASE Resume \/ Throw
    BY <2>1, <2>2, <2>4
       DEF Resume, Throw, HandlerReturn, HandlerThrow, NoEvent,
           Loop!Next, Loop!HandlerEnd, Loop!NoEvent, Asked
  <2>5. CASE Return
    <3>1. Pending = {}
      BY <2>5 DEF Return, PollEmpty, Pending
    <3> QED
      BY <2>1, <2>2, <2>5, <3>1
         DEF Return, RunReturn, Loop!Next, Loop!RunReturn, Asked
  <2>6. CASE WaitInterrupted
    <3>1. Pending = {}
      BY <2>6 DEF WaitInterrupted, WaitReturn, CountedInv, Control, Pending
    <3> QED
      BY <2>1, <2>2, <2>6, <3>1
         DEF WaitInterrupted, WaitReturn, Loop!Next, Loop!Wait, Asked
  <2> QED
    BY <1>6, <2>3, <2>4, <2>5, <2>6
<1>7. CASE UNCHANGED vars
  <2>1. UNCHANGED <<handlers, pollVars, pc, cur>>
    BY <1>7 DEF vars, dispatchVars
  <2>2. Pending' = Pending /\ Asked' = Asked
    BY <2>1 DEF pollVars, Pending, Unread, EventSet, Asked, Sockets
  <2> QED
    BY <2>1, <2>2 DEF Loop!vars, Asked
<1> QED
  BY <1>2, <1>3, <1>4, <1>5, <1>6, <1>7 DEF Next

(* The dispatcher on top of poll(2) keeps the promise of EventLoop as long *)
(* as no socket is destroyed while events are pending: each event that     *)
(* poll(2) reports is handed out exactly once, before the next wait, and   *)
(* contains only what its socket asked for.                                *)
THEOREM RefinesLoop ==
  ASSUME Destroys = "none" PROVE Spec => ImplementsLoop
<1>1. CountedInv /\ [Next]_vars => [Loop!Next]_(Loop!vars)
  BY StepRefines
<1> QED
  BY <1>1, InitRefines, CountedInvariance, PTL
     DEF Spec, ImplementsLoop, Loop!Spec
=============================================================================
