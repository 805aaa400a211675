---------------------------- MODULE SelectProofs ----------------------------
(***************************************************************************)
(* Theorems about SelectDispatch, for any event sets, handlers that        *)
(* create, modify and destroy any socket at any time, and any number of    *)
(* descriptors that fit into an fd_set.                                    *)
(***************************************************************************)
EXTENDS SelectDispatch, DemuxLemmas, FiniteSetTheorems, TLAPS

(* An fd_set has FD_SETSIZE bits, and the constructor of select::socket    *)
(* asserts that its descriptor is not beyond them.  Without a bound there  *)
(* need be no largest descriptor and no number of bits.                    *)
FdsBounded == \E n \in Nat : Fd \subseteq 0..n

(* Nothing is asked about a descriptor that no socket has. *)
Requests == \A fd \in Fd : fd \notin Sockets => req[fd] = {}

(* A wait starts when every event has been handed out, so that an          *)
(* interrupted one, which overwrites the sets but not _n_events, leaves    *)
(* no event behind that was not reported.                                  *)
Control ==
  /\ pc # "handler" => cur = NoEvent
  /\ pc = "ran" => nEvents = 0

SelectInv == TypeOK /\ MaxFdExact /\ BitsCounted /\ Requests /\ Control

-----------------------------------------------------------------------------
(* The search for the largest descriptor, and the number of bits *)

(* The last descriptor of r up to n, where the loop that starts at n ends. *)
IsLast(r, n, l) ==
  /\ l \in InSet(r) \cup {-1}
  /\ l <= n
  /\ \A fd \in InSet(r) : fd <= n => fd <= l

(* There is one. *)
LEMMA LastUpTo ==
  ASSUME NEW r, NEW n \in Nat \cup {-1}
  PROVE  \E l : IsLast(r, n, l)
<1> DEFINE T == {fd \in InSet(r) : fd <= n}
<1>1. InSet(r) \subseteq Nat
  BY FlagAssumption DEF InSet
<1>2. CASE T = {}
  <2>1. IsLast(r, n, -1)
    BY <1>1, <1>2 DEF IsLast
  <2> QED
    BY <2>1
<1>3. CASE T # {}
  <2>1. n \in Nat /\ T \subseteq 0..n
    BY <1>1, <1>3
  <2>2. PICK l \in T : \A fd \in T : fd <= l
    BY <1>3, <2>1, LastExists
  <2>3. IsLast(r, n, l)
    BY <1>1, <2>2 DEF IsLast
  <2> QED
    BY <2>3
<1> QED
  BY <1>2, <1>3

(* The function the loop computes.  It is defined by recursion: that there *)
(* is such a function is shown by the last descriptors themselves.         *)
LEMMA SearchDefined ==
  ASSUME NEW r, NEW m \in Nat
  PROVE  \E f : f = [n \in -1..m |->
                       IF n >= 0 /\ n \notin InSet(r) THEN f[n - 1] ELSE n]
<1> DEFINE last(n) == CHOOSE l : IsLast(r, n, l)
           g == [n \in -1..m |-> last(n)]
           step(n) == IF n >= 0 /\ n \notin InSet(r) THEN g[n - 1] ELSE n
<1>1. InSet(r) \subseteq Nat
  BY FlagAssumption DEF InSet
<1>2. \A n \in -1..m : IsLast(r, n, g[n])
  <2> SUFFICES ASSUME NEW n \in -1..m PROVE IsLast(r, n, g[n])
    OBVIOUS
  <2>1. n \in Nat \cup {-1}
    OBVIOUS
  <2>2. \E l : IsLast(r, n, l)
    BY <2>1, LastUpTo
  <2>3. IsLast(r, n, last(n))
    BY <2>2
  <2> HIDE DEF last
  <2> QED
    BY <2>3
<1>3. \A n \in -1..m : g[n] = step(n)
  <2> SUFFICES ASSUME NEW n \in -1..m PROVE g[n] = step(n)
    OBVIOUS
  <2>1. IsLast(r, n, g[n])
    BY <1>2
  <2>2. n - 1 \in -1..m => IsLast(r, n - 1, g[n - 1])
    BY <1>2
  <2> HIDE DEF g
  <2>3. CASE n >= 0 /\ n \notin InSet(r)
    <3>1. IsLast(r, n - 1, g[n - 1])
      BY <2>2, <2>3
    <3> QED
      BY <1>1, <2>1, <2>3, <3>1 DEF IsLast
  <2>4. CASE ~(n >= 0 /\ n \notin InSet(r))
    BY <1>1, <2>1, <2>4 DEF IsLast
  <2> QED
    BY <2>3, <2>4
<1> HIDE DEF last
<1>4. g = [n \in -1..m |-> g[n]]
  OBVIOUS
<1> HIDE DEF g
<1>5. g = [n \in -1..m |-> step(n)]
  BY <1>3, <1>4
<1> QED
  BY <1>5

(* The loop of request() finds the last descriptor up to where it starts.  *)
LEMMA SearchFinds ==
  ASSUME NEW r, NEW m \in Nat
  PROVE  IsLast(r, m, SearchDown(r, m))
<1> DEFINE f == CHOOSE f : f = [n \in -1..m |->
                   IF n >= 0 /\ n \notin InSet(r) THEN f[n - 1] ELSE n]
           Bad == {n \in -1..m : ~IsLast(r, n, f[n])}
<1>1. InSet(r) \subseteq Nat
  BY FlagAssumption DEF InSet
<1>2. f = [n \in -1..m |->
             IF n >= 0 /\ n \notin InSet(r) THEN f[n - 1] ELSE n]
  BY SearchDefined
<1>3. SearchDown(r, m) = f[m]
  BY DEF SearchDown
<1> HIDE DEF f
<1>4. Bad = {}
  <2> SUFFICES ASSUME Bad # {} PROVE FALSE
    OBVIOUS
  <2>0. Bad \subseteq Nat
    <3>1. f[-1] = -1
      BY <1>2
    <3>2. -1 \notin Bad
      BY <1>1, <3>1 DEF IsLast
    <3> QED
      BY <3>2
  <2>1. PICK k \in Bad : \A n \in Bad : k <= n
    BY <2>0, FirstExists
  <2>2. k \in -1..m /\ ~IsLast(r, k, f[k])
    OBVIOUS
  <2>3. CASE k >= 0 /\ k \notin InSet(r)
    <3>1. k - 1 \in -1..m /\ k - 1 \notin Bad
      BY <2>1, <2>2, <2>3
    <3>2. IsLast(r, k - 1, f[k - 1])
      BY <3>1
    <3>3. f[k] = f[k - 1]
      BY <1>2, <2>2, <2>3
    <3> QED
      BY <1>1, <2>2, <2>3, <3>2, <3>3 DEF IsLast
  <2>4. CASE ~(k >= 0 /\ k \notin InSet(r))
    <3>1. f[k] = k
      BY <1>2, <2>2, <2>4
    <3> QED
      BY <1>1, <2>2, <2>4, <3>1 DEF IsLast
  <2> QED
    BY <2>3, <2>4
<1> QED
  BY <1>3, <1>4

(* There are finitely many kinds of events. *)
LEMMA EventFlagFinite == IsFiniteSet(EventFlag)
<1>1. IsFiniteSet({"readable"})
  BY FS_Singleton
<1>2. IsFiniteSet({"readable"} \cup {"writable"})
  BY <1>1, FS_AddElement
<1>3. IsFiniteSet(({"readable"} \cup {"writable"}) \cup {"pridata"})
  BY <1>2, FS_AddElement
<1>4. EventFlag = ({"readable"} \cup {"writable"}) \cup {"pridata"}
  BY DEF EventFlag
<1> QED
  BY <1>3, <1>4

(* The bits that Bits counts. *)
BitsFrom(r, lo) == {b \in Fd \X EventFlag : b[1] >= lo /\ b[2] \in r[b[1]]}

(* There are finitely many, and none if their number is zero. *)
LEMMA BitsFinite ==
  ASSUME FdsBounded, NEW r, NEW lo
  PROVE  /\ IsFiniteSet(BitsFrom(r, lo))
         /\ Bits(r, lo) = Cardinality(BitsFrom(r, lo))
         /\ Bits(r, lo) \in Nat
         /\ Bits(r, lo) = 0 <=> BitsFrom(r, lo) = {}
<1>1. PICK n \in Nat : Fd \subseteq 0..n
  BY DEF FdsBounded
<1>2. IsFiniteSet(0..n)
  BY FS_Interval
<1>3. IsFiniteSet(Fd)
  BY <1>1, <1>2, FS_Subset
<1>4. IsFiniteSet(EventFlag)
  BY EventFlagFinite
<1>5. IsFiniteSet(Fd \X EventFlag)
  BY <1>3, <1>4, FS_Product
<1>6. BitsFrom(r, lo) \in SUBSET (Fd \X EventFlag)
  BY DEF BitsFrom
<1>7. IsFiniteSet(BitsFrom(r, lo))
  BY <1>5, <1>6, FS_Subset
<1>8. Bits(r, lo) = Cardinality(BitsFrom(r, lo))
  BY DEF Bits, BitsFrom
<1> QED
  BY <1>7, <1>8, FS_CardinalityType, FS_EmptySet

(* Past the next descriptor there are as many bits less as it has. *)
LEMMA BitsPassed ==
  ASSUME FdsBounded, TypeOK, NEW fd \in Fd, IsNext(fd)
  PROVE  Bits(recv, fd + 1) = Bits(recv, current) - Cardinality(recv[fd])
<1> DEFINE All  == BitsFrom(recv, current)
           Here == {fd} \X recv[fd]
           Rest == BitsFrom(recv, fd + 1)
<1>1. /\ current \in Nat /\ fd \in Nat /\ fd >= current
      /\ recv \in [Fd -> SUBSET EventFlag]
      /\ \A f \in Fd : recv[f] # {} /\ f < fd => f < current
      /\ Fd \subseteq Nat
  BY FlagAssumption DEF TypeOK, IsNext, InSet
<1>2. ASSUME NEW f \in Fd, NEW e \in EventFlag
      PROVE  <<f, e>> \in Rest <=> <<f, e>> \in All /\ <<f, e>> \notin Here
  <2>1. <<f, e>> \in Here <=> f = fd /\ e \in recv[fd]
    OBVIOUS
  <2>2. <<f, e>> \in All <=> f >= current /\ e \in recv[f]
    BY DEF BitsFrom
  <2>3. <<f, e>> \in Rest <=> f >= fd + 1 /\ e \in recv[f]
    BY DEF BitsFrom
  <2>4. e \in recv[f] /\ f < fd => f < current
    BY <1>1
  <2> QED
    BY <1>1, <2>1, <2>2, <2>3, <2>4
<1>3. Rest = All \ Here
  <2>1. Rest \subseteq Fd \X EventFlag /\ All \subseteq Fd \X EventFlag
    BY DEF BitsFrom
  <2> HIDE DEF Rest, All, Here
  <2> QED
    BY <1>2, <2>1
<1>4. Here \subseteq All
  BY <1>1 DEF BitsFrom
<1>5. IsFiniteSet(All)
  BY BitsFinite
<1>6. Cardinality(Rest) = Cardinality(All) - Cardinality(Here)
  <2>1. All \cap Here = Here
    BY <1>4
  <2> HIDE DEF All, Here, Rest
  <2> QED
    BY <1>3, <1>5, <2>1, FS_Difference
<1>7. Cardinality(Here) = Cardinality(recv[fd])
  <2>1. recv[fd] \in SUBSET EventFlag
    BY <1>1
  <2>2. IsFiniteSet(recv[fd])
    BY <2>1, EventFlagFinite, FS_Subset
  <2>3. IsFiniteSet({fd}) /\ Cardinality({fd}) = 1
    BY FS_Singleton
  <2>4. Cardinality(Here) = 1 * Cardinality(recv[fd])
    BY <2>2, <2>3, FS_Product
  <2>5. Cardinality(recv[fd]) \in Nat
    BY <2>2, FS_CardinalityType
  <2> QED
    BY <2>4, <2>5
<1> QED
  BY <1>6, <1>7, BitsFinite

-----------------------------------------------------------------------------
(* The invariant *)

(* SelectInv holds of a new dispatcher. *)
LEMMA InitInv ==
  ASSUME FdsBounded, Init
  PROVE  SelectInv
<1>1. InSet(req) = {} /\ maxFd = -1
  BY DEF Init, SelectInit, InSet, NoFds
<1>2. MaxFdExact
  BY <1>1 DEF MaxFdExact
<1>3. TypeOK
  BY DEF Init, DispatchInit, SelectInit, NoFds, TypeOK, Handler
<1> QED
  BY <1>2, <1>3 DEF Init, DispatchInit, SelectInit, NoFds, SelectInv,
                    BitsCounted, Requests, Control

(* request() keeps _max_fd the largest descriptor anything is asked for,   *)
(* whether it adds, changes or removes a request, the largest one included.*)
LEMMA RequestMaxFd ==
  ASSUME FdsBounded, TypeOK, MaxFdExact,
         NEW fd \in Fd, NEW ev \in SUBSET EventFlag, SelectRequest(fd, ev)
  PROVE  MaxFdExact' /\ maxFd' \in Fd \cup {-1}
<1> DEFINE r == [req EXCEPT ![fd] = ev]
<1>1. /\ req' = r
      /\ maxFd' = IF ev # {} THEN IF fd > maxFd THEN fd ELSE maxFd
                  ELSE IF fd = maxFd THEN SearchDown(r, maxFd) ELSE maxFd
  BY DEF SelectRequest
<1>2. /\ maxFd \in InSet(req) \cup {-1}
      /\ \A f \in InSet(req) : f <= maxFd
  BY DEF MaxFdExact
<1>3. InSet(req) \subseteq Nat /\ fd \in Nat /\ maxFd \in Int
  <2>1. Fd \subseteq Nat
    BY FlagAssumption
  <2>2. InSet(req) \subseteq Fd
    BY DEF InSet
  <2>3. maxFd \in Int
    BY <2>1 DEF TypeOK
  <2> QED
    BY <2>1, <2>2, <2>3
<1>4. InSet(r) = IF ev # {} THEN InSet(req) \cup {fd} ELSE InSet(req) \ {fd}
  BY DEF TypeOK, InSet
<1>5. InSet(r) \subseteq Fd
  BY DEF InSet
<1> HIDE DEF r
<1>6. /\ maxFd' \in InSet(r) \cup {-1}
      /\ \A f \in InSet(r) : f <= maxFd'
  <2>1. CASE ev # {}
    BY <1>1, <1>2, <1>3, <1>4, <2>1
  <2>2. CASE ev = {} /\ fd # maxFd
    BY <1>1, <1>2, <1>3, <1>4, <2>2
  <2>3. CASE ev = {} /\ fd = maxFd
    <3>1. IsLast(r, maxFd, maxFd')
      BY <1>1, <1>3, <2>3, SearchFinds
    <3>2. \A f \in InSet(r) : f <= maxFd
      BY <1>2, <1>4, <2>3
    <3> QED
      BY <3>1, <3>2 DEF IsLast
  <2> QED
    BY <2>1, <2>2, <2>3
<1>7. MaxFdExact'
  BY <1>1, <1>6 DEF MaxFdExact, InSet
<1> QED
  BY <1>5, <1>6, <1>7

(* Registering a socket, changing what it asks for and destroying it keep  *)
(* SelectInv.                                                              *)
LEMMA RequestInv ==
  ASSUME FdsBounded, SelectInv, NEW fd \in Fd,
         \/ \E h \in Handler, ev \in Interest :
               Create(fd, h, ev) \/ Modify(fd, h, ev)
         \/ Destroy(fd)
  PROVE  SelectInv'
<1>1. PICK h \in Handler \cup {"absent"}, ev \in SUBSET EventFlag :
        /\ h = "absent" => ev = {}
        /\ handlers' = [handlers EXCEPT ![fd] = h]
        /\ SelectRequest(fd, ev)
        /\ stale' \subseteq stale \cup {fd}
        /\ UNCHANGED <<pc, cur>>
  <2>1. ASSUME NEW h \in Handler, NEW ev \in Interest,
               Create(fd, h, ev) \/ Modify(fd, h, ev)
        PROVE  /\ h # "absent" /\ ev \in SUBSET EventFlag
               /\ handlers' = [handlers EXCEPT ![fd] = h]
               /\ SelectRequest(fd, ev)
               /\ stale' \subseteq stale \cup {fd}
               /\ UNCHANGED <<pc, cur>>
    BY <2>1, InterestAssumption
       DEF Create, Modify, Register, SetHandler, Handler
  <2>2. CASE Destroy(fd)
    <3>1. /\ handlers' = [handlers EXCEPT ![fd] = "absent"]
          /\ SelectRequest(fd, {})
          /\ stale' \subseteq stale \cup {fd}
          /\ UNCHANGED <<pc, cur>>
      BY <2>2 DEF Destroy, Unregister
    <3> QED
      BY <3>1
  <2> QED
    BY <2>1, <2>2
<1>2. /\ req' = [req EXCEPT ![fd] = ev]
      /\ UNCHANGED <<recv, nEvents, current>>
  BY <1>1 DEF SelectRequest
<1>3. MaxFdExact' /\ maxFd' \in Fd \cup {-1}
  BY <1>1, RequestMaxFd DEF SelectInv
<1>4. /\ handlers' \in [Fd -> Handler \cup {"absent"}]
      /\ req' \in [Fd -> SUBSET EventFlag]
      /\ stale' \subseteq Fd
  BY <1>1, <1>2 DEF SelectInv, TypeOK
<1>5. TypeOK'
  BY <1>1, <1>2, <1>3, <1>4 DEF SelectInv, TypeOK
<1>6. BitsCounted'
  BY <1>2 DEF SelectInv, BitsCounted, Bits
<1>7. Requests'
  BY <1>1, <1>2 DEF SelectInv, TypeOK, Requests, Sockets
<1>8. Control'
  BY <1>1, <1>2 DEF SelectInv, Control
<1> QED
  BY <1>3, <1>5, <1>6, <1>7, <1>8 DEF SelectInv

(* One round of run() keeps SelectInv: it counts the bits it passes. *)
LEMMA RunStepInv ==
  ASSUME FdsBounded, SelectInv, RunStep
  PROVE  SelectInv' /\ nEvents' = Bits(recv', current')
<1>1. PICK fd \in Fd : SelectPop(fd, recv[fd]) /\ Deliver(fd, recv[fd])
  BY DEF RunStep
<1>2. /\ nEvents # 0 /\ IsNext(fd)
      /\ current' = fd + 1
      /\ nEvents' = nEvents - Cardinality(recv[fd])
      /\ UNCHANGED <<req, recv, maxFd, handlers>>
  BY <1>1 DEF SelectPop, Deliver
<1>3. nEvents' = Bits(recv, fd + 1)
  BY <1>2, BitsPassed DEF SelectInv, BitsCounted
<1>4. nEvents' = Bits(recv', current')
  BY <1>2, <1>3
<1>5. nEvents' \in Nat /\ current' \in Nat
  BY <1>2, <1>3, BitsFinite, FlagAssumption
<1>6. /\ pc' \in {"run", "idle", "handler"}
      /\ pc' # "handler" => cur' = NoEvent
      /\ cur' \in [fd : Fd, ev : SUBSET EventFlag] \cup {NoEvent}
      /\ stale' \subseteq Fd
  <2>1. /\ handlers[fd] \in {"absent", "empty", "bound"}
        /\ recv[fd] \in SUBSET EventFlag /\ stale \subseteq Fd
    BY DEF SelectInv, TypeOK, Handler
  <2> QED
    BY <1>1, <2>1 DEF Deliver, AfterLookup
<1>7. TypeOK'
  BY <1>2, <1>5, <1>6 DEF SelectInv, TypeOK
<1>8. MaxFdExact' /\ Requests'
  BY <1>2 DEF SelectInv, MaxFdExact, InSet, Requests, Sockets
<1>9. BitsCounted'
  BY <1>4 DEF BitsCounted, Bits
<1> QED
  BY <1>4, <1>6, <1>7, <1>8, <1>9 DEF SelectInv, Control

(* wait() keeps SelectInv, however it ends. *)
LEMMA WaitInv ==
  ASSUME FdsBounded, SelectInv, Wait \/ WaitSleep \/ WaitInterrupted
  PROVE  SelectInv'
<1>1. /\ pc = "ran" /\ pc' = "idle" /\ stale' = {}
      /\ UNCHANGED <<handlers, cur, req, maxFd>>
  BY DEF Wait, WaitSleep, WaitInterrupted, WaitReturn, SelectWait,
         SelectSleep, SelectInterrupted, selectVars
<1>2. MaxFdExact' /\ Requests' /\ Control'
  BY <1>1 DEF SelectInv, MaxFdExact, InSet, Requests, Sockets, Control
<1>3. /\ recv' \in [Fd -> SUBSET EventFlag]
      /\ nEvents' \in Nat /\ current' \in Nat
      /\ nEvents' # 0 => nEvents' = Bits(recv', current')
  <2>1. CASE Wait
    <3>1. /\ recv' \in [Fd -> SUBSET EventFlag]
          /\ nEvents' = Bits(recv', 0) /\ current' = 0
      BY <2>1 DEF Wait, SelectWait
    <3>2. Bits(recv', 0) \in Nat
      BY BitsFinite
    <3> QED
      BY <3>1, <3>2
  <2>2. CASE WaitSleep \/ WaitInterrupted
    <3>1. /\ recv' = recv \/ recv' = req
          /\ UNCHANGED <<nEvents, current>>
      BY <2>2 DEF WaitSleep, WaitInterrupted, SelectSleep, SelectInterrupted,
                  selectVars
    <3>2. nEvents = 0
      BY <1>1 DEF SelectInv, Control
    <3> QED
      BY <3>1, <3>2 DEF SelectInv, TypeOK
  <2> QED
    BY <2>1, <2>2
<1>4. TypeOK'
  BY <1>1, <1>3 DEF SelectInv, TypeOK
<1>5. BitsCounted'
  BY <1>3 DEF BitsCounted, Bits
<1> QED
  BY <1>2, <1>4, <1>5 DEF SelectInv

(* Every step keeps SelectInv. *)
LEMMA StepInv ==
  ASSUME FdsBounded, SelectInv, [Next]_vars
  PROVE  SelectInv'
<1>1. ASSUME NEW fd \in Fd, NEW h \in Handler, NEW ev \in Interest,
             Create(fd, h, ev) \/ Modify(fd, h, ev)
      PROVE  SelectInv'
  BY <1>1, RequestInv
<1>2. ASSUME NEW fd \in Fd, Destroy(fd) PROVE SelectInv'
  BY <1>2, RequestInv
<1>3. CASE RunStep
  BY <1>3, RunStepInv
<1>4. CASE Wait \/ WaitSleep \/ WaitInterrupted
  BY <1>4, WaitInv
<1>5. CASE Enter \/ Resume \/ Throw \/ Return
  <2>1. /\ UNCHANGED <<handlers, stale, req, recv, maxFd, nEvents, current>>
        /\ pc' \in {"idle", "run", "ran"}
        /\ pc' = "ran" => nEvents = 0
        /\ cur' = NoEvent
    BY <1>5 DEF SelectInv, Control, Enter, Resume, Throw, Return, RunEnter,
                HandlerReturn, HandlerThrow, RunReturn, SelectEmpty,
                selectVars
  <2>2. TypeOK'
    BY <2>1 DEF SelectInv, TypeOK
  <2>3. MaxFdExact' /\ BitsCounted' /\ Requests'
    BY <2>1 DEF SelectInv, MaxFdExact, InSet, BitsCounted, Bits,
                Requests, Sockets
  <2> QED
    BY <2>1, <2>2, <2>3 DEF SelectInv, Control
<1>6. CASE UNCHANGED vars
  BY <1>6 DEF vars, dispatchVars, selectVars, SelectInv, TypeOK, MaxFdExact,
              InSet, BitsCounted, Bits, Requests, Sockets, Control
<1> QED
  BY <1>1, <1>2, <1>3, <1>4, <1>5, <1>6 DEF Next

(* SelectInv holds in every state. *)
LEMMA Invariance == ASSUME FdsBounded PROVE Spec => []SelectInv
<1>1. Init => SelectInv
  BY InitInv
<1>2. SelectInv /\ [Next]_vars => SelectInv'
  BY StepInv
<1> QED
  BY <1>1, <1>2, PTL DEF Spec

(* _n_events never gets below zero, and none of the operations leaves a    *)
(* variable outside its type.                                              *)
THEOREM SelectTypes == ASSUME FdsBounded PROVE Spec => []TypeOK
BY Invariance, PTL DEF SelectInv

(* _max_fd is the largest descriptor anything is asked for, after any      *)
(* sequence of constructions, requests and destructions.                   *)
THEOREM MaxFdSafe == ASSUME FdsBounded PROVE Spec => []MaxFdExact
BY Invariance, PTL DEF SelectInv

(* _n_events is the number of bits the scan of pop_event() will still      *)
(* find, whichever sockets are destroyed before it comes to them.          *)
THEOREM BitsSafe == ASSUME FdsBounded PROVE Spec => []BitsCounted
BY Invariance, PTL DEF SelectInv

-----------------------------------------------------------------------------
(* The refinement of EventLoop *)

(* What EventLoop sees of the sets: the event of a descriptor. *)
EventOf(fd) == [fd |-> fd, ev |-> recv[fd]]

AllPending == {EventOf(fd) : fd \in Unread}

(* A new dispatcher is an initial state of EventLoop. *)
LEMMA InitRefines == Init => Loop!Init
<1> SUFFICES ASSUME Init PROVE Loop!Init
  OBVIOUS
<1>1. Unread = {}
  BY DEF Init, SelectInit, Unread
<1> QED
  BY <1>1 DEF Init, DispatchInit, SelectInit, NoFds, NoEvent,
              Loop!Init, Loop!NoEvent

(* When the scan has passed a descriptor, the events of the others are     *)
(* still to be handed out: _n_events is zero only if there are none.       *)
LEMMA PopUnread ==
  ASSUME FdsBounded, SelectInv, NEW fd \in Fd,
         SelectPop(fd, recv[fd]), nEvents' = Bits(recv', current')
  PROVE  fd \in Unread /\ Unread' = Unread \ {fd}
<1>1. /\ nEvents # 0 /\ recv' = recv /\ current' = fd + 1
      /\ recv[fd] # {} /\ fd >= current
      /\ \A f \in InSet(recv) : f < fd => f < current
  BY DEF SelectPop, IsNext
<1>2. fd \in Nat /\ current \in Nat /\ Fd \subseteq Nat
  BY FlagAssumption DEF SelectInv, TypeOK
<1>3. fd \in Unread
  BY <1>1 DEF Unread, InSet
<1>4. ASSUME NEW f \in Fd PROVE f \in Unread' <=> f \in Unread /\ f # fd
  <2>1. f \in Nat
    BY <1>2
  <2>2. f \in Unread <=> recv[f] # {} /\ f >= current
    BY <1>1 DEF Unread, InSet
  <2>3. f \in Unread' <=> recv[f] # {} /\ nEvents' # 0 /\ f >= fd + 1
    BY <1>1 DEF Unread, InSet
  <2>4. ASSUME recv[f] # {}, f >= fd + 1 PROVE nEvents' # 0
    <3>1. PICK e \in recv[f] : e \in EventFlag
      BY <2>4 DEF SelectInv, TypeOK
    <3>2. <<f, e>> \in BitsFrom(recv, fd + 1)
      BY <2>4, <3>1 DEF BitsFrom
    <3>3. Bits(recv, fd + 1) # 0
      BY <3>2, BitsFinite
    <3> QED
      BY <1>1, <3>3
  <2>5. recv[f] # {} /\ f < fd => f < current
    BY <1>1 DEF InSet
  <2> QED
    BY <1>1, <1>2, <2>1, <2>2, <2>3, <2>4, <2>5
<1>5. Unread \subseteq Fd /\ Unread' \subseteq Fd
  BY DEF Unread, InSet
<1> QED
  BY <1>3, <1>4, <1>5

(* One round of run() delivers one pending event. *)
LEMMA RunStepRefines ==
  ASSUME FdsBounded, SelectInv, RunStep
  PROVE  \E e \in AllPending : Loop!Deliver(e)
<1>1. PICK fd \in Fd : SelectPop(fd, recv[fd]) /\ Deliver(fd, recv[fd])
  BY DEF RunStep
<1>2. fd \in Unread /\ Unread' = Unread \ {fd}
  BY <1>1, PopUnread, RunStepInv
<1>3. UNCHANGED <<handlers, req, recv>>
  BY <1>1 DEF SelectPop, Deliver
<1>4. PICK e \in AllPending : e = EventOf(fd)
  BY <1>2 DEF AllPending
<1>5. e.fd = fd /\ e = [fd |-> fd, ev |-> recv[fd]]
  BY <1>4 DEF EventOf
<1>6. AllPending' = AllPending \ {e}
  BY <1>2, <1>3, <1>5 DEF AllPending, EventOf
<1>7. /\ pc = "run"
      /\ pc' = AfterLookup[handlers[fd]]
      /\ cur' = IF handlers[fd] = "bound" THEN e ELSE NoEvent
  BY <1>1, <1>5 DEF Deliver
<1>8. cur = NoEvent /\ handlers[fd] \in {"absent", "empty", "bound"}
  BY <1>7 DEF SelectInv, Control, TypeOK, Handler
<1>9. Loop!Deliver(e)
  BY <1>3, <1>5, <1>6, <1>7, <1>8
     DEF Loop!Deliver, AllPending, EventOf, AfterLookup
<1> QED
  BY <1>9

(* wait() reports what was asked for, at most once for each socket, and    *)
(* nothing when it is interrupted or only sleeps.                          *)
LEMMA WaitRefines ==
  ASSUME SelectInv, Wait \/ WaitSleep \/ WaitInterrupted
  PROVE  Loop!Wait
<1>1. /\ pc = "ran" /\ pc' = "idle"
      /\ UNCHANGED <<handlers, cur, req>>
  BY DEF Wait, WaitSleep, WaitInterrupted, WaitReturn, SelectWait,
         SelectSleep, SelectInterrupted, selectVars
<1>2. nEvents = 0 /\ Unread = {}
  BY <1>1 DEF SelectInv, Control, Unread
<1>3. ASSUME NEW fd \in Unread'
      PROVE  handlers[fd] # "absent" /\ recv'[fd] \subseteq req[fd]
  <2>1. fd \in Fd /\ recv'[fd] # {} /\ nEvents' # 0
    BY DEF Unread, InSet
  <2>2. Wait
    BY <1>2, <2>1 DEF WaitSleep, WaitInterrupted, SelectSleep,
                      SelectInterrupted, selectVars
  <2>3. recv'[fd] \subseteq req[fd]
    BY <2>1, <2>2 DEF Wait, SelectWait
  <2>4. fd \in Sockets
    BY <2>1, <2>3 DEF SelectInv, Requests
  <2> QED
    BY <2>3, <2>4 DEF Sockets
<1>4. ASSUME NEW e \in AllPending'
      PROVE  \E fd \in Unread' : e = [fd |-> fd, ev |-> recv'[fd]]
  BY DEF AllPending, EventOf
<1>5. ASSUME NEW e \in AllPending'
      PROVE  handlers[e.fd] # "absent" /\ e.ev \subseteq req[e.fd]
  BY <1>3, <1>4
<1>6. ASSUME NEW e \in AllPending', NEW f \in AllPending', e.fd = f.fd
      PROVE  e = f
  BY <1>4, <1>6
<1> QED
  BY <1>1, <1>2, <1>5, <1>6 DEF Loop!Wait, AllPending, EventOf

(* Every step is a step of EventLoop or leaves its variables alone. *)
LEMMA StepRefines ==
  ASSUME FdsBounded, SelectInv, [Next]_vars
  PROVE  [Loop!Next]_(Loop!vars)
<1>1. ASSUME NEW fd \in Fd, NEW h \in Handler, NEW ev \in Interest,
             Create(fd, h, ev) \/ Modify(fd, h, ev)
      PROVE  Loop!Next
  <2>1. /\ handlers' = [handlers EXCEPT ![fd] = h]
        /\ req' = [req EXCEPT ![fd] = ev]
        /\ UNCHANGED <<pc, cur, recv, nEvents, current>>
        /\ pc \in {"idle", "handler", "ran"}
    BY <1>1 DEF Create, Modify, Register, SetHandler, SelectRequest, UserCode
  <2>2. h \in {"empty", "bound"} /\ ev \in SUBSET EventFlag
    BY InterestAssumption DEF Handler
  <2>3. Unread' = Unread
    BY <2>1 DEF Unread, InSet
  <2>4. Loop!Create(fd) \/ Loop!Modify(fd)
    BY <2>1, <2>2, <2>3 DEF Loop!Create, Loop!Modify, Loop!UserCode
  <2> QED
    BY <2>4 DEF Loop!Next
<1>2. ASSUME NEW fd \in Fd, Destroy(fd) PROVE Loop!Next
  <2>1. /\ handlers' = [handlers EXCEPT ![fd] = "absent"]
        /\ handlers[fd] # "absent"
        /\ req' = [req EXCEPT ![fd] = {}]
        /\ UNCHANGED <<pc, cur, recv, nEvents, current>>
        /\ pc \in {"idle", "handler", "ran"}
    BY <1>2 DEF Destroy, Unregister, SelectRequest, UserCode, Sockets
  <2>2. Unread' = Unread
    BY <2>1 DEF Unread, InSet
  <2>3. Loop!Destroy(fd)
    BY <2>1, <2>2 DEF Loop!Destroy, Loop!UserCode
  <2> QED
    BY <2>3 DEF Loop!Next
<1>3. CASE RunStep
  BY <1>3, RunStepRefines DEF Loop!Next, AllPending, EventOf
<1>4. CASE Wait \/ WaitSleep \/ WaitInterrupted
  BY <1>4, WaitRefines DEF Loop!Next
<1>5. CASE Enter \/ Resume \/ Throw \/ Return
  <2>1. UNCHANGED <<handlers, req, recv, nEvents, current>>
    BY <1>5 DEF Enter, Resume, Throw, Return, RunEnter, HandlerReturn,
                HandlerThrow, RunReturn, SelectEmpty, selectVars
  <2>2. Unread' = Unread
    BY <2>1 DEF Unread, InSet
  <2>3. CASE Enter
    BY <2>1, <2>2, <2>3 DEF Enter, RunEnter, Loop!Next, Loop!RunEnter
  <2>4. CASE Resume \/ Throw
    BY <2>1, <2>2, <2>4
       DEF Resume, Throw, HandlerReturn, HandlerThrow, NoEvent,
           Loop!Next, Loop!HandlerEnd, Loop!NoEvent
  <2>5. CASE Return
    <3>1. Unread = {}
      BY <2>5 DEF Return, SelectEmpty, Unread
    <3> QED
      BY <2>1, <2>2, <2>5, <3>1
         DEF Return, RunReturn, Loop!Next, Loop!RunReturn
  <2> QED
    BY <1>5, <2>3, <2>4, <2>5
<1>6. CASE UNCHANGED vars
  <2>1. UNCHANGED <<handlers, req, recv, nEvents, current, pc, cur>>
    BY <1>6 DEF vars, dispatchVars, selectVars
  <2>2. Unread' = Unread
    BY <2>1 DEF Unread, InSet
  <2> QED
    BY <2>1, <2>2 DEF Loop!vars
<1> QED
  BY <1>1, <1>2, <1>3, <1>4, <1>5, <1>6 DEF Next

(* The dispatcher on top of select(2) keeps the promise of EventLoop: each *)
(* event that select(2) reports is handed out exactly once, before the     *)
(* next wait, and contains only what its socket asked for, though handlers *)
(* destroy sockets whose bits the scan has not come to.                    *)
THEOREM RefinesLoop == ASSUME FdsBounded PROVE Spec => ImplementsLoop
<1>1. SelectInv /\ [Next]_vars => [Loop!Next]_(Loop!vars)
  BY StepRefines
<1> QED
  BY <1>1, InitRefines, Invariance, PTL DEF Spec, ImplementsLoop, Loop!Spec
=============================================================================
