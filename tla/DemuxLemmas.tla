---------------------------- MODULE DemuxLemmas -----------------------------
(***************************************************************************)
(* Facts that the proofs about the three demultiplexers share: what the    *)
(* conversion of the kernel's flags yields, and the first and the last     *)
(* element of a set of positions or descriptors.                           *)
(***************************************************************************)
EXTENDS EventFlags, WellFoundedInduction, TLAPS

(* pop_event() makes an event_set of any flags. *)
LEMMA EventSetType ==
  ASSUME NEW flags \in SUBSET Flag PROVE EventSet(flags) \in SUBSET EventFlag
BY DEF EventSet

(* What pop_event() makes of the flags the kernel may report about a       *)
(* socket is part of what the socket asked for: errors, hangups and the    *)
(* redundant flags add nothing to it.                                      *)
LEMMA ReportsAsked ==
  ASSUME NEW ev \in SUBSET EventFlag, NEW flags \in Reports(ev)
  PROVE  EventSet(flags) \subseteq ev
<1> SUFFICES ASSUME NEW f \in EventSet(flags) PROVE f \in ev
  OBVIOUS
<1>1. /\ f \in EventFlag
      /\ f \in flags \/ \E g \in flags \cap DOMAIN Alias : f = Alias[g]
  BY DEF EventSet
<1>2. \A g \in flags : \/ g \in ev
                       \/ g \in DOMAIN Alias /\ Alias[g] \in ev
                       \/ g \in Unasked
  BY DEF Reports
<1>3. CASE f \in flags
  <2>1. f \notin DOMAIN Alias /\ f \notin Unasked
    BY <1>1 DEF EventFlag, Alias, Unasked
  <2> QED
    BY <1>2, <1>3, <2>1
<1>4. ASSUME NEW g \in flags \cap DOMAIN Alias, f = Alias[g]
      PROVE  f \in ev
  <2>1. g \notin EventFlag /\ g \notin Unasked
    BY DEF EventFlag, Alias, Unasked
  <2> QED
    BY <1>2, <1>4, <2>1
<1> QED
  BY <1>1, <1>3, <1>4

(* A set of naturals has a first element: the one the scan of pop_event()  *)
(* comes to.                                                               *)
LEMMA FirstExists ==
  ASSUME NEW T, T \subseteq Nat, T # {}
  PROVE  \E x \in T : \A y \in T : x <= y
<1>1. PICK x \in T : \A y \in T : ~(<<y, x>> \in OpToRel(<, Nat))
  BY NatLessThanWellFounded, WFMin, Zenon
<1>2. ASSUME NEW y \in T PROVE x <= y
  <2>1. x \in Nat /\ y \in Nat
    OBVIOUS
  <2>2. ~(<<y, x>> \in {ss \in Nat \X Nat : ss[1] < ss[2]})
    BY <1>1, Zenon DEF OpToRel
  <2> QED
    BY <2>1, <2>2
<1> QED
  BY <1>2

(* A bounded set of naturals has a last element: what the search for the   *)
(* new _max_fd finds.                                                      *)
LEMMA LastExists ==
  ASSUME NEW N \in Nat, NEW T, T \subseteq 0..N, T # {}
  PROVE  \E x \in T : \A y \in T : y <= x
<1> DEFINE U == {N - x : x \in T}
<1>1. U \subseteq Nat
  <2>1. ASSUME NEW x \in T PROVE N - x \in Nat
    <3>1. x \in 0..N
      OBVIOUS
    <3> QED
      BY <3>1
  <2> QED
    BY <2>1
<1>2. U # {}
  <2>1. PICK x \in T : TRUE
    OBVIOUS
  <2>2. N - x \in U
    OBVIOUS
  <2> QED
    BY <2>2
<1>3. PICK u \in U : \A v \in U : u <= v
  <2> HIDE DEF U
  <2> QED
    BY <1>1, <1>2, FirstExists
<1>4. PICK x \in T : u = N - x
  OBVIOUS
<1>5. ASSUME NEW y \in T PROVE y <= x
  <2>1. u <= N - y
    BY <1>3
  <2>2. x \in 0..N /\ y \in 0..N
    OBVIOUS
  <2> QED
    BY <1>4, <2>1, <2>2
<1> QED
  BY <1>5
=============================================================================
