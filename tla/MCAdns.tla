------------------------------- MODULE MCAdns -------------------------------
(***************************************************************************)
(* A small instance of Adns for TLC.                                       *)
(***************************************************************************)
EXTENDS Adns

(* Descriptors that are new, kept, modified and dropped in every order. *)
MCWants ==
  {[fd \in Fd |-> IF fd \in S THEN {"readable"} ELSE {}] :
     S \in {{}, {2}, {1, 3}, {1, 2, 3}}}
  \cup {[fd \in Fd |-> IF fd = 2 THEN {"readable", "writable"} ELSE {}]}
=============================================================================
