------------------------------- MODULE MCCore -------------------------------
(***************************************************************************)
(* A small instance of Core for TLC.                                       *)
(***************************************************************************)
EXTENDS Core
=============================================================================
