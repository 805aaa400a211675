------------------------------ MODULE MCSelect ------------------------------
(***************************************************************************)
(* Small instances of SelectDispatch for TLC.                              *)
(***************************************************************************)
EXTENDS SelectDispatch

MCInterest == {{}, {"readable", "writable"}}
=============================================================================
