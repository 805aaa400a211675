------------------------------- MODULE MCEpoll ------------------------------
(***************************************************************************)
(* Small instances of EpollDispatch for TLC.                               *)
(***************************************************************************)
EXTENDS EpollDispatch

MCInterest == {{}, {"readable"}}
=============================================================================
