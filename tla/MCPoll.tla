------------------------------- MODULE MCPoll -------------------------------
(***************************************************************************)
(* Small instances of PollDispatch for TLC.                                *)
(***************************************************************************)
EXTENDS PollDispatch

MCInterest == {{}, {"readable"}}
=============================================================================
