----------------------------- MODULE MCSchedule -----------------------------
(***************************************************************************)
(* Small instances of Schedule for TLC.                                    *)
(***************************************************************************)
EXTENDS Schedule

(* No task is scheduled for the current second or an earlier one. *)
StrictDelay == {1, 2}
=============================================================================
