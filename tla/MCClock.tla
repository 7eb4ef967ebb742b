------------------------------- MODULE MCClock -------------------------------
(***************************************************************************)
(* Module Clock on short stretches of time: the end of time is a few       *)
(* periods away, so that deadlines saturate and counts coalesce.           *)
(***************************************************************************)
EXTENDS Clock

=============================================================================
