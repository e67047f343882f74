---------------------------- MODULE MCStopState ----------------------------
(* StopState for TLC.                                                       *)
EXTENDS StopState

=============================================================================
