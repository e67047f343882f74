----------------------------- MODULE MCSyncWait -----------------------------
(* SyncWait for TLC.                                                         *)
EXTENDS SyncWait

=============================================================================
