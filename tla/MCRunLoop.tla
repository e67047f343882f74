----------------------------- MODULE MCRunLoop -----------------------------
(* RunLoop for TLC.                                                         *)
EXTENDS RunLoop

=============================================================================
