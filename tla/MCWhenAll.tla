----------------------------- MODULE MCWhenAll -----------------------------
(* WhenAll for TLC.                                                         *)
EXTENDS WhenAll

=============================================================================
