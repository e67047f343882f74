------------------------ MODULE MCRepeatEffectUntil ------------------------
(* RepeatEffectUntil for TLC.                                               *)
EXTENDS RepeatEffectUntil

=============================================================================
