--------------------------- MODULE MCInPlaceStop ---------------------------
(* InPlaceStop for TLC.                                                     *)
EXTENDS InPlaceStop

=============================================================================
