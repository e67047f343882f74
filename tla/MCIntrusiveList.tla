--------------------------- MODULE MCIntrusiveList ---------------------------
(* IntrusiveList for TLC.                                                   *)
EXTENDS IntrusiveList

\* Nodes and lists are interchangeable.
Symmetry == Permutations(Nodes) \cup Permutations(Heads)

=============================================================================
