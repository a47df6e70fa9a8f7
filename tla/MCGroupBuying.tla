--------------------------- MODULE MCGroupBuying ---------------------------
(* Small instances of GroupBuying for TLC.                                 *)
EXTENDS GroupBuying, TLC

CONSTANTS g1, g2, j1, j2, j3, j4

Symmetry == Permutations(Joins) \cup Permutations(GroupBuys)

=============================================================================
