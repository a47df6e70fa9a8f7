---------------------------- MODULE MCStorefront ----------------------------
(* Small instances of Storefront for TLC.                                  *)
EXTENDS Storefront, TLC

CONSTANTS m1, m2, p1, p2, c1, c2, c3, c4

Symmetry ==
    Permutations(Calls) \cup Permutations(Products) \cup Permutations(Merchants)

=============================================================================
