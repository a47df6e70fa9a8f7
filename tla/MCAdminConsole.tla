--------------------------- MODULE MCAdminConsole ---------------------------
(* Small instances of AdminConsole for TLC.                                *)
EXTENDS AdminConsole, TLC

CONSTANTS m1, m2, admin1, admin2, v1, v2, v3

Symmetry == Permutations(Reviews) \cup Permutations(Merchants)

=============================================================================
