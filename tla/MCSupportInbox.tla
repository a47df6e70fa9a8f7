--------------------------- MODULE MCSupportInbox ---------------------------
(* Small instances of SupportInbox for TLC.                                *)
EXTENDS SupportInbox, TLC

CONSTANTS v1, v2, admin1, admin2, c1, c2, c3, c4

Symmetry == Permutations(Calls) \cup Permutations(Visitors)

=============================================================================
