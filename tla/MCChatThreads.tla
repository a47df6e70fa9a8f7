--------------------------- MODULE MCChatThreads ---------------------------
(* Small instances of ChatThreads for TLC.                                 *)
EXTENDS ChatThreads, TLC

CONSTANTS consumer, dealer, admin, g1, c1, c2, c3

Symmetry == Permutations(Calls)

=============================================================================
