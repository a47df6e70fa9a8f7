--------------------------- MODULE MCAuthSession ---------------------------
(* Small instances of AuthSession for TLC.                                 *)
EXTENDS AuthSession, TLC

CONSTANTS u1, u2, c1, c2, c3, c4, c5, c6, p1, p2

Symmetry == Permutations(Calls) \cup Permutations(Passwords)

=============================================================================
