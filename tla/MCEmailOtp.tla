----------------------------- MODULE MCEmailOtp -----------------------------
(* Small instances of EmailOtp for TLC.                                    *)
EXTENDS EmailOtp, TLC

CONSTANTS k1, k2, r1, r2, r3, a1, a2, a3

CallSymmetry == Permutations(Requests) \cup Permutations(Answers)
                    \cup Permutations(Keys)

=============================================================================
