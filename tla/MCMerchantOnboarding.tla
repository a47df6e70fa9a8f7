------------------------ MODULE MCMerchantOnboarding ------------------------
(* Small instances of MerchantOnboarding for TLC.                          *)
EXTENDS MerchantOnboarding, TLC

CONSTANTS m1, m2, admin1, admin2, v1, v2, v3

Symmetry == Permutations(Reviews) \cup Permutations(Admins)
                \cup Permutations(Merchants)

=============================================================================
