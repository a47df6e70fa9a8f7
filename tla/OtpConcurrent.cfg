\* Calls interleave at every await and may fail there.
SPECIFICATION Spec
CONSTANTS
    k1 = k1  k2 = k2  r1 = r1  r2 = r2  r3 = r3  a1 = a1  a2 = a2  a3 = a3
    NoKey = NoKey
    NoOtp = NoOtp
    Keys = {k1, k2}
    Requests = {r1, r2}
    Answers = {a1, a2, a3}
    MaxAttempts = 2
SYMMETRY CallSymmetry
INVARIANTS OldCodesRetired AcceptedOnce AnswersWithinMax
PROPERTY ImplementsCodes
\* The calls are finitely many, so the system stops when all have ended.
CHECK_DEADLOCK FALSE
