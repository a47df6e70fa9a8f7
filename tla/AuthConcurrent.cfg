\* Calls on the super-admin's account interleave at every await and may fail there.
SPECIFICATION Spec
CONSTANTS
    u1 = u1  u2 = u2  c1 = c1  c2 = c2  c3 = c3  c4 = c4  c5 = c5
    c6 = c6  p1 = p1  p2 = p2
    NoUser = NoUser
    NoPassword = NoPassword
    NoToken = NoToken
    NoCode = NoCode
    Users = {u1}
    SuperAdmin = u1
    Calls = {c1, c2, c3, c4, c5}
    Passwords = {p1, p2}
SYMMETRY Symmetry
INVARIANTS SessionsComeFromCodes EndedStaysEnded TokensWorkUntilEnded
PROPERTY PasswordReplacedByOwner
\* The calls are finitely many, so the system stops when all have ended.
CHECK_DEADLOCK FALSE
