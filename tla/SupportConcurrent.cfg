\* Visitors write, administrators reply, and any call may fail.
SPECIFICATION Spec
CONSTANTS
    v1 = v1  v2 = v2  admin1 = admin1  admin2 = admin2
    c1 = c1  c2 = c2  c3 = c3  c4 = c4
    None = None
    Visitors = {v1, v2}
    Admins = {admin1, admin2}
    FirstAdmin = admin1
    Calls = {c1, c2, c3, c4}
SYMMETRY Symmetry
INVARIANTS AssignedToReplier LastMessageIsCovered RefusedOnlyWhenOverlapped
PROPERTIES ImplementsFeed
\* The calls are finitely many, so the system stops when all have ended.
CHECK_DEADLOCK FALSE
