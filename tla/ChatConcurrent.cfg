\* Three users send messages, open threads and read, and any call may fail.
SPECIFICATION Spec
CONSTANTS
    consumer = consumer  dealer = dealer  admin = admin  g1 = g1
    c1 = c1  c2 = c2  c3 = c3
    None = None
    Users = {consumer, dealer, admin}
    Dealers = {dealer}
    Admins = {admin}
    FirstAdmin = admin
    GroupBuys = {g1}
    Calls = {c1, c2, c3}
SYMMETRY Symmetry
INVARIANTS MessagesStayAmongParticipants AddressedMessagesArrive
           ThreadsAreUnique LastMessageIsCovered ReadMarksAreKept
\* The calls are finitely many, so the system stops when all have ended.
CHECK_DEADLOCK FALSE
