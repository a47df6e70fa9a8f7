\* Visitors and an administrator write while the page loads, selects, replies
\* and loses its socket.
SPECIFICATION FairConsoleSpec
CONSTANTS
    v1 = v1  v2 = v2
    c1 = c1  c2 = c2
    None = None
    Visitors = {v1, v2}
    Calls = {c1, c2}
    MaxInFlight = 2
INVARIANTS ConsoleTypeOK ShownOnce ShowsSelected
PROPERTIES SelectionKept ComesToRest
CHECK_DEADLOCK FALSE
