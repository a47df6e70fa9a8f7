\* Joins of two group buys interleave and may fail.
SPECIFICATION Spec
CONSTANTS
    g1 = g1  g2 = g2  j1 = j1  j2 = j2  j3 = j3  j4 = j4
    NoBuy = NoBuy
    GroupBuys = {g1, g2}
    Joins = {j1, j2, j3, j4}
    Quantities = {1, 2}
    Targets = {2, 3}
SYMMETRY Symmetry
INVARIANTS QuantityIsPooled JoinsAreKept QuantityIsExact
\* The joins are finitely many, so the system stops when all have ended.
CHECK_DEADLOCK FALSE
