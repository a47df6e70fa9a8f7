\* Merchants write products, alerts follow in a second step that may fail.
SPECIFICATION Spec
CONSTANTS
    m1 = m1  m2 = m2  p1 = p1  p2 = p2
    c1 = c1  c2 = c2  c3 = c3  c4 = c4
    None = None
    Merchants = {m1, m2}
    Products = {p1, p2}
    Calls = {c1, c2, c3, c4}
    Stocks = {0, 1, 2}
    Thresholds = {1}
SYMMETRY Symmetry
INVARIANTS AlertsWereTrue AlertsFollowStock
\* The calls are finitely many; upsertStore can always run again.
