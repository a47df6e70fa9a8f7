\* Two repayments of the entries of one consumer, who starts at 500.
SPECIFICATION Spec
CONSTANTS
    e1 = e1  e2 = e2  c1 = c1  c2 = c2  c3 = c3  r1 = r1  r2 = r2
    NoEntry = NoEntry
    Entries = {e1, e2}
    Consumers = {c1}
    Requests = {r1, r2}
    Amounts = {1, 2}
    StartScore <- DefaultScores
INVARIANT ScoreExplainedByLedger
\* The requests are finitely many, so the system stops when all have ended.
CHECK_DEADLOCK FALSE
