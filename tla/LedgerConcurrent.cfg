\* Two repayments of two entries, of a new consumer or of one near a clamp.
SPECIFICATION FairSpec
CONSTANTS
    e1 = e1  e2 = e2  c1 = c1  c2 = c2  c3 = c3  r1 = r1  r2 = r2
    NoEntry = NoEntry
    Entries = {e1, e2}
    Consumers = {c1, c2, c3}
    Requests = {r1, r2}
    Amounts = {1, 2}
    StartScore <- EdgeScores
INVARIANTS RepaidWithinReceived PaidEntryWasScored ScoreWithinImpacts
           BalanceIsExact StatusMatchesBalance ScoreIsExact
PROPERTIES PaidIsForever CoveringRepaymentSettles
\* The requests are finitely many, so the system stops when all have ended.
CHECK_DEADLOCK FALSE
