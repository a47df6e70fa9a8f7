\* An administrator works at his page while reviews of his come in from another
\* one, and merchants save drafts and submit.
SPECIFICATION ConsoleSpec
CONSTANTS
    m1 = m1  m2 = m2  admin1 = admin1  admin2 = admin2
    v1 = v1  v2 = v2  v3 = v3
    NoAdmin = NoAdmin
    NoMerchant = NoMerchant
    None = None
    Merchants = {m1, m2}
    Admins = {admin1}
    Reviews = {v1, v2}
    Operator = admin1
    Filters = {"underReview", "all"}
    MaxInFlight = 2
SYMMETRY Symmetry
INVARIANTS ConsoleTypeOK FieldsMatchStatus DetailIsCurrent ListIsCurrent
PROPERTY ImplementsLifecycle
