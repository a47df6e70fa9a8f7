\* Two administrators decide the same application at once.
SPECIFICATION FairSpec
CONSTANTS
    m1 = m1  m2 = m2  admin1 = admin1  admin2 = admin2
    v1 = v1  v2 = v2  v3 = v3
    NoAdmin = NoAdmin
    NoMerchant = NoMerchant
    Merchants = {m1, m2}
    Admins = {admin1, admin2}
    Reviews = {v1, v2}
PROPERTY OnlyUnderReviewDecided
