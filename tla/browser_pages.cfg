SPECIFICATION MCSpec
CONSTANTS
    Call = {c1, c2}
    NoCall = NoCall
    MutationRetries = 0
    QueryRetries = 1
    User = {u1, u2}
    NoUser = NoUser
    NoCopy = NoCopy
    Price = {p1, p2}
    NoPrice = NoPrice
SYMMETRY Symmetry
INVARIANTS
    TypeOK
    OwnProfile
    ProtectedShown
    BillingOwn
    VerifiedSeen
    NobodyWaits
CHECK_DEADLOCK FALSE
