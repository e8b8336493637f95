SPECIFICATION MCSpec
CONSTANTS
    Call = {c1, c2}
    NoCall = NoCall
    MutationRetries = 1
    m1 = m1
    n1 = n1
    Email = {m1, m2}
    NoEmail = NoEmail
    Name = {n1, n2}
    NoProfile = NoProfile
    InitialSeconds = 1
    MaxTimeouts = 1
SYMMETRY Slots
INVARIANTS
    ProfileTypeOK
    SuccessIsTrue
    AtRestFresh
    NeverStuck
CHECK_DEADLOCK FALSE
