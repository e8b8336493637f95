\* Two accounts, two addresses and a Google identity, two requests at a time.
SPECIFICATION Spec
CONSTANTS
    m1 = m1  g1 = g1
    User = {u1, u2}
    Email = {m1, m2}
    Google = {g1}
    GoogleEmail <- OneIdentity
    Request = {r1, r2}
    MaxTime = 1
    MaxCodes = 1
    MaxMails = 2
    ProfileEmail = {m1}
    CodeLife = 2
    LinkLife = 1
    MaxAttempts = 2
    NoEmail = NoEmail  NoGoogle = NoGoogle  NoUser = NoUser
    NoToken = NoToken  NoWrite = NoWrite
SYMMETRY AccountSymmetry
INVARIANTS AccountsTypeOK CodeBounded ConfirmedAddresses
