\* A logout and a password reset.
SPECIFICATION ClientSpec
CONSTANTS
    User = {u1}
    Tab = {t1}
    Call = {c1, c2}
    Req <- Slots
    MaxTime = 2
    AccessLife = 1
    RefreshLife = 3
    Faults = {}
    NoUser = NoUser  NoToken = NoToken  NoTab = NoTab
PROPERTIES Revoked
\* A browser may stay closed.
CHECK_DEADLOCK FALSE
