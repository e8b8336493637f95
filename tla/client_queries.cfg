\* The queries of one open page, three at a time, nothing failing.
SPECIFICATION OpenPageSpec
CONSTANTS
    User = {u1}
    Tab = {t1}
    Call = {c1, c2, c3}
    Req <- Slots
    MaxTime = 4
    AccessLife = 1
    RefreshLife = 3
    Faults = {}
    NoUser = NoUser  NoToken = NoToken  NoTab = NoTab
INVARIANTS SessionKept
PROPERTIES SignedOutByAge
\* A browser may stay closed.
CHECK_DEADLOCK FALSE
