\* One tab, two calls at a time, everything a page can do, everything failing.
SPECIFICATION MCFairSpec
CONSTANTS
    User = {u1}
    Tab = {t1}
    Call = {c1, c2}
    Req <- Slots
    MaxTime = 2
    AccessLife = 1
    RefreshLife = 3
    Faults = {"database", "network"}
    NoUser = NoUser  NoToken = NoToken  NoTab = NoTab
INVARIANTS ClientTypeOK PromiseAlive
PROPERTIES Settles
\* A browser may stay closed.
CHECK_DEADLOCK FALSE
