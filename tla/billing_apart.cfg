\* Two users, two webhooks that overlap unless they are of one user, every event.
SPECIFICATION ApartSpec
CONSTANTS
    m1 = m1  m2 = m2
    basic = basic  pro = pro  s1 = s1  s2 = s2
    User = {u1, u2}
    Email = {m1, m2}
    Product = {free, basic, pro}
    Subscription = {s1, s2}
    FreeTier = free
    RowId = {r1, r2}
    Event <- AllEvents
    Handler = {h1, h2}
    SignIn = {c1}
    MaxTime = 1
    NoUser = NoUser  NoRow = NoRow  NoProduct = NoProduct
    NoSubscription = NoSubscription  NoEvent = NoEvent
SYMMETRY SlotSymmetry
INVARIANTS TypeOK ProductMatchesBilling
PROPERTIES OldSubscriptionInert ImplementsEntitlement
