\* Two webhooks whose transactions interleave, a sign-in, three connections.
SPECIFICATION MCSpec
CONSTANTS
    m1 = m1  m2 = m2  basic = basic  pro = pro  s1 = s1
    User = {u1}
    Email = {m1, m2}
    Product = {free, basic, pro}
    Subscription = {s1}
    FreeTier = free
    RowId = {r1, r2, r3}
    Event <- Story
    Handler = {h1, h2}
    SignIn = {c1}
    MaxTime = 1
    NoUser = NoUser  NoRow = NoRow  NoProduct = NoProduct
    NoSubscription = NoSubscription  NoEvent = NoEvent
    PoolSize = 3
    NoImage = NoImage
SYMMETRY SlotSymmetry
INVARIANTS TxTypeOK NobodyStuck Backed RowsBounded
PROPERTIES ImplementsBilling
