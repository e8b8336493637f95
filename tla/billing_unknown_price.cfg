\* One customer; an invoice whose price is not in the products table.
SPECIFICATION Spec
CONSTANTS
    m1 = m1  m2 = m2
    basic = basic  pro = pro  s1 = s1  s2 = s2
    User = {u1}
    Email = {m1, m2}
    Product = {free, basic, pro}
    Subscription = {s1, s2}
    FreeTier = free
    RowId = {r1}
    Event <- AllEvents
    Handler = {h1}
    SignIn = {c1}
    MaxTime = 1
    NoUser = NoUser  NoRow = NoRow  NoProduct = NoProduct
    NoSubscription = NoSubscription  NoEvent = NoEvent
INVARIANTS UnknownPriceRejected
