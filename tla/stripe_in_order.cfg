\* Two subscriptions of one customer, events oldest first, one webhook at a time.
SPECIFICATION StripeSpec
CONSTANTS
    m1 = m1
    User = {u1}
    Email = {m1}
    Product = {free, basic, pro}
    Subscription = {s1, s2}
    FreeTier = free
    RowId = {r1, r2}
    Event <- StripeEvent
    Handler = {h1}
    SignIn = {}
    MaxTime = 2
    NoUser = NoUser  NoRow = NoRow  NoProduct = NoProduct
    NoSubscription = NoSubscription  NoEvent = NoEvent
    EmailOf <- SameCustomer
    Period = 1
    MaxEvents = 5
    InOrder = TRUE
SYMMETRY RowSymmetry
INVARIANTS StripeTypeOK NoPaymentLost TablesAgree
