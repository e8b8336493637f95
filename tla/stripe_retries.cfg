\* Events in any order, two webhooks at a time, a sign-in, crashes, lost answers.
SPECIFICATION FairStripeSpec
CONSTANTS
    m1 = m1
    User = {u1}
    Email = {m1}
    Product = {free, basic}
    Subscription = {s1}
    FreeTier = free
    RowId = {r1, r2}
    Event <- StripeEvent
    Handler = {h1, h2}
    SignIn = {c1}
    MaxTime = 1
    NoUser = NoUser  NoRow = NoRow  NoProduct = NoProduct
    NoSubscription = NoSubscription  NoEvent = NoEvent
    EmailOf <- SameCustomer
    Period = 1
    MaxEvents = 2
    InOrder = FALSE
INVARIANTS NoPaymentLost
PROPERTIES EveryEventHandled
