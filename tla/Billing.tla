------------------------------- MODULE Billing -------------------------------
(***************************************************************************)
(* The entitlement tables of the back-end and everything that writes them: *)
(* the Stripe webhook (controllers/billing.controller.ts calling           *)
(* services/billing.service.ts) and the expiry check every sign-in makes   *)
(* (hasExpiredSubscription / downgradeToFreeTier in auth.service.ts).      *)
(*                                                                         *)
(* One Node process runs many requests; a request gives way to the others  *)
(* at each await.  A request is therefore a program counter plus what it   *)
(* read so far, and an action is the code from one await to the next.  A   *)
(* db.transaction callback is one action, at its COMMIT: each of them      *)
(* locks a billings row and then the owner's users row and keeps both      *)
(* locks to the end, nothing inside it reads a table that changes, and an  *)
(* error or a crash rolls it back.                                         *)
(*                                                                         *)
(* Stripe is the environment here: any event of the set Event arrives at   *)
(* any time, in any order, any number of times.  StripeBilling closes the  *)
(* system with the subscriptions' life and the retries.                    *)
(***************************************************************************)
EXTENDS Naturals, FiniteSets

CONSTANTS
    User, Email, Product, Subscription,
    FreeTier,       \* the one product with is_free_tier
    RowId,          \* ids gen_random_uuid() may give to billings rows
    Event,          \* the webhook events Stripe may send
    Handler,        \* slots for webhook requests running at the same time
    SignIn,         \* slots for sign-in / refresh requests
    MaxTime,        \* bound on the clock
    NoUser, NoRow, NoProduct, NoSubscription, NoEvent

EventType == {"invoice.paid", "invoice.payment_failed",
              "customer.subscription.updated",
              "customer.subscription.deleted", "other"}

Status == {"active", "past_due", "canceled", "unpaid"}

\* The statuses for which the webhook takes the paid product away.
Ended == {"canceled", "unpaid"}

\* id: Stripe's event id, in the order of creation (the code never reads
\* it).  price: the product its price id is found under, NoProduct when the
\* products table has no such price.  end: the period end (or cancel_at).
EventRecord == [id : Nat,
                type : EventType,
                sub : Subscription \cup {NoSubscription},
                email : Email,
                price : (Product \ {FreeTier}) \cup {NoProduct},
                status : Status,
                end : Nat]

ASSUME FreeTierAssumption == FreeTier \in Product

ASSUME NullAssumption ==
    /\ NoUser \notin User
    /\ NoRow \notin RowId
    /\ NoProduct \notin Product
    /\ NoSubscription \notin Subscription
    /\ NoEvent \notin Event

ASSUME EventAssumption == Event \subseteq EventRecord

ASSUME MaxTimeAssumption == MaxTime \in Nat

ASSUME HandlerAssumption == IsFiniteSet(Handler)

VARIABLES
    email,          \* users.email
    currentProduct, \* users.current_product_id
    billings,       \* the billings table: a function from the ids in use
    job,            \* the webhook requests
    sweep,          \* the sign-ins about to downgrade: the user, or NoUser
    now

db == <<email, currentProduct, billings>>
vars == <<email, currentProduct, billings, job, sweep, now>>

BillingRow == [userId : User, productId : Product, sub : Subscription,
               status : Status, expiresAt : Nat]

PC == {"idle", "findUser", "findBilling", "write", "reply"}

\* row and product are what the handler read of the billing (its id and its
\* productId); user is the invoice's user or the billing's userId.
Job == [pc : PC,
        event : Event \cup {NoEvent},
        user : User \cup {NoUser},
        row : RowId \cup {NoRow},
        product : Product \cup {NoProduct}]

Idle == [pc |-> "idle", event |-> NoEvent, user |-> NoUser,
         row |-> NoRow, product |-> NoProduct]

RowsOf(u) == {r \in DOMAIN billings : billings[r].userId = u}
RowsWith(s) == {r \in DOMAIN billings : billings[r].sub = s}
Expired(r) == billings[r].expiresAt < now

TypeOK ==
    /\ email \in [User -> Email]
    /\ currentProduct \in [User -> Product]
    /\ DOMAIN billings \subseteq RowId
    /\ billings \in [DOMAIN billings -> BillingRow]
    /\ job \in [Handler -> Job]
    /\ sweep \in [SignIn -> User \cup {NoUser}]
    /\ now \in 0 .. MaxTime

Init ==
    /\ email \in [User -> Email]
    /\ \A u, v \in User : email[u] = email[v] => u = v
    /\ currentProduct = [u \in User |-> FreeTier]
    /\ billings = [r \in {} |-> r]
    /\ job = [h \in Handler |-> Idle]
    /\ sweep = [c \in SignIn |-> NoUser]
    /\ now = 0

-----------------------------------------------------------------------------
(* The environment: the clock, and the e-mail change of a user.            *)

Tick ==
    /\ now < MaxTime
    /\ now' = now + 1
    /\ UNCHANGED <<db, job, sweep>>

\* users.email is unique; the Stripe customer keeps the address it had.
ChangeEmail(u, m) ==
    /\ \A v \in User : email[v] # m
    /\ email' = [email EXCEPT ![u] = m]
    /\ UNCHANGED <<currentProduct, billings, job, sweep, now>>

-----------------------------------------------------------------------------
(* The webhook.  A rejected webhook handler is an unhandled rejection: the *)
(* process exits, the process manager starts it again, and every request   *)
(* that was running is gone.                                               *)

\* Fault: nothing starts the process again.
RestartMissing ==
    /\ job' = [h \in Handler |-> [Idle EXCEPT !.pc = "down"]]
    /\ sweep' = [c \in SignIn |-> NoUser]

Restart ==
    /\ job' = [h \in Handler |-> Idle]
    /\ sweep' = [c \in SignIn |-> NoUser]

\* Any other failure of the process: a query that rejects, the memory
\* limit, a deployment.
Crash ==
    /\ Restart
    /\ UNCHANGED <<db, now>>

\* The events whose handler needs the invoice's subscription.
IsInvoice(e) == e.type \in {"invoice.paid", "invoice.payment_failed"}

\* Where the switch takes an event: invoice.paid with an unknown price only
\* logs, an event of another type (or an invoice without lines) does nothing.
Route(e) ==
    CASE e.type = "other" -> "reply"
      [] e.type = "invoice.paid" /\ e.price = NoProduct -> "reply"
      [] e.type = "invoice.paid" /\ e.price # NoProduct -> "findUser"
      [] OTHER -> "findBilling"

Deliver(h, e) ==
    /\ job[h].pc = "idle"
    /\ ~ (IsInvoice(e) /\ e.sub = NoSubscription)
    /\ job' = [job EXCEPT ![h] = [Idle EXCEPT !.pc = Route(e), !.event = e]]
    /\ UNCHANGED <<db, sweep, now>>

\* "Subscription missing from invoice": the handler throws.  It throws in the
\* same way when the price id or a period end is missing, which no event of
\* Event leaves out.
RejectInvoice(h, e) ==
    /\ job[h].pc = "idle"
    /\ IsInvoice(e) /\ e.sub = NoSubscription
    /\ Restart
    /\ UNCHANGED <<db, now>>

FindUser(h) ==
    /\ job[h].pc = "findUser"
    /\ \E u \in User :
         /\ email[u] = job[h].event.email
         /\ job' = [job EXCEPT ![h].pc = "findBilling", ![h].user = u]
    /\ UNCHANGED <<db, sweep, now>>

\* "User with email ... not found": the handler throws.
UnknownUser(h) ==
    /\ job[h].pc = "findUser"
    /\ \A u \in User : email[u] # job[h].event.email
    /\ Restart
    /\ UNCHANGED <<db, now>>

\* Fault: a payment looks for a live billing only.
MatchingLive(h) ==
    IF job[h].event.type = "invoice.paid"
    THEN {r \in RowsOf(job[h].user) : billings[r].status \notin Ended}
    ELSE RowsWith(job[h].event.sub)

\* Fault: the WHERE of getBillingByExternalSubscriptionId is dropped.
MatchingAnything(h) ==
    IF job[h].event.type = "invoice.paid" THEN RowsOf(job[h].user)
    ELSE DOMAIN billings

\* The rows a handler's SELECT matches; the code takes the first of them and
\* the query has no ORDER BY.
Matching(h) ==
    IF job[h].event.type = "invoice.paid"
    THEN RowsOf(job[h].user)
    ELSE RowsWith(job[h].event.sub)

FindBilling(h) ==
    /\ job[h].pc = "findBilling"
    /\ \E r \in Matching(h) :
         job' = [job EXCEPT ![h].pc = "write",
                            ![h].row = r,
                            ![h].product = billings[r].productId,
                            ![h].user = billings[r].userId]
    /\ UNCHANGED <<db, sweep, now>>

\* registerUserBilling goes on to insert; the others return.
FindNoBilling(h) ==
    /\ job[h].pc = "findBilling"
    /\ Matching(h) = {}
    /\ job' = [job EXCEPT ![h].pc = IF job[h].event.type = "invoice.paid"
                                    THEN "write" ELSE "reply"]
    /\ UNCHANGED <<db, sweep, now>>

-----------------------------------------------------------------------------
(* The writes, one operator per service function.                          *)

Written(h, type) ==
    /\ job[h].pc = "write"
    /\ job[h].event.type = type
    /\ job' = [job EXCEPT ![h].pc = "reply"]
    /\ UNCHANGED <<email, sweep, now>>

PaidRow(u, e) ==
    [userId |-> u, productId |-> e.price, sub |-> e.sub,
     status |-> "active", expiresAt |-> e.end]

\* The transaction of registerUserBilling when the SELECT found nothing ...
CreateBilling(h) ==
    /\ Written(h, "invoice.paid")
    /\ job[h].row = NoRow
    /\ \E id \in RowId \ DOMAIN billings :
         billings' = [r \in DOMAIN billings \cup {id} |->
                        IF r = id THEN PaidRow(job[h].user, job[h].event)
                        ELSE billings[r]]
    /\ currentProduct' = [currentProduct EXCEPT
                            ![job[h].user] = job[h].event.price]

\* Fault: the renewal leaves externalSubscriptionId alone.
RenewBillingKeepingSub(h) ==
    /\ Written(h, "invoice.paid")
    /\ job[h].row # NoRow
    /\ billings' = [billings EXCEPT ![job[h].row] =
                      [PaidRow(job[h].user, job[h].event) EXCEPT !.sub =
                         billings[job[h].row].sub]]
    /\ currentProduct' = [currentProduct EXCEPT
                            ![job[h].user] = job[h].event.price]

\* ... and when it found a row, which is then updated by its id.
RenewBilling(h) ==
    /\ Written(h, "invoice.paid")
    /\ job[h].row # NoRow
    /\ billings' = [billings EXCEPT
                      ![job[h].row] = PaidRow(job[h].user, job[h].event)]
    /\ currentProduct' = [currentProduct EXCEPT
                            ![job[h].user] = job[h].event.price]

MarkPastDue(h) ==
    /\ Written(h, "invoice.payment_failed")
    /\ billings' = [billings EXCEPT ![job[h].row].status = "past_due"]
    /\ UNCHANGED currentProduct

\* Fault: the product is written whether or not its price was found.
UpdatedRowUnguarded(b, e) ==
    [b EXCEPT !.productId = e.price, !.status = e.status, !.expiresAt = e.end]

\* Fault: expiresAt is not written.
UpdatedRowKeepingExpiry(b, e) ==
    [b EXCEPT !.productId = IF e.price = NoProduct THEN @ ELSE e.price,
              !.status = e.status]

UpdatedRow(b, e) ==
    [b EXCEPT !.productId = IF e.price = NoProduct THEN @ ELSE e.price,
              !.status = e.status,
              !.expiresAt = e.end]

\* Fault: a plan change does not reach the user.
UpdatedProductIgnored(h) ==
    IF job[h].event.status \in Ended THEN FreeTier
    ELSE currentProduct[job[h].user]

\* The product is compared with the one read before the transaction.
UpdatedProduct(h) ==
    LET e == job[h].event IN
    IF e.status \in Ended THEN FreeTier
    ELSE IF e.price # NoProduct /\ e.price # job[h].product THEN e.price
    ELSE currentProduct[job[h].user]

UpdateSubscription(h) ==
    /\ Written(h, "customer.subscription.updated")
    /\ billings' = [billings EXCEPT
                      ![job[h].row] = UpdatedRow(@, job[h].event)]
    /\ currentProduct' = [currentProduct EXCEPT
                            ![job[h].user] = UpdatedProduct(h)]

\* Fault: the ended billing loses its product.
DeleteSubscriptionClearing(h) ==
    /\ Written(h, "customer.subscription.deleted")
    /\ billings' = [billings EXCEPT ![job[h].row].status = "canceled",
                                    ![job[h].row].productId = NoProduct]
    /\ currentProduct' = [currentProduct EXCEPT ![job[h].user] = FreeTier]

\* expiresAt is the time at which the UPDATE was sent: by the COMMIT the
\* clock may have moved on.
DeleteSubscription(h) ==
    /\ Written(h, "customer.subscription.deleted")
    /\ \E t \in 0 .. now :
         billings' = [billings EXCEPT ![job[h].row].status = "canceled",
                                      ![job[h].row].expiresAt = t]
    /\ currentProduct' = [currentProduct EXCEPT ![job[h].user] = FreeTier]

Write(h) ==
    \/ CreateBilling(h)
    \/ RenewBilling(h)
    \/ MarkPastDue(h)
    \/ UpdateSubscription(h)
    \/ DeleteSubscription(h)

\* The 200, sent after everything the event does is committed.
Reply(h) ==
    /\ job[h].pc = "reply"
    /\ job' = [job EXCEPT ![h] = Idle]
    /\ UNCHANGED <<db, sweep, now>>

-----------------------------------------------------------------------------
(* Signing in, signing in with Google and refreshing a token all begin     *)
(* with the expiry check, and downgrade in a later step.                   *)

HasExpiredSubscription(c, u) ==
    /\ sweep[c] = NoUser
    /\ \E r \in RowsOf(u) : Expired(r)
    /\ sweep' = [sweep EXCEPT ![c] = u]
    /\ UNCHANGED <<db, job, now>>

DowngradeToFreeTier(c) ==
    /\ sweep[c] # NoUser
    /\ currentProduct' = [currentProduct EXCEPT ![sweep[c]] = FreeTier]
    /\ sweep' = [sweep EXCEPT ![c] = NoUser]
    /\ UNCHANGED <<email, billings, job, now>>

\* A query of the request rejects: tRPC answers 500 and nothing is written.
SignInFails(c) ==
    /\ sweep[c] # NoUser
    /\ sweep' = [sweep EXCEPT ![c] = NoUser]
    /\ UNCHANGED <<db, job, now>>

-----------------------------------------------------------------------------

Environment ==
    \/ Tick
    \/ \E u \in User, m \in Email : ChangeEmail(u, m)
    \/ Crash

Webhook(h) ==
    \/ \E e \in Event : Deliver(h, e) \/ RejectInvoice(h, e)
    \/ FindUser(h) \/ UnknownUser(h)
    \/ FindBilling(h) \/ FindNoBilling(h)
    \/ Write(h)
    \/ Reply(h)

Session(c) ==
    \/ \E u \in User : HasExpiredSubscription(c, u)
    \/ DowngradeToFreeTier(c)
    \/ SignInFails(c)

Next ==
    \/ Environment
    \/ \E h \in Handler : Webhook(h)
    \/ \E c \in SignIn : Session(c)

Spec == Init /\ [][Next]_vars

-----------------------------------------------------------------------------
(* What a request in flight knows about the tables.                        *)

\* A handler about to write by the id of a billing holds the id of a row
\* that exists and the right owner: rows are never deleted and never change
\* hands, so ids stay good however long the handler was delayed.
JobOK(h) ==
    /\ job[h].pc = "idle" <=> job[h].event = NoEvent
    /\ job[h].pc = "findUser" => job[h].event.type = "invoice.paid"
    /\ job[h].pc \in {"findUser", "findBilling"} => job[h].row = NoRow
    /\ job[h].pc \in {"findUser", "findBilling", "write"} =>
         /\ job[h].event.type # "other"
         /\ IsInvoice(job[h].event) => job[h].event.sub \in Subscription
         /\ job[h].event.type = "invoice.paid" =>
              job[h].event.price # NoProduct
    /\ (job[h].pc \in {"findBilling", "write"} /\ job[h].event.type = "invoice.paid")
         => job[h].user \in User
    /\ job[h].pc = "write" =>
         /\ job[h].row = NoRow => job[h].event.type = "invoice.paid"
         /\ job[h].row # NoRow =>
              /\ job[h].row \in DOMAIN billings
              /\ billings[job[h].row].userId = job[h].user

JobsOK == \A h \in Handler : JobOK(h)

\* A user on a paid product has a billing that is neither canceled nor
\* unpaid.  Every transaction that ends a billing downgrades its owner, and
\* no interleaving, repeated or reordered event, lost answer or restart can
\* separate the two writes.
Backed ==
    \A u \in User : currentProduct[u] # FreeTier =>
        \E r \in RowsOf(u) : billings[r].status \notin Ended

\* registerUserBilling reads "no billing yet" before its transaction and
\* billings.user_id is not unique, so overlapping first payments insert one
\* row each.  A user never has more rows than webhooks that can overlap.
RowsBounded ==
    \A u \in User : Cardinality(RowsOf(u)) <= Cardinality(Handler)

-----------------------------------------------------------------------------
(* What holds as long as the webhooks of one customer do not overlap       *)
(* (Apart): each finds the customer's rows as it read them.                *)

\* A paid product is the product of a live billing of the user.  It depends
\* on UpdateSubscription comparing with the product it read: a billing
\* changed in between by another webhook leaves the user on the other product.
ProductMatchesBilling ==
    \A u \in User : currentProduct[u] # FreeTier =>
        \E r \in RowsOf(u) : /\ billings[r].productId = currentProduct[u]
                             /\ billings[r].status \notin Ended

\* After a second subscription replaced the first, late events of the first
\* change nothing: whatever a webhook other than invoice.paid changes is a
\* billing that carries its subscription, and the owner of such a billing.
OldSubscriptionInert ==
    [][\A h \in Handler :
         (/\ job[h].pc = "write" /\ job'[h].pc = "reply"
          /\ job[h].event.type # "invoice.paid") =>
             /\ \A r \in DOMAIN billings : billings'[r] # billings[r] =>
                   billings[r].sub = job[h].event.sub
             /\ \A u \in User : currentProduct'[u] # currentProduct[u] =>
                   \E r \in RowsOf(u) : billings[r].sub = job[h].event.sub]_vars

\* No two webhooks of one customer stand between reading the customer's billing
\* and writing it; those of different customers overlap as they please.
Apart ==
    \A g, h \in Handler :
      job[g].pc = "write" /\ job[h].pc = "write" /\ job[g].user = job[h].user => g = h

\* Billing as long as that is so, which nothing in the code sees to.
ApartSpec == Init /\ [][Next /\ Apart']_vars

\* NoRow also stands for "no plan", and is none.
ASSUME NoPlanAssumption ==
    NoRow \notin [productId : Product, sub : Subscription,
                  status : Status, expiresAt : Nat]

\* The user's billing seen as the plan of Entitlement.
PlanOf(u) ==
    IF RowsOf(u) = {} THEN NoRow
    ELSE LET b == billings[CHOOSE r \in RowsOf(u) : TRUE]
         IN  [productId |-> b.productId, sub |-> b.sub,
              status |-> b.status, expiresAt |-> b.expiresAt]

Ideal == INSTANCE Entitlement WITH
            plan <- [u \in User |-> PlanOf(u)],
            product <- currentProduct,
            NoPlan <- NoRow

\* Webhooks that are Apart implement the indivisible steps of Entitlement:
\* no sign-in, crash or repeated delivery shows.
ImplementsEntitlement == Ideal!Spec

-----------------------------------------------------------------------------

\* The controller's test says of an invoice.paid whose product is not found:
\* "should throw error when product is not found".  The code logs it and
\* leaves the switch, and the invoice is acknowledged.
UnknownPriceRejected ==
    \A h \in Handler : ~ /\ job[h].pc = "reply"
                         /\ job[h].event.type = "invoice.paid"
                         /\ job[h].event.price = NoProduct

=============================================================================
