---------------------------- MODULE StripeBilling ----------------------------
(***************************************************************************)
(* Billing closed with Stripe: the life of each subscription, the webhook  *)
(* events it creates, and Stripe's at-least-once delivery.                 *)
(*                                                                         *)
(* Stripe is not part of the repository.  Its subscriptions are modelled   *)
(* from the events and fields the controller uses: a checkout creates a    *)
(* subscription and its first paid invoice, a period that ends moves       *)
(* current_period_end at once and leaves an invoice to be paid, and an     *)
(* unpaid one makes the subscription past_due.                             *)
(***************************************************************************)
EXTENDS Billing

CONSTANTS EmailOf,    \* the e-mail of each subscription's Stripe customer
          Period,     \* the billing period
          MaxEvents,  \* bound on the events Stripe creates
          InOrder     \* whether events are sent oldest first

ASSUME EmailOfAssumption == EmailOf \in [Subscription -> Email]
ASSUME BoundAssumption == Period \in Nat \ {0} /\ MaxEvents \in Nat
ASSUME InOrderAssumption == InOrder \in BOOLEAN

\* The events that a subscription's life can make Stripe create.
StripeEvent == [id : 1 .. MaxEvents,
                type : EventType,
                sub : Subscription \cup {NoSubscription},
                email : Email,
                price : (Product \ {FreeTier}) \cup {NoProduct},
                status : Status,
                end : 0 .. MaxTime + Period]

ASSUME StripeEventAssumption == StripeEvent \subseteq Event

VARIABLES stripe,   \* the subscriptions at Stripe
          pending,  \* events Stripe has had no 200 for
          created   \* how many events Stripe has created

stripeVars == <<stripe, pending, created>>
allVars == <<vars, stripeVars>>

SubscriptionState ==
    [state : {"none", "active", "past_due", "canceled"},
     product : Product, end : Nat,
     due : BOOLEAN]   \* an invoice for the current period is still to be paid

\* Beside the tables, every event Stripe holds is one the handler knows.
StripeTypeOK ==
    /\ TypeOK
    /\ stripe \in [Subscription -> SubscriptionState]
    /\ pending \subseteq Event
    /\ created \in 0 .. MaxEvents

StripeInit ==
    /\ Init
    /\ stripe = [s \in Subscription |->
                   [state |-> "none", product |-> FreeTier,
                    end |-> 0, due |-> FALSE]]
    /\ pending = {}
    /\ created = 0

\* Stripe changes subscription s into t and creates an event that shows it.
Create(type, s, t) ==
    /\ created < MaxEvents
    /\ stripe' = [stripe EXCEPT ![s] = t]
    /\ created' = created + 1
    /\ pending' = pending \cup
         {[id |-> created + 1, type |-> type, sub |-> s, email |-> EmailOf[s],
           price |-> t.product,
           status |-> t.state, end |-> t.end]}
    /\ UNCHANGED vars

Running(s) == stripe[s].state \in {"active", "past_due"}

\* A completed checkout: the first invoice is paid.
Checkout(s, p) ==
    /\ stripe[s].state = "none"
    /\ Create("invoice.paid", s, [state |-> "active", product |-> p,
                                  end |-> now + Period, due |-> FALSE])

\* The customer portal.  A change while an invoice for the old price is open
\* is left out.
ChangePlan(s, p) ==
    /\ stripe[s].state = "active"
    /\ ~ stripe[s].due
    /\ p # stripe[s].product
    /\ Create("customer.subscription.updated", s,
              [stripe[s] EXCEPT !.product = p])

PeriodEnds(s) ==
    /\ Running(s) /\ ~ stripe[s].due
    /\ stripe[s].end <= now
    /\ Create("customer.subscription.updated", s,
              [stripe[s] EXCEPT !.end = @ + Period, !.due = TRUE])

PayInvoice(s) ==
    /\ Running(s) /\ stripe[s].due
    /\ Create("invoice.paid", s,
              [stripe[s] EXCEPT !.state = "active", !.due = FALSE])

FailInvoice(s) ==
    /\ stripe[s].state = "active" /\ stripe[s].due
    /\ Create("invoice.payment_failed", s,
              [stripe[s] EXCEPT !.state = "past_due"])

Cancel(s) ==
    /\ Running(s)
    /\ Create("customer.subscription.deleted", s,
              [stripe[s] EXCEPT !.state = "canceled", !.due = FALSE])

\* A failed invoice that belongs to no subscription.
FailOneOffInvoice(m) ==
    /\ created < MaxEvents
    /\ created' = created + 1
    /\ pending' = pending \cup
         {[id |-> created + 1, type |-> "invoice.payment_failed",
           sub |-> NoSubscription, email |-> m, price |-> NoProduct,
           status |-> "active", end |-> now]}
    /\ UNCHANGED <<vars, stripe>>

Stripe ==
    \/ \E m \in Email : FailOneOffInvoice(m)
    \/ \E s \in Subscription :
         \/ \E p \in Product \ {FreeTier} : Checkout(s, p) \/ ChangePlan(s, p)
         \/ PeriodEnds(s) \/ PayInvoice(s) \/ FailInvoice(s) \/ Cancel(s)

-----------------------------------------------------------------------------
(* Delivery.  An event stays with Stripe until a 200 arrives; it can be    *)
(* sent again while an earlier delivery is still being handled.            *)

Sendable(e) ==
    /\ e \in pending
    /\ InOrder => \A f \in pending : e.id <= f.id

\* Fault: the 200 is sent on receipt, before the event is handled.
SendAnsweredFirst(h, e) ==
    /\ Sendable(e)
    /\ Deliver(h, e) \/ RejectInvoice(h, e)
    /\ pending' = pending \ {e}
    /\ UNCHANGED <<stripe, created>>

Send(h, e) ==
    /\ Sendable(e)
    /\ Deliver(h, e) \/ RejectInvoice(h, e)
    /\ UNCHANGED stripeVars

\* The handler's steps between delivery and answer.
Handle(h) ==
    /\ \/ FindUser(h) \/ UnknownUser(h)
       \/ FindBilling(h) \/ FindNoBilling(h)
       \/ Write(h)
    /\ UNCHANGED stripeVars

Acknowledge(h) ==
    /\ Reply(h)
    /\ pending' = pending \ {job[h].event}
    /\ UNCHANGED <<stripe, created>>

\* The answer is lost or comes after Stripe's timeout.
LoseAnswer(h) == Reply(h) /\ UNCHANGED stripeVars

Surroundings ==
    /\ \/ Tick \/ Crash
       \/ \E u \in User, m \in Email : ChangeEmail(u, m)
       \/ \E c \in SignIn : Session(c)
    /\ UNCHANGED stripeVars

StripeNext ==
    \/ Stripe
    \/ \E h \in Handler :
         \/ \E e \in pending : Send(h, e)
         \/ Handle(h) \/ Acknowledge(h) \/ LoseAnswer(h)
    \/ Surroundings

StripeSpec == StripeInit /\ [][StripeNext]_allVars

-----------------------------------------------------------------------------
\* Nothing is left of the subscriptions' events.
AtRest ==
    /\ \A e \in pending : e.sub = NoSubscription
    /\ \A h \in Handler : job[h].pc = "idle"

\* Once everything is delivered, oldest first and one webhook at a time, and
\* nobody signed in with an expired billing, the tables say what Stripe says:
\* each billing row has its subscription's status, product and period end,
\* and its owner is on that product, or on the free tier after the end.
\* Lost answers, repeated deliveries and restarts on the way do not matter.
TablesAgree ==
    AtRest => \A r \in DOMAIN billings :
        LET b == billings[r]
            t == stripe[b.sub]
        IN  /\ b.status = t.state
            /\ t.state # "canceled" =>
                 b.productId = t.product /\ b.expiresAt = t.end
            /\ currentProduct[b.userId] =
                 IF t.state = "canceled" THEN FreeTier ELSE t.product

\* A 200 is only sent for what is in the tables: once Stripe has nothing
\* left to send, whoever bought a subscription has a billing row, even when
\* events came out of order and processes died on the way.
NoPaymentLost ==
    AtRest => \A s \in Subscription : stripe[s].state # "none" =>
        \E u \in User : email[u] = EmailOf[s] /\ RowsOf(u) # {}

-----------------------------------------------------------------------------
(* Stripe retries for days, and the process manager restarts the process:  *)
(* no step is struck by a crash or a lost answer at every attempt.         *)

SendEvent(i) == \E h \in Handler, e \in pending : e.id = i /\ Send(h, e)

Fairness ==
    /\ \A i \in 1 .. MaxEvents : SF_allVars(SendEvent(i))
    /\ SF_allVars(\E h \in Handler : FindUser(h) /\ UNCHANGED stripeVars)
    /\ SF_allVars(\E h \in Handler :
                    (FindBilling(h) \/ FindNoBilling(h)) /\ UNCHANGED stripeVars)
    /\ SF_allVars(\E h \in Handler : Write(h) /\ UNCHANGED stripeVars)
    /\ SF_allVars(\E h \in Handler : Acknowledge(h))

FairStripeSpec == StripeSpec /\ Fairness

\* Every event of a subscription is handled to the end some day, although
\* an invoice the handler rejects is sent again and again and takes every
\* other request down each time.  It needs every customer's e-mail to be
\* some user's: an invoice for an unknown address is rejected for ever too.
EveryEventHandled ==
    \A i \in 1 .. MaxEvents :
        (\E e \in pending : e.id = i /\ e.sub \in Subscription)
            ~> (\A e \in pending : e.id # i)

=============================================================================
