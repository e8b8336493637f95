------------------------- MODULE StripeBillingProofs -------------------------
(***************************************************************************)
(* Proofs about StripeBilling for every set of users, products,            *)
(* subscriptions and rows, every clock, period and number of events.       *)
(*                                                                         *)
(* Closed with Stripe the tables are still those of Billing, so that what  *)
(* BillingProofs and SerialBillingProofs prove holds here too.  What needs *)
(* Stripe's half is proved from what an event says of the subscription it  *)
(* was created by (Made), and, when events come in order, from the queue   *)
(* of a subscription's events: the last shows the subscription as it is,   *)
(* each can be applied to what the one before it left behind.              *)
(***************************************************************************)
EXTENDS StripeBilling, SerialBillingProofs

USE FreeTierAssumption, NullAssumption, EventAssumption, MaxTimeAssumption,
    EmailOfAssumption, BoundAssumption, InOrderAssumption, StripeEventAssumption

\* A status that goes with the type of an event.
TypeShows(type, status) ==
    \/ type = "invoice.paid" /\ status = "active"
    \/ type = "customer.subscription.updated" /\ status \in {"active", "past_due"}
    \/ type = "invoice.payment_failed" /\ status = "past_due"
    \/ type = "customer.subscription.deleted" /\ status = "canceled"

\* What Stripe's events are known by: one of a subscription has its customer
\* and a product, any other is a failed invoice.
Made(e) ==
    IF e.sub \in Subscription
    THEN /\ e.email = EmailOf[e.sub]
         /\ e.price # NoProduct
         /\ TypeShows(e.type, e.status)
    ELSE e.type = "invoice.payment_failed"

\* The subscription as the event shows it.
Shows(e, t) == t.state = e.status /\ t.product = e.price /\ t.end = e.end

\* An event that changes one field only was preceded by one, or by a state,
\* that has the others; only a payment starts a subscription.
Linked(state, product, end, f) ==
    /\ f.type \in {"invoice.payment_failed", "customer.subscription.updated"}
         => state # "canceled"
    /\ f.type = "invoice.payment_failed" => product = f.price /\ end = f.end

StateOK(s) ==
    /\ stripe[s] \in SubscriptionState
    /\ stripe[s].end <= MaxTime + Period
    /\ stripe[s].state # "none" => stripe[s].product # FreeTier

EventOK(e) ==
    /\ e \in StripeEvent
    /\ e.id <= created
    /\ Made(e)

StripeOK ==
    /\ stripe \in [Subscription -> SubscriptionState]
    /\ \A s \in Subscription : StateOK(s)
    /\ \A e \in pending : EventOK(e)
    /\ created \in 0 .. MaxEvents

-----------------------------------------------------------------------------
(* What Stripe does, said once for its six actions: it creates event n.    *)

Creates(n) ==
    /\ created < MaxEvents /\ created' = created + 1
    /\ n \in StripeEvent /\ n.id = created + 1 /\ Made(n)
    /\ pending' = pending \cup {n}
    /\ UNCHANGED vars
    /\ \/ n.sub = NoSubscription /\ UNCHANGED stripe
       \/ /\ n.sub \in Subscription
          /\ stripe' = [stripe EXCEPT ![n.sub] = stripe'[n.sub]]
          /\ StateOK(n.sub)' /\ Shows(n, stripe'[n.sub])
          /\ Linked(stripe[n.sub].state, stripe[n.sub].product,
                    stripe[n.sub].end, n)
          /\ stripe[n.sub].state = "none" => n.type = "invoice.paid"

LEMMA CreateCreates ==
  ASSUME StripeOK, TypeOK, NEW s \in Subscription, NEW type \in EventType,
         NEW t \in SubscriptionState, Create(type, s, t),
         t.end <= MaxTime + Period, t.product # FreeTier,
         TypeShows(type, t.state),
         type \in {"invoice.payment_failed", "customer.subscription.updated"}
           => stripe[s].state # "canceled",
         type = "invoice.payment_failed" =>
           stripe[s].product = t.product /\ stripe[s].end = t.end,
         stripe[s].state = "none" => type = "invoice.paid"
  PROVE  \E n \in StripeEvent : Creates(n)
<1> DEFINE n == [id |-> created + 1, type |-> type, sub |-> s,
                 email |-> EmailOf[s], price |-> t.product,
                 status |-> t.state, end |-> t.end]
<1>1. /\ created < MaxEvents /\ created' = created + 1
      /\ pending' = pending \cup {n} /\ UNCHANGED vars
      /\ stripe' = [stripe EXCEPT ![s] = t]
  BY DEF Create
<1>2. /\ t.product \in Product \ {FreeTier} /\ t.end \in 0 .. MaxTime + Period
      /\ t.product # NoProduct
  BY DEF SubscriptionState
<1>3. t.state \in Status /\ created + 1 \in 1 .. MaxEvents
  BY <1>1 DEF TypeShows, Status, StripeOK
<1>4. n \in StripeEvent
  BY <1>2, <1>3 DEF StripeEvent
<1>5. /\ n.id = created + 1 /\ n.type = type /\ n.sub = s /\ n.email = EmailOf[s]
      /\ n.price = t.product /\ n.status = t.state /\ n.end = t.end
  OBVIOUS
<1> HIDE DEF n
<1>6. stripe'[s] = t /\ stripe' = [stripe EXCEPT ![s] = stripe'[s]]
  BY <1>1 DEF StripeOK
<1>7. Made(n)
  BY <1>2, <1>5 DEF Made
<1>8. StateOK(s)' /\ Shows(n, stripe'[s])
  BY <1>5, <1>6 DEF StateOK, Shows
<1>9. Linked(stripe[s].state, stripe[s].product, stripe[s].end, n)
  BY <1>5 DEF Linked
<1> QED BY <1>1, <1>4, <1>5, <1>6, <1>7, <1>8, <1>9 DEF Creates

LEMMA StripeCreates ==
  ASSUME StripeOK, TypeOK, Stripe
  PROVE  \E n \in StripeEvent : Creates(n)
<1> USE DEF EventType, SubscriptionState, TypeShows
<1>0. now \in 0 .. MaxTime
  BY DEF TypeOK
<1>1. ASSUME NEW m \in Email, FailOneOffInvoice(m)
      PROVE  \E n \in StripeEvent : Creates(n)
  <2> DEFINE n == [id |-> created + 1, type |-> "invoice.payment_failed",
                   sub |-> NoSubscription, email |-> m, price |-> NoProduct,
                   status |-> "active", end |-> now]
  <2>1. n \in StripeEvent
    BY <1>0, <1>1 DEF FailOneOffInvoice, StripeEvent, Status, StripeOK
  <2>2. Creates(n)
    BY <1>1, <2>1 DEF FailOneOffInvoice, Creates, Made
  <2> QED BY <2>1, <2>2
<1>2. ASSUME NEW s \in Subscription
      PROVE  /\ stripe[s] \in SubscriptionState
             /\ stripe[s].end <= MaxTime + Period
             /\ stripe[s].state # "none" => stripe[s].product # FreeTier
  BY <1>2 DEF StripeOK, StateOK
<1>3. ASSUME NEW s \in Subscription, NEW p \in Product \ {FreeTier}, Checkout(s, p)
      PROVE  \E n \in StripeEvent : Creates(n)
  <2> DEFINE t == [state |-> "active", product |-> p, end |-> now + Period,
                   due |-> FALSE]
  <2>1. /\ t \in SubscriptionState /\ t.end <= MaxTime + Period
        /\ t.product # FreeTier /\ t.state = "active"
    BY <1>0
  <2>2. Create("invoice.paid", s, t) /\ stripe[s].state = "none"
    BY <1>3 DEF Checkout
  <2> HIDE DEF t
  <2> QED BY <2>1, <2>2, CreateCreates
<1>4. ASSUME NEW s \in Subscription, NEW p \in Product \ {FreeTier}, ChangePlan(s, p)
      PROVE  \E n \in StripeEvent : Creates(n)
  <2> DEFINE t == [stripe[s] EXCEPT !.product = p]
  <2>1. /\ t \in SubscriptionState /\ t.end = stripe[s].end
        /\ t.product = p /\ t.state = stripe[s].state
    BY <1>2
  <2>2. Create("customer.subscription.updated", s, t) /\ stripe[s].state = "active"
    BY <1>4 DEF ChangePlan
  <2> HIDE DEF t
  <2> QED BY <1>2, <2>1, <2>2, CreateCreates
<1>5. ASSUME NEW s \in Subscription, PeriodEnds(s)
      PROVE  \E n \in StripeEvent : Creates(n)
  <2> DEFINE t == [stripe[s] EXCEPT !.end = @ + Period, !.due = TRUE]
  <2>1. stripe[s].end + Period \in Nat /\ stripe[s].end <= now
    BY <1>2, <1>5 DEF PeriodEnds
  <2>2. /\ t \in SubscriptionState /\ t.end = stripe[s].end + Period
        /\ t.product = stripe[s].product /\ t.state = stripe[s].state
    BY <1>2, <2>1
  <2>3. Create("customer.subscription.updated", s, t)
        /\ stripe[s].state \in {"active", "past_due"}
    BY <1>5 DEF PeriodEnds, Running
  <2> HIDE DEF t
  <2> QED BY <1>0, <1>2, <2>1, <2>2, <2>3, CreateCreates
<1>6. ASSUME NEW s \in Subscription, PayInvoice(s)
      PROVE  \E n \in StripeEvent : Creates(n)
  <2> DEFINE t == [stripe[s] EXCEPT !.state = "active", !.due = FALSE]
  <2>1. /\ t \in SubscriptionState /\ t.end = stripe[s].end
        /\ t.product = stripe[s].product /\ t.state = "active"
    BY <1>2
  <2>2. Create("invoice.paid", s, t) /\ stripe[s].state \in {"active", "past_due"}
    BY <1>6 DEF PayInvoice, Running
  <2> HIDE DEF t
  <2> QED BY <1>2, <2>1, <2>2, CreateCreates
<1>7. ASSUME NEW s \in Subscription, FailInvoice(s)
      PROVE  \E n \in StripeEvent : Creates(n)
  <2> DEFINE t == [stripe[s] EXCEPT !.state = "past_due"]
  <2>1. /\ t \in SubscriptionState /\ t.end = stripe[s].end
        /\ t.product = stripe[s].product /\ t.state = "past_due"
    BY <1>2
  <2>2. Create("invoice.payment_failed", s, t) /\ stripe[s].state = "active"
    BY <1>7 DEF FailInvoice
  <2> HIDE DEF t
  <2> QED BY <1>2, <2>1, <2>2, CreateCreates
<1>8. ASSUME NEW s \in Subscription, Cancel(s)
      PROVE  \E n \in StripeEvent : Creates(n)
  <2> DEFINE t == [stripe[s] EXCEPT !.state = "canceled", !.due = FALSE]
  <2>1. /\ t \in SubscriptionState /\ t.end = stripe[s].end
        /\ t.product = stripe[s].product /\ t.state = "canceled"
    BY <1>2
  <2>2. Create("customer.subscription.deleted", s, t)
        /\ stripe[s].state \in {"active", "past_due"}
    BY <1>8 DEF Cancel, Running
  <2> HIDE DEF t
  <2> QED BY <1>2, <2>1, <2>2, CreateCreates
<1> QED BY <1>1, <1>3, <1>4, <1>5, <1>6, <1>7, <1>8 DEF Stripe

-----------------------------------------------------------------------------
(* Billing, closed with Stripe.                                            *)

LEMMA StripeOKInit == StripeInit => StripeOK
<1> SUFFICES ASSUME StripeInit PROVE StripeOK
  OBVIOUS
<1> DEFINE t == [state |-> "none", product |-> FreeTier, end |-> 0, due |-> FALSE]
<1>1. t \in SubscriptionState /\ t.state = "none" /\ t.end = 0
  BY DEF SubscriptionState
<1>2. stripe = [s \in Subscription |-> t]
  BY DEF StripeInit
<1> HIDE DEF t
<1>3. \A s \in Subscription : StateOK(s)
  BY <1>1, <1>2 DEF StateOK
<1>4. stripe \in [Subscription -> SubscriptionState]
  BY <1>1, <1>2
<1>5. pending = {} /\ created = 0
  BY DEF StripeInit
<1> QED BY <1>3, <1>4, <1>5 DEF StripeOK

\* What is not Stripe's own doing takes at most an event from pending.
LEMMA NotStripe ==
  ASSUME [StripeNext]_allVars, ~ Stripe
  PROVE  UNCHANGED <<stripe, created>> /\ pending' \subseteq pending
BY DEF StripeNext, Send, Handle, Acknowledge, LoseAnswer, Surroundings,
       allVars, stripeVars

LEMMA StripeOKStep ==
  ASSUME StripeOK, TypeOK, [StripeNext]_allVars
  PROVE  StripeOK'
<1>1. CASE ~ Stripe
  <2>1. UNCHANGED <<stripe, created>> /\ pending' \subseteq pending
    BY <1>1, NotStripe
  <2> QED BY <2>1 DEF StripeOK, StateOK, EventOK
<1>2. CASE Stripe
  <2>1. PICK n \in StripeEvent : Creates(n)
    BY <1>2, StripeCreates
  <2>2. created' \in 0 .. MaxEvents /\ created' = created + 1
    BY <2>1 DEF Creates, StripeOK
  <2>3. \A e \in pending' : EventOK(e)'
    BY <2>1, <2>2 DEF Creates, StripeOK, EventOK, StripeEvent
  <2>4. CASE n.sub = NoSubscription
    BY <2>1, <2>2, <2>3, <2>4 DEF Creates, StripeOK, StateOK
  <2>5. CASE n.sub \in Subscription
    <3>1. /\ stripe' = [stripe EXCEPT ![n.sub] = stripe'[n.sub]]
          /\ StateOK(n.sub)'
      BY <2>1, <2>5 DEF Creates
    <3>2. \A s \in Subscription \ {n.sub} : stripe'[s] = stripe[s]
      BY <3>1 DEF StripeOK
    <3>3. \A s \in Subscription : StateOK(s)'
      BY <3>1, <3>2 DEF StripeOK, StateOK
    <3>4. stripe' \in [Subscription -> SubscriptionState]
      BY <2>5, <3>1, <3>3 DEF StripeOK, StateOK
    <3> QED BY <2>2, <2>3, <3>3, <3>4 DEF StripeOK
  <2> QED BY <2>1, <2>4, <2>5 DEF StripeEvent
<1> QED BY <1>1, <1>2

\* Every step is one of Billing, or Stripe's own.
LEMMA StepIsBillings ==
  ASSUME StripeOK, TypeOK, [StripeNext]_allVars
  PROVE  [Next]_vars
<1>1. CASE Stripe
  BY <1>1, StripeCreates DEF Creates
<1>2. ASSUME NEW h \in Handler, NEW e \in pending, Send(h, e)
      PROVE  Next
  <2>1. e \in Event
    BY DEF StripeOK, EventOK
  <2> QED BY <1>2, <2>1 DEF Send, Next, Webhook
<1>3. ASSUME NEW h \in Handler, Handle(h) \/ Acknowledge(h) \/ LoseAnswer(h)
      PROVE  Next
  BY <1>3 DEF Handle, Acknowledge, LoseAnswer, Next, Webhook
<1>4. CASE Surroundings
  BY <1>4 DEF Surroundings, Next, Environment
<1>5. CASE UNCHANGED allVars
  BY <1>5 DEF allVars
<1> QED BY <1>1, <1>2, <1>3, <1>4, <1>5 DEF StripeNext

Base == TypeOK /\ JobsOK /\ StripeOK

LEMMA BaseInit == StripeInit => Base
  BY StripeOKInit, TypeInit, JobsInit DEF StripeInit, Base

LEMMA BaseStep == Base /\ [StripeNext]_allVars => Base'
  BY StripeOKStep, StepIsBillings, TypeStep, JobsStep DEF Base

\* The tables keep their types, and whatever Stripe makes of a subscription,
\* each event it creates is one the handler knows, with a period end that is
\* bounded although every period moves it.
THEOREM StripeTypeCorrect == StripeSpec => []StripeTypeOK
<1>1. Base => StripeTypeOK
  BY DEF Base, StripeOK, EventOK, StripeTypeOK
<1> QED BY <1>1, BaseInit, BaseStep, PTL DEF StripeSpec

\* Closed with Stripe the system implements Billing: what is proved there of
\* any events in any order is true of those Stripe sends, with its retries.
THEOREM StripeImplementsBilling == StripeSpec => Spec
<1>1. StripeInit => Init
  BY DEF StripeInit
<1>2. Base /\ [StripeNext]_allVars => [Next]_vars
  BY StepIsBillings DEF Base
<1> QED BY <1>1, <1>2, BaseInit, BaseStep, PTL DEF StripeSpec, Spec

-----------------------------------------------------------------------------
(* No payment is lost, whatever the order and the number of webhooks, as   *)
(* long as customers keep their e-mail: the 200 of a payment is sent when  *)
(* its customer has a billing, and a billing is never deleted.             *)

EmailsStay == [][UNCHANGED email]_email

Owned(s) == \E u \in User : email[u] = EmailOf[s] /\ RowsOf(u) # {}

Paying(s) == \E e \in pending : e.sub = s /\ e.type = "invoice.paid"

\* What webhook h knows of the payment it is about.
JobKnows(h) ==
    job[h].pc # "idle" =>
      /\ job[h].event.sub \in Subscription
      /\ Made(job[h].event)
      /\ job[h].event.type = "invoice.paid" =>
           /\ job[h].pc \in {"findBilling", "write"} =>
                email[job[h].user] = job[h].event.email
           /\ job[h].pc = "reply" => Owned(job[h].event.sub)

Recorded ==
    /\ \A h \in Handler : JobKnows(h)
    /\ \A s \in Subscription :
         stripe[s].state # "none" => Paying(s) \/ Owned(s)

LEMMA RecordedInit == StripeInit => Recorded
<1> SUFFICES ASSUME StripeInit PROVE Recorded
  OBVIOUS
<1>1. \A h \in Handler : job[h] = Idle
  BY DEF StripeInit, Init
<1>2. \A s \in Subscription : stripe[s].state = "none"
  BY DEF StripeInit
<1> QED BY <1>1, <1>2 DEF Recorded, JobKnows, Idle

LEMMA OwnedKept ==
  ASSUME Base, [Next]_vars, UNCHANGED email, NEW s \in Subscription, Owned(s)
  PROVE  Owned(s)'
<1>1. PICK u \in User : email[u] = EmailOf[s] /\ RowsOf(u) # {}
  BY DEF Owned
<1>2. RowsOf(u)' # {}
  BY <1>1, OwnersKept DEF Base
<1>3. RowsOf(u)' = {r \in DOMAIN billings' : billings'[r].userId = u}
  BY DEF RowsOf
<1> QED BY <1>1, <1>2, <1>3 DEF Owned, RowsOf

\* What a webhook knows stays true while the others run.
LEMMA KnowsKept ==
  ASSUME Base, [Next]_vars, UNCHANGED email, NEW h \in Handler,
         JobKnows(h), job'[h] = job[h]
  PROVE  JobKnows(h)'
<1>1. ASSUME NEW s \in Subscription, Owned(s) PROVE Owned(s)'
  BY <1>1, OwnedKept
<1> HIDE DEF Owned
<1> QED BY <1>1 DEF JobKnows

\* An event Stripe sends is not refused for want of a subscription, and its
\* handler looks something up first.
LEMMA DeliveredMade ==
  ASSUME NEW e, EventOK(e), ~ (IsInvoice(e) /\ e.sub = NoSubscription)
  PROVE  /\ e.sub \in Subscription /\ Made(e)
         /\ Route(e) \in {"findUser", "findBilling"}
         /\ e.type = "invoice.paid" => Route(e) = "findUser"
<1>1. e.sub \in Subscription \cup {NoSubscription} /\ Made(e)
  BY DEF EventOK, StripeEvent
<1>2. e.sub \in Subscription
  BY <1>1 DEF Made, IsInvoice
<1>3. e.price # NoProduct /\ e.type # "other"
  BY <1>1, <1>2 DEF Made, TypeShows
<1> QED BY <1>1, <1>2, <1>3 DEF Route

\* A payment that is written has given its user a billing.
LEMMA PaidOwned ==
  ASSUME Base, NEW h \in Handler, JobKnows(h), Write(h), UNCHANGED email,
         job[h].event.type = "invoice.paid",
         NEW s, s = job[h].event.sub
  PROVE  Owned(s)'
<1>1. TypeOK /\ JobsOK /\ job[h].pc = "write"
  BY WriteStarts DEF Base
<1>2. email[job[h].user] = EmailOf[s]
  BY <1>1 DEF JobKnows, Made
<1>3. job[h].user \in User
  BY <1>1, WriteContext
<1>4. RowsOf(job[h].user) # {} \/ CreateBilling(h)
  <2>1. ASSUME ~ CreateBilling(h) PROVE RowsOf(job[h].user) # {}
    <3>1. job[h].row \in DOMAIN billings
      BY <1>1, <2>1, OtherWrites DEF Rewritten
    <3>2. job[h].row # NoRow
      BY <1>1, <3>1 DEF TypeOK
    <3>3. billings[job[h].row].userId = job[h].user
      BY <1>1, <3>2, WriteContext
    <3> QED BY <3>1, <3>3 DEF RowsOf
  <2> QED BY <2>1
<1> SUFFICES ASSUME NEW u \in User, u = job[h].user
             PROVE  RowsOf(u)' # {}
  <2>1. PICK u \in User : u = job[h].user
    BY <1>3
  <2>2. RowsOf(u)' # {} => \E v \in User : email'[v] = EmailOf[s] /\ RowsOf(v)' # {}
    BY <1>2, <2>1
  <2> QED BY <2>1, <2>2 DEF Owned
<1>5. CASE CreateBilling(h)
  <2>1. PICK id \in RowId : Inserted(h, id)
    BY <1>1, <1>5, CreateInserts
  <2> QED BY <2>1 DEF Inserted, PaidRow, RowsOf
<1>6. CASE RowsOf(u) # {}
  BY <1>1, <1>6, WriteKeepsRows DEF RowsKept, RowsOf
<1> QED BY <1>4, <1>5, <1>6

LEMMA KnowsStep ==
  ASSUME Base, Recorded, [StripeNext]_allVars, UNCHANGED email
  PROVE  \A h \in Handler : JobKnows(h)'
<1> SUFFICES ASSUME NEW h \in Handler
             PROVE  JobKnows(h)'
  OBVIOUS
<1>1. [Next]_vars /\ TypeOK /\ JobsOK /\ StripeOK
  BY StepIsBillings DEF Base
<1>2. JobKnows(h) /\ job[h] \in Job /\ JobOK(h)
  BY <1>1 DEF Recorded, TypeOK, JobsOK
<1>3. ASSUME job'[h] = job[h] PROVE JobKnows(h)'
  BY <1>1, <1>2, <1>3, KnowsKept
<1>4. ASSUME job'[h] = Idle PROVE JobKnows(h)'
  BY <1>4 DEF JobKnows, Idle
<1>5. ASSUME Restart PROVE JobKnows(h)'
  BY <1>4, <1>5 DEF Restart
<1>6. CASE Stripe
  BY <1>1, <1>3, <1>6, StripeCreates DEF Creates, vars
<1>7. ASSUME NEW g \in Handler, NEW e \in pending, Send(g, e)
      PROVE  JobKnows(h)'
  <2>1. CASE RejectInvoice(g, e)
    BY <1>5, <2>1 DEF RejectInvoice
  <2>2. CASE Deliver(g, e)
    <3>1. /\ job' = [job EXCEPT ![g] = [Idle EXCEPT !.pc = Route(e), !.event = e]]
          /\ ~ (IsInvoice(e) /\ e.sub = NoSubscription)
      BY <2>2 DEF Deliver
    <3>2. /\ e.sub \in Subscription /\ Made(e)
          /\ Route(e) \in {"findUser", "findBilling"}
          /\ e.type = "invoice.paid" => Route(e) = "findUser"
      BY <1>1, <3>1, DeliveredMade DEF StripeOK
    <3>3. CASE g = h
      <4>1. job'[h].pc = Route(e) /\ job'[h].event = e
        BY <1>1, <3>1, <3>3 DEF TypeOK, Idle
      <4> QED BY <3>2, <4>1 DEF JobKnows
    <3>4. CASE g # h
      BY <1>1, <1>3, <3>1, <3>4 DEF TypeOK
    <3> QED BY <3>3, <3>4
  <2> QED BY <1>7, <2>1, <2>2 DEF Send
<1>8. ASSUME NEW g \in Handler, Handle(g)
      PROVE  JobKnows(h)'
  <2>1. CASE g # h
    <3>1. job'[h] = job[h] \/ Restart
      BY <1>1, <1>8, <2>1, WriteStarts
      DEF Handle, FindUser, UnknownUser, FindBilling, FindNoBilling, TypeOK
    <3> QED BY <1>3, <1>5, <3>1
  <2>2. CASE g = h
    <3>1. CASE FindUser(h)
      <4>1. PICK u \in User :
              /\ email[u] = job[h].event.email
              /\ job' = [job EXCEPT ![h].pc = "findBilling", ![h].user = u]
        BY <3>1 DEF FindUser
      <4>2. /\ job'[h].pc = "findBilling" /\ job'[h].user = u
            /\ job'[h].event = job[h].event /\ job[h].pc # "idle"
        BY <1>1, <1>2, <3>1, <4>1 DEF TypeOK, Job, FindUser
      <4> QED BY <1>2, <4>1, <4>2 DEF JobKnows
    <3>2. CASE UnknownUser(h)
      BY <1>5, <3>2 DEF UnknownUser
    <3>3. CASE FindBilling(h)
      <4>1. PICK r \in Matching(h) :
              job' = [job EXCEPT ![h].pc = "write", ![h].row = r,
                                 ![h].product = billings[r].productId,
                                 ![h].user = billings[r].userId]
        BY <3>3 DEF FindBilling
      <4>2. /\ job'[h].pc = "write" /\ job'[h].user = billings[r].userId
            /\ job'[h].event = job[h].event /\ job[h].pc = "findBilling"
        BY <1>1, <1>2, <3>3, <4>1 DEF TypeOK, Job, FindBilling
      <4>3. job[h].event.type = "invoice.paid" => billings[r].userId = job[h].user
        BY DEF Matching, RowsOf
      <4> QED BY <1>2, <4>2, <4>3 DEF JobKnows
    <3>4. CASE FindNoBilling(h)
      <4>1. job'[h] = [job[h] EXCEPT
                         !.pc = IF job[h].event.type = "invoice.paid"
                                THEN "write" ELSE "reply"]
        BY <1>1, <3>4 DEF FindNoBilling, TypeOK
      <4>2. /\ job'[h].user = job[h].user /\ job'[h].event = job[h].event
            /\ job[h].pc = "findBilling"
            /\ job'[h].pc = IF job[h].event.type = "invoice.paid"
                            THEN "write" ELSE "reply"
        BY <1>2, <3>4, <4>1 DEF Job, FindNoBilling
      <4> QED BY <1>2, <4>2 DEF JobKnows
    <3>5. CASE Write(h)
      <4>1. /\ job[h].pc = "write"
            /\ job'[h].pc = "reply" /\ job'[h].event = job[h].event
        BY <1>1, <1>2, <3>5, WriteStarts DEF TypeOK, Job
      <4>2. ASSUME NEW s, s = job[h].event.sub, job[h].event.type = "invoice.paid"
            PROVE  Owned(s)'
        BY <1>2, <3>5, <4>2, PaidOwned
      <4> QED BY <1>2, <4>1, <4>2 DEF JobKnows
    <3> QED BY <1>8, <2>2, <3>1, <3>2, <3>3, <3>4, <3>5 DEF Handle
  <2> QED BY <2>1, <2>2
<1>9. ASSUME NEW g \in Handler, Reply(g)
      PROVE  JobKnows(h)'
  BY <1>1, <1>3, <1>4, <1>9 DEF Reply, TypeOK
<1>10. CASE Surroundings
  BY <1>3, <1>5, <1>10
  DEF Surroundings, Tick, Crash, ChangeEmail, Session, HasExpiredSubscription,
      DowngradeToFreeTier, SignInFails
<1>11. CASE UNCHANGED allVars
  BY <1>3, <1>11 DEF allVars, vars
<1> QED BY <1>6, <1>7, <1>8, <1>9, <1>10, <1>11
        DEF StripeNext, Acknowledge, LoseAnswer

LEMMA RecordedStep ==
  ASSUME Base, Recorded, [StripeNext]_allVars, UNCHANGED email
  PROVE  Recorded'
<1>1. \A h \in Handler : JobKnows(h)'
  BY KnowsStep
<1>2. ASSUME NEW s \in Subscription, stripe'[s].state # "none"
      PROVE  Paying(s)' \/ Owned(s)'
  <2>1. [Next]_vars /\ StripeOK /\ TypeOK /\ JobsOK
    BY StepIsBillings DEF Base
  <2>2. Owned(s) => Owned(s)'
    BY <2>1, OwnedKept
  <2>3. CASE Stripe
    <3>1. PICK n \in StripeEvent : Creates(n)
      BY <2>1, <2>3, StripeCreates
    <3>2. CASE stripe[s].state # "none"
      BY <2>2, <3>1, <3>2 DEF Recorded, Paying, Creates
    <3>3. CASE stripe[s].state = "none"
      <4>1. n.sub = s /\ n.type = "invoice.paid"
        BY <1>2, <2>1, <3>1, <3>3 DEF Creates, StripeOK
      <4> QED BY <3>1, <4>1 DEF Paying, Creates
    <3> QED BY <3>2, <3>3
  <2>4. CASE ~ Stripe
    <3>1. Paying(s) \/ Owned(s)
      BY <1>2, <2>4, NotStripe DEF Recorded
    <3>2. ASSUME NEW h \in Handler, Acknowledge(h), Paying(s)
          PROVE  Paying(s)' \/ Owned(s)'
      <4>1. PICK e \in pending : e.sub = s /\ e.type = "invoice.paid"
        BY <3>2 DEF Paying
      <4>2. CASE e # job[h].event
        BY <3>2, <4>1, <4>2 DEF Acknowledge, Paying
      <4>3. CASE e = job[h].event
        <5>1. Owned(s)
          BY <3>2, <4>1, <4>3 DEF Acknowledge, Reply, Recorded, JobKnows
        <5> QED BY <2>2, <5>1
      <4> QED BY <4>2, <4>3
    <3>3. ASSUME UNCHANGED pending, Paying(s)
          PROVE  Paying(s)'
      BY <3>3 DEF Paying
    <3>4. (\E h \in Handler : Acknowledge(h)) \/ UNCHANGED pending
      BY <2>4 DEF StripeNext, Send, Handle, LoseAnswer, Surroundings, allVars,
                  stripeVars
    <3> QED BY <2>2, <3>1, <3>2, <3>3, <3>4
  <2> QED BY <2>3, <2>4
<1> QED BY <1>1, <1>2 DEF Recorded

\* Whoever bought a subscription and kept the e-mail has a billing once
\* Stripe has nothing left to send: events out of order, lost answers, late
\* duplicates, crashes and any number of webhooks at a time lose no payment.
THEOREM PaymentsKept == StripeSpec /\ EmailsStay => []NoPaymentLost
<1>1. Recorded => NoPaymentLost
  BY DEF Recorded, NoPaymentLost, AtRest, Paying, Owned
<1>2. Base /\ Recorded /\ [StripeNext]_allVars /\ [UNCHANGED email]_email
        => Recorded'
  BY RecordedStep
<1> QED BY <1>1, <1>2, BaseInit, BaseStep, RecordedInit, PTL
        DEF StripeSpec, EmailsStay

-----------------------------------------------------------------------------
(* In order and one at a time, the tables follow the subscriptions: each   *)
(* event finds the row as the event before it left it.                     *)

\* Webhooks one at a time, events oldest first, nobody signs in.
InTurn == OneHandler /\ InOrder /\ SignIn = {}

First(e) == \A f \in pending : f.sub = e.sub => e.id <= f.id
Newest(e) == \A f \in pending : f.sub = e.sub => f.id <= e.id
Adjacent(e, f) ==
    /\ e.sub = f.sub /\ e.id < f.id
    /\ \A g \in pending : g.sub = e.sub => g.id <= e.id \/ f.id <= g.id

Queue ==
    /\ \A e, f \in pending : e.id = f.id => e = f
    /\ \A e \in pending :
         e.sub \in Subscription /\ Newest(e) => Shows(e, stripe[e.sub])
    /\ \A e, f \in pending :
         e.sub \in Subscription /\ Adjacent(e, f)
           => Linked(e.status, e.price, e.end, f)

\* The webhook is about the oldest event there is.
Front(h) ==
    job[h].pc # "idle" =>
      /\ job[h].event \in pending
      /\ \A f \in pending : job[h].event.id <= f.id

Matches(b, state, product, end) ==
    /\ b.status = state
    /\ state # "canceled" => b.productId = product /\ b.expiresAt = end

\* What is there for e to change.
Before(b, e) ==
    /\ e.type \in {"invoice.payment_failed", "customer.subscription.updated"}
         => b.status # "canceled"
    /\ e.type = "invoice.payment_failed"
         => b.productId = e.price /\ b.expiresAt = e.end

EmailsDiffer == \A u, v \in User : email[u] = email[v] => u = v

RowOK(r) ==
    LET b == billings[r] IN
    /\ email[b.userId] = EmailOf[b.sub]
    /\ currentProduct[b.userId] =
         IF b.status = "canceled" THEN FreeTier ELSE b.productId
    /\ \A e \in pending : e.sub = b.sub /\ First(e) => Before(b, e)
    /\ (\A e \in pending : e.sub # b.sub) =>
         Matches(b, stripe[b.sub].state, stripe[b.sub].product, stripe[b.sub].end)
    /\ \A h \in Handler :
         job[h].pc = "reply" /\ job[h].event.sub = b.sub =>
           Matches(b, job[h].event.status, job[h].event.price, job[h].event.end)

InStep ==
    /\ Queue
    /\ \A h \in Handler : Front(h)
    /\ EmailsDiffer
    /\ \A r \in DOMAIN billings : RowOK(r)

Turn == Base /\ Recorded /\ SerialInv /\ InStep

LEMMA TurnInit == StripeInit => Turn
<1> SUFFICES ASSUME StripeInit PROVE Turn
  OBVIOUS
<1>1. Base /\ Recorded /\ SerialInv
  BY BaseInit, RecordedInit, SerialInit DEF StripeInit
<1>2. /\ pending = {} /\ billings = [r \in {} |-> r]
      /\ job = [h \in Handler |-> Idle] /\ EmailsDiffer
  BY DEF StripeInit, Init, EmailsDiffer
<1>3. Queue /\ \A h \in Handler : Front(h)
  BY <1>2 DEF Queue, Front, Idle
<1>4. \A r \in DOMAIN billings : RowOK(r)
  BY <1>2
<1> QED BY <1>1, <1>2, <1>3, <1>4 DEF Turn, InStep

\* Stripe adds an event at the end of its subscription's.
LEMMA CreatesQueue ==
  ASSUME StripeOK, Queue, NEW n \in StripeEvent, Creates(n)
  PROVE  Queue'
<1>1. /\ pending' = pending \cup {n} /\ n.id = created + 1 /\ created \in Nat
      /\ \A e \in pending : e.id \in Nat /\ e.id <= created /\ e \in StripeEvent
  BY DEF Creates, StripeOK, EventOK, StripeEvent
<1>2. \A e, f \in pending' : e.id = f.id => e = f
  BY <1>1 DEF Queue
<1>3. ASSUME NEW e \in pending', e.sub \in Subscription, Newest(e)'
      PROVE  Shows(e, stripe'[e.sub])
  <2>1. CASE e = n
    BY <1>3, <2>1 DEF Creates
  <2>2. CASE e # n
    <3>1. e \in pending /\ n.sub # e.sub /\ Newest(e)
      BY <1>1, <1>3, <2>2 DEF Newest
    <3>2. stripe'[e.sub] = stripe[e.sub]
      BY <1>3, <3>1 DEF Creates, StripeOK
    <3> QED BY <1>3, <3>1, <3>2 DEF Queue
  <2> QED BY <2>1, <2>2
<1>4. ASSUME NEW e \in pending', NEW f \in pending', e.sub \in Subscription,
             Adjacent(e, f)'
      PROVE  Linked(e.status, e.price, e.end, f)
  <2>1. e \in pending /\ e.sub = f.sub /\ e.id < f.id
    BY <1>1, <1>4 DEF Adjacent
  <2>2. CASE f = n
    <3>1. Newest(e)
      BY <1>1, <1>4, <2>1, <2>2 DEF Adjacent, Newest
    <3>2. Shows(e, stripe[e.sub])
      BY <1>4, <2>1, <3>1 DEF Queue
    <3>3. Linked(stripe[e.sub].state, stripe[e.sub].product,
                 stripe[e.sub].end, f)
      BY <1>4, <2>1, <2>2 DEF Creates
    <3> QED BY <3>2, <3>3 DEF Shows
  <2>3. CASE f # n
    BY <1>1, <1>4, <2>1, <2>3 DEF Queue, Adjacent
  <2> QED BY <2>2, <2>3
<1> QED BY <1>2, <1>3, <1>4 DEF Queue

\* The oldest event goes; what is next to what stays the same.
LEMMA AcknowledgeQueue ==
  ASSUME StripeOK, Queue, NEW h \in Handler, Front(h), Acknowledge(h)
  PROVE  Queue'
<1> DEFINE d == job[h].event
<1>1. /\ d \in pending /\ pending' = pending \ {d} /\ UNCHANGED stripe
      /\ \A f \in pending : d.id <= f.id
  BY DEF Acknowledge, Reply, Front
<1>2. \A e \in pending : e.id \in Nat
  BY DEF StripeOK, EventOK, StripeEvent
<1> HIDE DEF d
<1>3. ASSUME NEW e \in pending', Newest(e)' PROVE Newest(e)
  BY <1>1, <1>2, <1>3 DEF Newest
<1>4. ASSUME NEW e \in pending', NEW f \in pending', Adjacent(e, f)'
      PROVE  Adjacent(e, f)
  BY <1>1, <1>2, <1>4 DEF Adjacent
<1> QED BY <1>1, <1>3, <1>4 DEF Queue

LEMMA QueueStep ==
  ASSUME Turn, [StripeNext]_allVars
  PROVE  Queue'
<1>1. StripeOK /\ TypeOK /\ Queue /\ \A h \in Handler : Front(h)
  BY DEF Turn, Base, InStep
<1>2. CASE Stripe
  BY <1>1, <1>2, StripeCreates, CreatesQueue
<1>3. ASSUME NEW h \in Handler, Acknowledge(h) PROVE Queue'
  BY <1>1, <1>3, AcknowledgeQueue
<1>4. ASSUME UNCHANGED stripeVars PROVE Queue'
  BY <1>1, <1>4 DEF stripeVars, Queue, Newest, Adjacent
<1> QED BY <1>2, <1>3, <1>4
        DEF StripeNext, Send, Handle, LoseAnswer, Surroundings, allVars

\* The event of a webhook stays the oldest.
LEMMA FrontStep ==
  ASSUME InTurn, Turn, [StripeNext]_allVars
  PROVE  \A h \in Handler : Front(h)'
<1> SUFFICES ASSUME NEW h \in Handler PROVE Front(h)'
  OBVIOUS
<1>1. StripeOK /\ TypeOK /\ Front(h) /\ job[h] \in Job
  BY DEF Turn, Base, InStep, TypeOK
<1>2. \A g \in Handler : g = h
  BY DEF InTurn, OneHandler
<1>3. ASSUME job'[h] = Idle PROVE Front(h)'
  BY <1>3 DEF Front, Idle
<1>4. ASSUME Restart PROVE Front(h)'
  BY <1>3, <1>4 DEF Restart
<1>5. ASSUME UNCHANGED pending, job[h].pc # "idle",
             job'[h].event = job[h].event
      PROVE  Front(h)'
  BY <1>1, <1>5 DEF Front
<1>6. CASE Stripe
  <2>1. PICK n \in StripeEvent : Creates(n)
    BY <1>1, <1>6, StripeCreates
  <2>2. /\ pending' = pending \cup {n} /\ UNCHANGED job /\ n.id = created + 1
        /\ \A e \in pending : e.id \in Nat /\ e.id <= created
        /\ created \in Nat
    BY <1>1, <2>1 DEF Creates, vars, StripeOK, EventOK, StripeEvent
  <2> QED BY <1>1, <2>2 DEF Front
<1>7. ASSUME NEW e \in pending, Send(h, e) PROVE Front(h)'
  <2>1. CASE RejectInvoice(h, e)
    BY <1>4, <2>1 DEF RejectInvoice
  <2>2. CASE Deliver(h, e)
    <3>1. job'[h].event = e
      BY <1>1, <2>2 DEF Deliver, TypeOK, Idle
    <3>2. UNCHANGED pending /\ \A f \in pending : e.id <= f.id
      BY <1>7 DEF Send, stripeVars, Sendable, InTurn
    <3> QED BY <3>1, <3>2 DEF Front
  <2> QED BY <1>7, <2>1, <2>2 DEF Send
<1>8. CASE Handle(h)
  <2>1. UNCHANGED pending
    BY <1>8 DEF Handle, stripeVars
  <2>2. CASE UnknownUser(h)
    BY <1>4, <2>2 DEF UnknownUser
  <2>3. CASE FindUser(h)
    BY <1>1, <1>5, <2>1, <2>3 DEF FindUser, TypeOK, Job
  <2>4. CASE FindBilling(h)
    BY <1>1, <1>5, <2>1, <2>4 DEF FindBilling, TypeOK, Job
  <2>5. CASE FindNoBilling(h)
    <3>1. job'[h] = [job[h] EXCEPT
                       !.pc = IF job[h].event.type = "invoice.paid"
                              THEN "write" ELSE "reply"]
      BY <1>1, <2>5 DEF FindNoBilling, TypeOK
    <3>2. job'[h].event = job[h].event /\ job[h].pc # "idle"
      BY <1>1, <2>5, <3>1 DEF FindNoBilling, Job
    <3> QED BY <1>5, <2>1, <3>2
  <2>6. CASE Write(h)
    BY <1>1, <1>5, <2>1, <2>6, WriteStarts DEF TypeOK, Job
  <2> QED BY <1>8, <2>2, <2>3, <2>4, <2>5, <2>6 DEF Handle
<1>9. CASE Reply(h)
  BY <1>1, <1>3, <1>9 DEF Reply, TypeOK
<1>10. CASE Crash
  BY <1>4, <1>10 DEF Crash
<1>11. ASSUME UNCHANGED <<job, pending>> PROVE Front(h)'
  BY <1>1, <1>11 DEF Front
<1>12. Surroundings => Crash \/ UNCHANGED <<job, pending>>
  BY DEF Surroundings, stripeVars, Tick, ChangeEmail, Session,
         HasExpiredSubscription, DowngradeToFreeTier, SignInFails
<1> QED BY <1>2, <1>6, <1>7, <1>8, <1>9, <1>10, <1>11, <1>12
        DEF StripeNext, Acknowledge, LoseAnswer, allVars, vars, stripeVars

-----------------------------------------------------------------------------
(* The rows.                                                               *)

\* What the event leaves of the row it is about.
After(b, e) == Matches(b, e.status, e.price, e.end) /\ Before(b, e)

ProductOf(b) == IF b.status = "canceled" THEN FreeTier ELSE b.productId

\* The write of a webhook brings one row, its owner's only one, in step.
Brings(h, q, u) ==
    /\ q \in DOMAIN billings'
    /\ billings'[q].userId = u
    /\ billings'[q].sub = job[h].event.sub
    /\ After(billings'[q], job[h].event)
    /\ currentProduct'[u] = ProductOf(billings'[q])
    /\ \A r \in DOMAIN billings' : r # q =>
         r \in DOMAIN billings /\ billings'[r] = billings[r] /\ billings[r].userId # u

LEMMA PaidBrings ==
  ASSUME Turn, NEW h \in Handler, Write(h), NEW u, u = job[h].user,
         job[h].event.type = "invoice.paid"
  PROVE  \E q \in RowId : Brings(h, q, u)
<1> DEFINE e == job[h].event
           b == PaidRow(u, e)
<1>1. /\ TypeOK /\ JobsOK /\ AllFresh /\ OneRow /\ job[h].pc = "write"
      /\ JobKnows(h)
  BY WriteStarts DEF Turn, Base, SerialInv, Recorded
<1>2. u \in User /\ e.status = "active" /\ e.type = "invoice.paid"
  BY <1>1, WriteContext DEF JobKnows, Made, TypeShows
<1>3. /\ b.userId = u /\ b.sub = e.sub /\ ProductOf(b) = e.price
      /\ After(b, e)
  BY <1>2 DEF PaidRow, After, Matches, Before, ProductOf
<1>4. CreateBilling(h) \/ RenewBilling(h)
  BY <1>2 DEF Write, MarkPastDue, UpdateSubscription, DeleteSubscription, Written
<1>5. currentProduct'[u] = e.price
  BY <1>1, <1>2, <1>4 DEF CreateBilling, RenewBilling, TypeOK
<1>6. CASE CreateBilling(h)
  <2>1. PICK id \in RowId : Inserted(h, id)
    BY <1>1, <1>6, CreateInserts
  <2>2. RowsOf(u) = {}
    BY <1>1, <1>6 DEF AllFresh, Fresh, CreateBilling
  <2>3. billings'[id] = b
    BY <2>1 DEF Inserted
  <2> HIDE DEF b
  <2>4. Brings(h, id, u)
    BY <1>3, <1>5, <2>1, <2>2, <2>3 DEF Brings, Inserted, RowsOf
  <2> QED BY <2>4
<1>7. CASE RenewBilling(h)
  <2>1. job[h].row # NoRow
    BY <1>7 DEF RenewBilling
  <2>2. Rewritten(h) /\ job[h].row \in RowId /\ billings[job[h].row].userId = u
    BY <1>1, <1>7, <2>1, OtherWrites, WriteContext DEF CreateBilling
  <2>3. billings'[job[h].row] = b
    BY <1>1, <1>7, <2>2 DEF RenewBilling, TypeOK, Rewritten
  <2> HIDE DEF b
  <2>4. Brings(h, job[h].row, u)
    BY <1>1, <1>3, <1>5, <2>2, <2>3 DEF Brings, Rewritten, OneRow
  <2> QED BY <2>2, <2>4
<1> QED BY <1>4, <1>6, <1>7

\* An event other than a payment finds the row it can be applied to.
LEMMA OtherBrings ==
  ASSUME Turn, NEW h \in Handler, Write(h), NEW u, u = job[h].user,
         job[h].event.type # "invoice.paid"
  PROVE  \E q \in RowId : Brings(h, q, u)
<1> DEFINE e == job[h].event
           q == job[h].row
           b == billings[q]
           c == billings'[q]
<1>1. /\ TypeOK /\ JobsOK /\ AllFresh /\ OneRow /\ job[h].pc = "write"
      /\ JobKnows(h) /\ Front(h)
  BY WriteStarts DEF Turn, Base, SerialInv, Recorded, InStep
<1>2. /\ q \in DOMAIN billings /\ b \in BillingRow
      /\ b.userId = u /\ b.productId = job[h].product /\ b.sub = e.sub
      /\ u \in User /\ e \in EventRecord
  BY <1>1, FreshWrite
<1>3. Made(e) /\ e.sub \in Subscription /\ e \in pending /\ First(e)
  BY <1>1 DEF JobKnows, Front, First
<1>4. Before(b, e) /\ currentProduct[u] = ProductOf(b)
  BY <1>2, <1>3 DEF Turn, InStep, RowOK, ProductOf
<1>5. e.price # NoProduct /\ TypeShows(e.type, e.status)
  BY <1>3 DEF Made
<1>6. Rewritten(h) /\ q \in RowId
  <2>1. ~ CreateBilling(h)
    BY DEF CreateBilling, Written
  <2> QED BY <1>1, <1>2, <2>1, OtherWrites DEF TypeOK
<1>7. SUFFICES /\ c.sub = e.sub /\ After(c, e)
               /\ currentProduct'[u] = ProductOf(c)
  <2>1. c.userId = u /\ q \in DOMAIN billings'
    BY <1>2, <1>6 DEF Rewritten
  <2>2. \A r \in DOMAIN billings' : r # q =>
          r \in DOMAIN billings /\ billings'[r] = billings[r] /\ billings[r].userId # u
    BY <1>1, <1>2, <1>6 DEF Rewritten, OneRow
  <2> QED BY <1>6, <2>1, <2>2, <1>7 DEF Brings
<1>8. CASE MarkPastDue(h)
  <2>1. e.type = "invoice.payment_failed" /\ e.status = "past_due"
    BY <1>5, <1>8 DEF MarkPastDue, Written, TypeShows
  <2>2. c = [b EXCEPT !.status = "past_due"] /\ UNCHANGED currentProduct
    BY <1>1, <1>2, <1>8 DEF MarkPastDue, TypeOK
  <2>3. /\ c.productId = b.productId /\ c.expiresAt = b.expiresAt
        /\ c.status = "past_due" /\ c.sub = b.sub
    BY <1>2, <2>2 DEF BillingRow
  <2> HIDE DEF b, c
  <2> QED BY <1>2, <1>4, <2>1, <2>2, <2>3 DEF After, Matches, Before, ProductOf
<1>9. CASE UpdateSubscription(h)
  <2>1. /\ e.type = "customer.subscription.updated"
        /\ e.status \in {"active", "past_due"}
    BY <1>5, <1>9 DEF UpdateSubscription, Written, TypeShows
  <2>2. c = UpdatedRow(b, e) /\ currentProduct'[u] = UpdatedProduct(h)
    BY <1>1, <1>2, <1>9 DEF UpdateSubscription, TypeOK
  <2>3. /\ c.sub = b.sub /\ c.productId = e.price
        /\ c.status = e.status /\ c.expiresAt = e.end
    BY <1>2, <1>5, <2>2, UpdatedFields
  <2>4. currentProduct'[u] = e.price
    BY <1>2, <1>4, <1>5, <2>1, <2>2
    DEF UpdatedProduct, Ended, ProductOf, Before
  <2> HIDE DEF b, c
  <2> QED BY <1>2, <2>1, <2>3, <2>4 DEF After, Matches, Before, ProductOf
<1>10. CASE DeleteSubscription(h)
  <2>1. e.type = "customer.subscription.deleted" /\ e.status = "canceled"
    BY <1>5, <1>10 DEF DeleteSubscription, Written, TypeShows
  <2>2. PICK t \in 0 .. now :
          c = [b EXCEPT !.status = "canceled", !.expiresAt = t]
    BY <1>1, <1>2, <1>10 DEF DeleteSubscription, TypeOK
  <2>3. currentProduct'[u] = FreeTier
    BY <1>1, <1>2, <1>10 DEF DeleteSubscription, TypeOK
  <2>4. c.status = "canceled" /\ c.sub = b.sub
    BY <1>2, <2>2 DEF BillingRow
  <2> HIDE DEF b, c
  <2> QED BY <1>2, <2>1, <2>3, <2>4 DEF After, Matches, Before, ProductOf
<1> QED BY <1>8, <1>9, <1>10 DEF Write, CreateBilling, RenewBilling, Written

\* Its user is the subscription's customer.
LEMMA WriteOwner ==
  ASSUME Turn, NEW h \in Handler, job[h].pc = "write"
  PROVE  /\ job[h].user \in User
         /\ email[job[h].user] = EmailOf[job[h].event.sub]
<1>1. /\ TypeOK /\ JobsOK /\ AllFresh /\ JobKnows(h) /\ InStep
  BY DEF Turn, Base, SerialInv, Recorded
<1>2. job[h].user \in User
  BY <1>1, WriteContext
<1>3. CASE job[h].event.type = "invoice.paid"
  BY <1>1, <1>2, <1>3 DEF JobKnows, Made
<1>4. CASE job[h].event.type # "invoice.paid"
  <2>1. /\ job[h].row \in DOMAIN billings
        /\ billings[job[h].row].userId = job[h].user
        /\ billings[job[h].row].sub = job[h].event.sub
    BY <1>1, <1>4, FreshWrite
  <2>2. RowOK(job[h].row)
    BY <1>1, <2>1 DEF InStep
  <2> QED BY <1>2, <2>1, <2>2 DEF RowOK
<1> QED BY <1>3, <1>4

\* A write brings its row in step with the event, which is the next of its
\* subscription's, and is not about any other row.
LEMMA WriteRows ==
  ASSUME InTurn, Turn, UNCHANGED email, NEW h \in Handler, Write(h),
         UNCHANGED stripeVars, NEW r \in DOMAIN billings'
  PROVE  RowOK(r)'
<1> SUFFICES ASSUME NEW u, u = job[h].user, NEW e, e = job[h].event
             PROVE  RowOK(r)'
  OBVIOUS
<1>1. /\ TypeOK /\ JobKnows(h) /\ Front(h) /\ InStep /\ StripeOK
      /\ job[h] \in Job
  BY DEF Turn, Base, Recorded, InStep, TypeOK
<1>2. PICK q \in RowId : Brings(h, q, u)
  BY PaidBrings, OtherBrings
<1>3. /\ job[h].pc = "write" /\ u \in User /\ email[u] = EmailOf[e.sub]
  BY WriteStarts, WriteOwner
<1>4. \A g \in Handler : g = h /\ job'[g].event = e
  BY <1>1, WriteStarts DEF InTurn, OneHandler, TypeOK, Job
<1>5. /\ e \in pending /\ UNCHANGED <<stripe, pending>>
      /\ \A f \in pending : e.id <= f.id /\ f.id \in Nat
  BY <1>1, <1>3 DEF Front, stripeVars, StripeOK, EventOK, StripeEvent
<1>6. CASE r = q
  <2>1. /\ billings'[r].userId = u /\ billings'[r].sub = e.sub
        /\ After(billings'[r], e)
        /\ currentProduct'[u] = ProductOf(billings'[r])
    BY <1>2, <1>6 DEF Brings
  <2>2. ASSUME NEW f \in pending, f.sub = e.sub, First(f)
        PROVE  f = e
    <3>1. f.id <= e.id /\ e.id <= f.id /\ f.id \in Nat /\ e.id \in Nat
      BY <1>5, <2>2 DEF First
    <3> QED BY <1>1, <1>5, <3>1 DEF InStep, Queue
  <2>3. \A f : First(f)' <=> First(f)
    BY <1>5 DEF First
  <2> QED BY <1>3, <1>4, <1>5, <2>1, <2>2, <2>3
          DEF RowOK, After, ProductOf, First
<1>7. CASE r # q
  <2>1. /\ r \in DOMAIN billings /\ billings'[r] = billings[r]
        /\ billings[r].userId # u
    BY <1>2, <1>7 DEF Brings
  <2>2. RowOK(r) /\ billings[r].userId \in User
    BY <1>1, <2>1 DEF InStep, TypeOK, BillingRow
  <2>3. billings[r].sub # e.sub
    BY <1>1, <1>3, <2>1, <2>2 DEF RowOK, InStep, EmailsDiffer
  <2>4. currentProduct'[billings[r].userId] = currentProduct[billings[r].userId]
    BY <1>1, <2>1, <2>2, WriteOthers DEF OthersKept
  <2> QED BY <1>4, <1>5, <2>1, <2>2, <2>3, <2>4 DEF RowOK, First
<1> QED BY <1>6, <1>7

\* A new event can be applied to what the one before it shows.
LEMMA CreatesRows ==
  ASSUME Turn, NEW n \in StripeEvent, Creates(n), NEW r \in DOMAIN billings
  PROVE  RowOK(r)'
<1> DEFINE b == billings[r]
<1>1. /\ UNCHANGED <<email, billings, currentProduct, job>>
      /\ pending' = pending \cup {n} /\ n.id = created + 1
  BY DEF Creates, vars
<1>2. RowOK(r) /\ StripeOK /\ b \in BillingRow
  BY DEF Turn, Base, InStep, TypeOK
<1>3. \A e \in pending : e.id \in Nat /\ e.id <= created /\ created \in Nat
  BY <1>2 DEF StripeOK, EventOK, StripeEvent
<1> SUFFICES ASSUME NEW s \in Subscription, s = b.sub
             PROVE  RowOK(r)'
  BY <1>2 DEF BillingRow
<1>4. ASSUME NEW e \in pending', e.sub = s, First(e)'
      PROVE  Before(b, e)
  <2>1. CASE e \in pending
    <3>1. First(e)
      BY <1>1, <1>4 DEF First
    <3> QED BY <1>2, <1>4, <2>1, <3>1 DEF RowOK
  <2>2. CASE e = n /\ e \notin pending
    <3>1. \A f \in pending : f.sub # s
      BY <1>1, <1>3, <1>4, <2>2 DEF First
    <3>2. Matches(b, stripe[s].state, stripe[s].product, stripe[s].end)
      BY <1>2, <3>1 DEF RowOK
    <3>3. Linked(stripe[s].state, stripe[s].product, stripe[s].end, e)
      BY <1>4, <2>2 DEF Creates
    <3> QED BY <3>2, <3>3 DEF Matches, Linked, Before
  <2> QED BY <1>1, <1>4, <2>1, <2>2
<1>5. ASSUME \A e \in pending' : e.sub # s
      PROVE  Matches(b, stripe'[s].state, stripe'[s].product, stripe'[s].end)
  <2>1. n.sub # s /\ \A e \in pending : e.sub # s
    BY <1>1, <1>5
  <2>2. stripe'[s] = stripe[s]
    BY <1>2, <2>1 DEF Creates, StripeOK
  <2> QED BY <1>2, <2>1, <2>2 DEF RowOK
<1> QED BY <1>1, <1>2, <1>4, <1>5 DEF RowOK, First

\* What follows the event a webhook has applied can be applied next.
LEMMA AcknowledgeRows ==
  ASSUME InTurn, Turn, NEW h \in Handler, Acknowledge(h),
         NEW r \in DOMAIN billings
  PROVE  RowOK(r)'
<1> SUFFICES ASSUME NEW b, b = billings[r], NEW e, e = job[h].event
             PROVE  RowOK(r)'
  OBVIOUS
<1>1. /\ UNCHANGED <<email, billings, currentProduct, stripe>>
      /\ pending' = pending \ {e} /\ job[h].pc = "reply"
  BY DEF Acknowledge, Reply, db
<1>2. /\ RowOK(r) /\ StripeOK /\ Queue /\ JobKnows(h) /\ Front(h)
      /\ b \in BillingRow
  BY DEF Turn, Base, Recorded, InStep, TypeOK
<1>3. \A g \in Handler : job'[g].pc # "reply"
  BY DEF InTurn, OneHandler, Acknowledge, Reply, Idle, Turn, Base, TypeOK
<1>4. /\ e \in pending /\ e.sub \in Subscription
      /\ \A f \in pending : f.id \in Nat /\ e.id <= f.id
  BY <1>1, <1>2 DEF Front, JobKnows, StripeOK, EventOK, StripeEvent
<1>5. CASE e.sub # b.sub
  BY <1>1, <1>2, <1>3, <1>5 DEF RowOK, First
<1>6. CASE e.sub = b.sub
  <2>1. Matches(b, e.status, e.price, e.end)
    BY <1>1, <1>2, <1>6 DEF RowOK
  <2>2. ASSUME NEW f \in pending', f.sub = b.sub, First(f)'
        PROVE  Before(b, f)
    <3>1. f \in pending /\ f # e
      BY <1>1, <2>2
    <3>2. e.id < f.id
      BY <1>2, <1>4, <3>1 DEF Queue
    <3>3. Adjacent(e, f)
      BY <1>1, <1>4, <1>6, <2>2, <3>2 DEF Adjacent, First
    <3>4. Linked(e.status, e.price, e.end, f)
      BY <1>2, <1>4, <3>1, <3>3 DEF Queue
    <3> QED BY <2>1, <3>4 DEF Matches, Linked, Before
  <2>3. ASSUME \A f \in pending' : f.sub # b.sub
        PROVE  Matches(b, stripe[b.sub].state, stripe[b.sub].product,
                       stripe[b.sub].end)
    <3>1. Newest(e)
      BY <1>1, <1>4, <1>6, <2>3 DEF Newest
    <3>2. Shows(e, stripe[b.sub])
      BY <1>2, <1>4, <1>6, <3>1 DEF Queue
    <3> QED BY <2>1, <3>2 DEF Shows
  <2> QED BY <1>1, <1>2, <1>3, <2>2, <2>3 DEF RowOK
<1> QED BY <1>5, <1>6

\* What else changes neither tables nor events leaves the rows in step: no
\* webhook is about to answer that has not done so before, or that found no
\* row of its subscription.
LEMMA QuietRows ==
  ASSUME Turn, UNCHANGED <<email, billings, currentProduct, stripe, pending>>,
         NEW r \in DOMAIN billings,
         \A h \in Handler :
           job'[h].pc = "reply" /\ job'[h].event.sub = billings[r].sub =>
             job[h].pc = "reply" /\ job'[h].event = job[h].event
  PROVE  RowOK(r)'
<1>1. RowOK(r)
  BY DEF Turn, InStep
<1> QED BY <1>1 DEF RowOK, First

LEMMA RowsInStep ==
  ASSUME InTurn, Turn, [StripeNext]_allVars, UNCHANGED email
  PROVE  \A r \in DOMAIN billings' : RowOK(r)'
<1> SUFFICES ASSUME NEW r \in DOMAIN billings' PROVE RowOK(r)'
  OBVIOUS
<1>1. TypeOK /\ JobsOK /\ StripeOK
  BY DEF Turn, Base
<1>2. CASE Stripe
  <2>1. PICK n \in StripeEvent : Creates(n)
    BY <1>1, <1>2, StripeCreates
  <2> QED BY <2>1, CreatesRows DEF Creates, vars
<1>3. ASSUME NEW h \in Handler, Acknowledge(h) PROVE RowOK(r)'
  BY <1>3, AcknowledgeRows DEF Acknowledge, Reply, db
<1>4. ASSUME NEW h \in Handler, Write(h), UNCHANGED stripeVars PROVE RowOK(r)'
  BY <1>4, WriteRows
<1> DEFINE Same == UNCHANGED <<email, billings, currentProduct, stripe, pending>>
           Silent(h) == job'[h].pc = "reply" /\ job'[h].event.sub = billings[r].sub =>
             job[h].pc = "reply" /\ job'[h].event = job[h].event
<1>5. ASSUME Same, \A h \in Handler : Silent(h) PROVE RowOK(r)'
  BY <1>5, QuietRows
<1>6. Restart => \A h \in Handler : Silent(h)
  BY DEF Restart, Idle
<1>7. UNCHANGED job => \A h \in Handler : Silent(h)
  OBVIOUS
<1>8. ASSUME NEW g \in Handler, job'[g].pc # "reply"
      PROVE  \A h \in Handler : Silent(h)
  BY <1>8 DEF InTurn, OneHandler
<1> HIDE DEF Silent
<1>9. ASSUME NEW h \in Handler, NEW e \in pending, Send(h, e) PROVE RowOK(r)'
  <2>1. Same
    BY <1>9 DEF Send, Deliver, RejectInvoice, db, stripeVars
  <2>2. CASE RejectInvoice(h, e)
    BY <1>5, <1>6, <2>1, <2>2 DEF RejectInvoice
  <2>3. CASE Deliver(h, e)
    <3>1. job'[h].pc = Route(e) /\ ~ (IsInvoice(e) /\ e.sub = NoSubscription)
      BY <1>1, <2>3 DEF Deliver, TypeOK, Idle
    <3>2. Route(e) # "reply"
      BY <1>1, <3>1, DeliveredMade DEF StripeOK
    <3> QED BY <1>5, <1>8, <2>1, <3>1, <3>2
  <2> QED BY <1>9, <2>2, <2>3 DEF Send
<1>10. ASSUME NEW h \in Handler, Handle(h), ~ Write(h) PROVE RowOK(r)'
  <2>1. Same /\ job[h] \in Job
    BY <1>1, <1>10 DEF Handle, FindUser, UnknownUser, FindBilling,
                       FindNoBilling, db, stripeVars, TypeOK
  <2>2. CASE UnknownUser(h)
    BY <1>5, <1>6, <2>1, <2>2 DEF UnknownUser
  <2>3. CASE FindUser(h)
    <3>1. job'[h].pc # "reply"
      BY <1>1, <2>1, <2>3 DEF FindUser, TypeOK, Job
    <3> QED BY <1>5, <1>8, <2>1, <3>1
  <2>4. CASE FindBilling(h)
    <3>1. job'[h].pc # "reply"
      BY <1>1, <2>1, <2>4 DEF FindBilling, TypeOK, Job
    <3> QED BY <1>5, <1>8, <2>1, <3>1
  <2>5. CASE FindNoBilling(h)
    <3>1. /\ job'[h] = [job[h] EXCEPT
                          !.pc = IF job[h].event.type = "invoice.paid"
                                 THEN "write" ELSE "reply"]
          /\ Matching(h) = {}
      BY <1>1, <2>5 DEF FindNoBilling, TypeOK
    <3>2. CASE job[h].event.type = "invoice.paid"
      <4>1. job'[h].pc # "reply"
        BY <2>1, <3>1, <3>2 DEF Job
      <4> QED BY <1>5, <1>8, <2>1, <4>1
    <3>3. CASE job[h].event.type # "invoice.paid"
      <4>1. job'[h].event = job[h].event
        BY <2>1, <3>1 DEF Job
      <4>2. billings[r].sub # job[h].event.sub
        BY <2>1, <3>1, <3>3 DEF Matching, RowsWith
      <4>3. \A g \in Handler : Silent(g)
        BY <4>1, <4>2 DEF Silent, InTurn, OneHandler
      <4> QED BY <1>5, <2>1, <4>3
    <3> QED BY <3>2, <3>3
  <2> QED BY <1>10, <2>2, <2>3, <2>4, <2>5 DEF Handle
<1>11. ASSUME NEW h \in Handler, LoseAnswer(h) PROVE RowOK(r)'
  <2>1. Same /\ job'[h].pc # "reply"
    BY <1>1, <1>11 DEF LoseAnswer, Reply, db, stripeVars, TypeOK, Idle
  <2> QED BY <1>5, <1>8, <2>1
<1>12. CASE Surroundings
  <2>1. Crash \/ Tick \/ UNCHANGED <<billings, currentProduct, job>>
    BY <1>12 DEF Surroundings, ChangeEmail, Session, InTurn
  <2>2. UNCHANGED stripeVars
    BY <1>12 DEF Surroundings
  <2> QED BY <1>5, <1>6, <1>7, <2>1, <2>2 DEF Crash, Tick, db, stripeVars
<1>13. CASE UNCHANGED allVars
  BY <1>5, <1>7, <1>13 DEF allVars, vars, stripeVars
<1> QED BY <1>2, <1>3, <1>4, <1>9, <1>10, <1>11, <1>12, <1>13
        DEF StripeNext, Handle

LEMMA TurnStep ==
  ASSUME InTurn, Turn, [StripeNext]_allVars, UNCHANGED email
  PROVE  Turn'
<1> Apart
  BY DEF InTurn, OneHandler, Apart
<1>1. Base' /\ Recorded' /\ SerialInv'
  BY BaseStep, RecordedStep, SerialStep, StepIsBillings
  DEF Turn, Base, InTurn
<1>2. EmailsDiffer'
  BY DEF Turn, InStep, EmailsDiffer
<1> QED BY <1>1, <1>2, QueueStep, FrontStep, RowsInStep DEF Turn, InStep

\* With events oldest first, one webhook at a time, nobody signing in and
\* nobody changing the e-mail, the tables say what Stripe says whenever all
\* events are delivered, through lost answers, repeated deliveries, rejected
\* invoices and crashes, for any number of customers and subscriptions.
THEOREM TablesFollow ==
  ASSUME InTurn
  PROVE  StripeSpec /\ EmailsStay => []TablesAgree
<1>1. Turn => TablesAgree
  <2> SUFFICES ASSUME Turn, AtRest, NEW r \in DOMAIN billings, NEW b,
                      b = billings[r]
               PROVE  /\ Matches(b, stripe[b.sub].state, stripe[b.sub].product,
                                 stripe[b.sub].end)
                      /\ currentProduct[b.userId] = ProductOf(b)
    BY DEF TablesAgree, Matches, ProductOf
  <2>1. RowOK(r) /\ b.sub \in Subscription
    BY DEF Turn, Base, InStep, TypeOK, BillingRow
  <2>2. \A e \in pending : e.sub # b.sub
    BY <2>1 DEF AtRest
  <2> QED BY <2>1, <2>2 DEF RowOK, ProductOf
<1>2. Turn /\ [StripeNext]_allVars /\ [UNCHANGED email]_email => Turn'
  BY TurnStep
<1> QED BY <1>1, <1>2, TurnInit, PTL DEF StripeSpec, EmailsStay

=============================================================================
