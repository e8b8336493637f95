-------------------------- MODULE SerialBillingProofs --------------------------
(***************************************************************************)
(* Billing as long as no two webhooks of one customer stand between the    *)
(* read of the customer's billing and the write: the user's product is     *)
(* that of a live billing, late events of a replaced subscription change   *)
(* nothing, and the whole implements Entitlement, for every set of users,  *)
(* products, subscriptions and events, any number of webhooks and of       *)
(* sign-ins, and every e-mail change and crash.                            *)
(*                                                                         *)
(* The invariant says that what a handler read is still so when it writes: *)
(* nothing but a webhook writes the billings table, and the other webhooks *)
(* about to write are of other customers.  Without Apart, AllFresh and     *)
(* OneRow fail.                                                            *)
(***************************************************************************)
EXTENDS BillingProofs

USE FreeTierAssumption, NullAssumption, EventAssumption, MaxTimeAssumption

\* Webhooks are handled one at a time: the simplest way to keep them apart.
OneHandler == \A g, h \in Handler : g = h

\* What handler h read is what the tables hold at its write.
Fresh(h) ==
  job[h].pc = "write" =>
    /\ job[h].row # NoRow =>
         /\ job[h].product = billings[job[h].row].productId
         /\ job[h].event.type # "invoice.paid" =>
              billings[job[h].row].sub = job[h].event.sub
    /\ job[h].row = NoRow => RowsOf(job[h].user) = {}

AllFresh == \A h \in Handler : Fresh(h)

\* A user has at most one billing.
OneRow ==
  \A r, q \in DOMAIN billings : billings[r].userId = billings[q].userId => r = q

\* A sign-in about to downgrade is that of a user with a billing.
SweepsOwned == \A c \in SignIn : sweep[c] # NoUser => RowsOf(sweep[c]) # {}

SerialInv ==
  TypeOK /\ JobsOK /\ AllFresh /\ OneRow /\ SweepsOwned /\ ProductMatchesBilling

LEMMA SerialInit == Init => SerialInv
<1> SUFFICES ASSUME Init PROVE SerialInv
  OBVIOUS
<1>1. TypeOK /\ JobsOK
  BY TypeInit, JobsInit
<1> QED BY <1>1
        DEF Init, SerialInv, AllFresh, Fresh, Idle, OneRow, SweepsOwned,
            ProductMatchesBilling

-----------------------------------------------------------------------------
(* What each kind of step does to the tables.                              *)

\* The writes of a webhook, said once: either a row of its user appears, who
\* had none, or its row changes and no other; every other user is untouched.
Inserted(h, id) ==
  /\ id \in RowId \ DOMAIN billings
  /\ DOMAIN billings' = DOMAIN billings \cup {id}
  /\ billings'[id] = PaidRow(job[h].user, job[h].event)
  /\ \A r \in DOMAIN billings : billings'[r] = billings[r]

Rewritten(h) ==
  /\ job[h].row \in DOMAIN billings
  /\ DOMAIN billings' = DOMAIN billings
  /\ billings'[job[h].row].userId = billings[job[h].row].userId
  /\ \A r \in DOMAIN billings \ {job[h].row} : billings'[r] = billings[r]

OthersKept(h) ==
  \A u \in User \ {job[h].user} : currentProduct'[u] = currentProduct[u]

LEMMA CreateInserts ==
  ASSUME TypeOK, NEW h \in Handler, CreateBilling(h)
  PROVE  \E id \in RowId : Inserted(h, id)
<1>1. PICK id \in RowId \ DOMAIN billings :
        billings' = [r \in DOMAIN billings \cup {id} |->
                      IF r = id THEN PaidRow(job[h].user, job[h].event)
                      ELSE billings[r]]
  BY DEF CreateBilling
<1>2. Inserted(h, id)
  BY <1>1 DEF Inserted
<1> QED BY <1>2

LEMMA WriteStarts ==
  ASSUME NEW h \in Handler, Write(h)
  PROVE  /\ job[h].pc = "write"
         /\ job' = [job EXCEPT ![h].pc = "reply"]
         /\ UNCHANGED <<email, sweep, now>>
BY DEF Write, CreateBilling, RenewBilling, MarkPastDue, UpdateSubscription,
       DeleteSubscription, Written

LEMMA WriteOthers ==
  ASSUME TypeOK, NEW h \in Handler, Write(h)
  PROVE  OthersKept(h)
BY DEF OthersKept, TypeOK, Write, CreateBilling, RenewBilling, MarkPastDue,
       UpdateSubscription, DeleteSubscription

LEMMA OtherWrites ==
  ASSUME TypeOK, JobsOK, NEW h \in Handler, Write(h), ~ CreateBilling(h)
  PROVE  Rewritten(h)
<1>1. job[h].pc = "write"
  BY Zenon DEF Write, CreateBilling, RenewBilling, MarkPastDue, UpdateSubscription,
               DeleteSubscription, Written
<1>2. job[h].row \in DOMAIN billings
  BY <1>1, WriteContext
  DEF Write, RenewBilling, MarkPastDue, UpdateSubscription, DeleteSubscription,
      Written
<1>3. /\ DOMAIN billings' = DOMAIN billings
      /\ \A r \in DOMAIN billings \ {job[h].row} : billings'[r] = billings[r]
  BY DEF TypeOK, Write, RenewBilling, MarkPastDue, UpdateSubscription,
         DeleteSubscription
<1> QED BY <1>2, <1>3, WriteKeepsRows DEF Rewritten, RowsKept

-----------------------------------------------------------------------------
(* The invariant.                                                          *)

\* A webhook touches the request of another only by bringing the process down.
LEMMA OthersGoOn ==
  ASSUME TypeOK, NEW h \in Handler, Webhook(h), NEW g \in Handler \ {h}
  PROVE  job'[g] = job[g] \/ job'[g] = Idle
<1>1. CASE Restart
  BY <1>1 DEF Restart
<1>2. CASE Write(h)
  BY <1>2, WriteStarts DEF TypeOK
<1>3. CASE \E e \in Event : Deliver(h, e)
  BY <1>3 DEF Deliver, TypeOK
<1>4. CASE FindUser(h) \/ FindBilling(h) \/ FindNoBilling(h)
  BY <1>4 DEF FindUser, FindBilling, FindNoBilling, TypeOK
<1>5. CASE Reply(h)
  BY <1>5 DEF Reply, TypeOK
<1> QED BY <1>1, <1>2, <1>3, <1>4, <1>5 DEF Webhook, RejectInvoice, UnknownUser

\* Only its write changes the billings table.
LEMMA ReadsOnly ==
  ASSUME NEW h \in Handler, Webhook(h), ~ Write(h)
  PROVE  UNCHANGED billings
BY Zenon
   DEF Webhook, Deliver, RejectInvoice, FindUser, UnknownUser, FindBilling,
       FindNoBilling, Reply, db

\* What one webhook writes is not what another, of another customer, has read.
LEMMA OthersFresh ==
  ASSUME Apart, TypeOK, JobsOK, AllFresh, NEW h \in Handler, Webhook(h),
         NEW g \in Handler \ {h}
  PROVE  Fresh(g)'
<1>1. CASE job'[g] = Idle
  BY <1>1 DEF Fresh, Idle
<1>2. CASE job'[g] = job[g]
  <2> SUFFICES ASSUME job[g].pc = "write"
               PROVE  Fresh(g)'
    BY <1>2 DEF Fresh
  <2>1. Fresh(g)
    BY DEF AllFresh
  <2>2. ASSUME UNCHANGED billings PROVE Fresh(g)'
    BY <1>2, <2>1, <2>2 DEF Fresh, RowsOf
  <2>3. CASE Write(h)
    <3>1. job[h].pc = "write" /\ job[h].user # job[g].user
      BY <2>3, WriteStarts DEF Apart
    <3>2. /\ job[g].row # NoRow => /\ job[g].row \in DOMAIN billings
                                  /\ billings[job[g].row].userId = job[g].user
          /\ job[h].row # NoRow => billings[job[h].row].userId = job[h].user
      BY <3>1, WriteContext
    <3>3. CASE CreateBilling(h)
      <4>1. PICK id \in RowId : Inserted(h, id)
        BY <3>3, CreateInserts
      <4>2. \A r \in DOMAIN billings : billings'[r] = billings[r]
        BY <4>1 DEF Inserted
      <4>3. /\ DOMAIN billings' = DOMAIN billings \cup {id}
            /\ billings'[id].userId = job[h].user
        BY <4>1 DEF Inserted, PaidRow
      <4>4. RowsOf(job[g].user) = {} => RowsOf(job[g].user)' = {}
        BY <1>2, <3>1, <4>2, <4>3 DEF RowsOf
      <4> QED BY <1>2, <2>1, <3>2, <4>2, <4>4 DEF Fresh
    <3>4. CASE ~ CreateBilling(h)
      <4>1. Rewritten(h) /\ job[h].row # NoRow
        BY <2>3, <3>4, OtherWrites DEF Rewritten, TypeOK
      <4>2. job[g].row # NoRow => billings'[job[g].row] = billings[job[g].row]
        BY <3>1, <3>2, <4>1 DEF Rewritten
      <4>3. RowsOf(job[g].user) = {} => RowsOf(job[g].user)' = {}
        BY <1>2, <4>1 DEF RowsOf, Rewritten
      <4> QED BY <1>2, <2>1, <4>2, <4>3 DEF Fresh
    <3> QED BY <3>3, <3>4
  <2> QED BY <2>2, <2>3, ReadsOnly
<1> QED BY <1>1, <1>2, OthersGoOn

\* A webhook reads, and nobody writes what it read before it does.
LEMMA FreshStep ==
  ASSUME Apart, TypeOK, JobsOK, AllFresh, [Next]_vars
  PROVE  AllFresh'
<1>1. ASSUME UNCHANGED <<billings, job>> PROVE AllFresh'
  BY <1>1 DEF AllFresh, Fresh, RowsOf
<1>2. ASSUME Restart PROVE AllFresh'
  BY <1>2 DEF Restart, AllFresh, Fresh, Idle
<1>3. ASSUME NEW h \in Handler, Webhook(h) PROVE AllFresh'
  <2>1. ASSUME Fresh(h)' PROVE AllFresh'
    BY <1>3, <2>1, OthersFresh DEF AllFresh
  <2>2. ASSUME job'[h].pc # "write" PROVE AllFresh'
    BY <2>1, <2>2 DEF Fresh
  <2>3. job[h] \in Job /\ JobOK(h)
    BY DEF TypeOK, JobsOK
  <2>4. ASSUME NEW e \in Event, Deliver(h, e) PROVE AllFresh'
    <3>1. Route(e) # "write"
      BY DEF Route
    <3>2. job'[h].pc = Route(e)
      BY <2>4 DEF Deliver, Idle, TypeOK
    <3> QED BY <2>2, <3>1, <3>2
  <2>5. ASSUME NEW e \in Event, RejectInvoice(h, e) PROVE AllFresh'
    BY <1>2, <2>5 DEF RejectInvoice
  <2>6. CASE FindUser(h)
    <3>1. job'[h].pc = "findBilling"
      BY <2>3, <2>6 DEF FindUser, TypeOK, Job
    <3> QED BY <2>2, <3>1
  <2>7. CASE UnknownUser(h)
    BY <1>2, <2>7 DEF UnknownUser
  <2>8. CASE FindBilling(h)
    <3>1. PICK r \in Matching(h) :
            job' = [job EXCEPT ![h].pc = "write", ![h].row = r,
                               ![h].product = billings[r].productId,
                               ![h].user = billings[r].userId]
      BY <2>8 DEF FindBilling
    <3>2. /\ job'[h].row = r /\ job'[h].product = billings[r].productId
          /\ job'[h].event = job[h].event
      BY <2>3, <3>1 DEF TypeOK, Job
    <3>3. r # NoRow
      BY DEF Matching, RowsOf, RowsWith, TypeOK
    <3>4. UNCHANGED billings
      BY <2>8 DEF FindBilling, db
    <3>5. job[h].event.type # "invoice.paid" =>
            billings[r].sub = job[h].event.sub
      BY DEF Matching, RowsWith
    <3> QED BY <2>1, <3>2, <3>3, <3>4, <3>5 DEF Fresh
  <2>9. CASE FindNoBilling(h)
    <3>1. job'[h] = [job[h] EXCEPT
                       !.pc = IF job[h].event.type = "invoice.paid"
                              THEN "write" ELSE "reply"]
      BY <2>9 DEF FindNoBilling, TypeOK
    <3>2. CASE job[h].event.type = "invoice.paid"
      <4>1. /\ RowsOf(job[h].user) = {}
            /\ job[h].row = NoRow
        BY <2>3, <2>9, <3>2 DEF FindNoBilling, Matching, JobOK
      <4>2. job'[h].row = NoRow /\ job'[h].user = job[h].user
        BY <2>3, <3>1, <4>1 DEF Job
      <4>3. RowsOf(job[h].user)' = {}
        BY <2>9, <4>1, <4>2 DEF FindNoBilling, RowsOf, db
      <4> QED BY <2>1, <4>2, <4>3 DEF Fresh
    <3>3. CASE job[h].event.type # "invoice.paid"
      BY <2>2, <2>3, <3>1, <3>3 DEF Job
    <3> QED BY <3>2, <3>3
  <2>10. CASE Write(h)
    <3>1. job'[h].pc = "reply"
      BY <2>3, <2>10, WriteStarts DEF TypeOK, Job
    <3> QED BY <2>2, <3>1
  <2>11. CASE Reply(h)
    BY <2>2, <2>11 DEF Reply, Idle, TypeOK
  <2> QED BY <1>3, <2>4, <2>5, <2>6, <2>7, <2>8, <2>9, <2>10, <2>11 DEF Webhook
<1>4. CASE Environment
  BY <1>1, <1>2, <1>4 DEF Environment, Tick, ChangeEmail, Crash, db
<1>5. ASSUME NEW c \in SignIn, Session(c) PROVE AllFresh'
  BY <1>1, <1>5
  DEF Session, HasExpiredSubscription, DowngradeToFreeTier, SignInFails, db
<1>6. CASE UNCHANGED vars
  <2>1. UNCHANGED <<job, billings>>
    BY <1>6, Zenon DEF vars, db
  <2> QED BY <1>1, <2>1
<1> QED BY <1>3, <1>4, <1>5, <1>6 DEF Next

\* Only a write of a webhook changes the billings table.
LEMMA OnlyWrites ==
  ASSUME [Next]_vars
  PROVE  \/ UNCHANGED billings
         \/ \E h \in Handler : Write(h)
BY Zenon
   DEF Next, vars, db, Environment, Tick, ChangeEmail, Crash, Webhook, Deliver,
       RejectInvoice, FindUser, UnknownUser, FindBilling, FindNoBilling, Reply,
       Session, HasExpiredSubscription, DowngradeToFreeTier, SignInFails

\* A payment inserts only for a user who still has no row.
LEMMA OneRowStep ==
  ASSUME TypeOK, JobsOK, AllFresh, OneRow, [Next]_vars
  PROVE  OneRow'
<1>1. CASE UNCHANGED billings
  BY <1>1 DEF OneRow
<1>2. ASSUME NEW h \in Handler, CreateBilling(h) PROVE OneRow'
  <2>1. Write(h) /\ job[h].row = NoRow
    BY <1>2 DEF Write, CreateBilling
  <2>2. RowsOf(job[h].user) = {}
    BY <2>1, WriteStarts DEF AllFresh, Fresh
  <2>3. PICK id \in RowId : Inserted(h, id)
    BY <1>2, CreateInserts
  <2>4. billings'[id].userId = job[h].user
    BY <2>3 DEF Inserted, PaidRow
  <2> QED BY <2>2, <2>3, <2>4 DEF OneRow, RowsOf, Inserted
<1>3. ASSUME NEW h \in Handler, Write(h), ~ CreateBilling(h) PROVE OneRow'
  <2>1. Rewritten(h)
    BY <1>3, OtherWrites
  <2>2. \A r \in DOMAIN billings : billings'[r].userId = billings[r].userId
    BY <2>1 DEF Rewritten
  <2> QED BY <2>1, <2>2 DEF OneRow, Rewritten
<1> QED BY <1>1, <1>2, <1>3, OnlyWrites

\* Who has a billing keeps one.
LEMMA OwnersKept ==
  ASSUME TypeOK, JobsOK, [Next]_vars, NEW u, RowsOf(u) # {}
  PROVE  RowsOf(u)' # {}
<1>1. CASE UNCHANGED billings
  BY <1>1 DEF RowsOf
<1>2. ASSUME NEW h \in Handler, Write(h) PROVE RowsOf(u)' # {}
  <2>1. RowsKept
    BY <1>2, WriteKeepsRows
  <2> QED BY <2>1 DEF RowsKept, RowsOf
<1> QED BY <1>1, <1>2, OnlyWrites

LEMMA SweepsStep ==
  ASSUME TypeOK, JobsOK, SweepsOwned, [Next]_vars
  PROVE  SweepsOwned'
<1> SUFFICES ASSUME NEW c \in SignIn, NEW u, sweep'[c] = u, u # NoUser
             PROVE  RowsOf(u)' # {}
  BY DEF SweepsOwned, RowsOf
<1>1. CASE sweep[c] = u
  BY <1>1, OwnersKept DEF SweepsOwned
<1>2. CASE sweep[c] # u
  <2>1. ASSUME NEW h \in Handler, Webhook(h) PROVE UNCHANGED sweep \/ Restart
    BY <2>1, WriteStarts
    DEF Webhook, Deliver, RejectInvoice, FindUser, UnknownUser, FindBilling,
        FindNoBilling, Reply
  <2>2. HasExpiredSubscription(c, u)
    BY <1>2, <2>1
    DEF Next, vars, Environment, Tick, ChangeEmail, Crash, Restart, Session,
        HasExpiredSubscription, DowngradeToFreeTier, SignInFails, TypeOK
  <2>3. RowsOf(u) # {}
    BY <2>2 DEF HasExpiredSubscription
  <2> QED BY <2>3, OwnersKept
<1> QED BY <1>1, <1>2

-----------------------------------------------------------------------------
(* The product is that of a live billing.                                  *)

\* What a handler other than a payment's knows of the row it writes.
LEMMA FreshWrite ==
  ASSUME TypeOK, JobsOK, AllFresh, NEW h \in Handler,
         job[h].pc = "write", job[h].event.type # "invoice.paid"
  PROVE  /\ job[h].row \in DOMAIN billings
         /\ billings[job[h].row] \in BillingRow
         /\ billings[job[h].row].userId = job[h].user
         /\ billings[job[h].row].productId = job[h].product
         /\ billings[job[h].row].sub = job[h].event.sub
         /\ job[h].user \in User
         /\ job[h].event \in EventRecord
BY WriteContext DEF AllFresh, Fresh

\* The fields an update leaves in the row.
LEMMA UpdatedFields ==
  ASSUME NEW b \in BillingRow, NEW e \in EventRecord
  PROVE  /\ UpdatedRow(b, e) \in BillingRow
         /\ UpdatedRow(b, e).userId = b.userId
         /\ UpdatedRow(b, e).productId =
              (IF e.price = NoProduct THEN b.productId ELSE e.price)
         /\ UpdatedRow(b, e).sub = b.sub
         /\ UpdatedRow(b, e).status = e.status
         /\ UpdatedRow(b, e).expiresAt = e.end
BY DEF UpdatedRow, BillingRow, EventRecord

\* The owner of the row written has its product, or the free tier.
LEMMA MatchesWrite ==
  ASSUME TypeOK, JobsOK, AllFresh, ProductMatchesBilling,
         NEW h \in Handler, Write(h)
  PROVE  ProductMatchesBilling'
<1> DEFINE Matches(u, r) == /\ r \in RowsOf(u)
                            /\ billings[r].productId = currentProduct[u]
                            /\ billings[r].status \notin Ended
<1>1. SUFFICES ASSUME NEW u \in User, currentProduct'[u] # FreeTier
               PROVE  \E r \in RowId : Matches(u, r)'
  BY DEF ProductMatchesBilling
<1>2. job[h].pc = "write"
  BY WriteStarts
<1>3. ASSUME NEW r \in RowId, Matches(u, r), currentProduct'[u] = currentProduct[u],
             r \in DOMAIN billings', billings'[r] = billings[r]
      PROVE  Matches(u, r)'
  BY <1>3 DEF RowsOf
<1>4. ASSUME currentProduct'[u] = currentProduct[u]
      PROVE  \E r \in RowId : Matches(u, r)
  BY <1>1, <1>4 DEF ProductMatchesBilling, TypeOK, RowsOf
<1>5. CASE CreateBilling(h)
  <2>1. PICK id \in RowId : Inserted(h, id)
    BY <1>5, CreateInserts
  <2>2. CASE u = job[h].user
    <3>1. currentProduct'[u] = job[h].event.price
      BY <1>5, <2>2 DEF CreateBilling, TypeOK
    <3>2. Matches(u, id)'
      BY <2>1, <2>2, <3>1 DEF Inserted, PaidRow, RowsOf, Ended
    <3> QED BY <3>2
  <2>3. CASE u # job[h].user
    <3>1. currentProduct'[u] = currentProduct[u]
      BY <2>3, WriteOthers DEF OthersKept
    <3>2. PICK r \in RowId : Matches(u, r)
      BY <1>4, <3>1
    <3>3. Matches(u, r)'
      BY <1>3, <2>1, <3>1, <3>2 DEF Inserted, RowsOf
    <3> QED BY <3>3
  <2> QED BY <2>2, <2>3
<1>6. CASE ~ CreateBilling(h)
  <2>1. Rewritten(h) /\ job[h].row \in RowId
    BY <1>6, OtherWrites DEF Rewritten, TypeOK
  <2>2. /\ billings[job[h].row].userId = job[h].user
        /\ job[h].user \in User
        /\ job[h].row # NoRow
    BY <1>2, <2>1, WriteContext DEF Rewritten
  <2>3. CASE u # job[h].user
    <3>1. currentProduct'[u] = currentProduct[u]
      BY <2>3, WriteOthers DEF OthersKept
    <3>2. PICK r \in RowId : Matches(u, r)
      BY <1>4, <3>1
    <3>3. Matches(u, r)'
      BY <1>3, <2>1, <2>2, <2>3, <3>1, <3>2 DEF Rewritten, RowsOf
    <3> QED BY <3>3
  <2>4. CASE u = job[h].user
    <3>1. job[h].row \in RowsOf(u)'
      BY <2>1, <2>2, <2>4 DEF Rewritten, RowsOf
    <3>2. CASE RenewBilling(h)
      <4>1. /\ billings'[job[h].row] = PaidRow(job[h].user, job[h].event)
            /\ currentProduct'[u] = job[h].event.price
        BY <2>1, <2>4, <3>2 DEF RenewBilling, Rewritten, TypeOK
      <4> QED BY <2>1, <3>1, <4>1 DEF PaidRow, Ended
    <3>3. CASE MarkPastDue(h)
      <4>1. currentProduct'[u] = currentProduct[u]
        BY <3>3 DEF MarkPastDue
      <4>2. PICK r \in RowId : Matches(u, r)
        BY <1>4, <4>1
      <4>3. CASE r = job[h].row
        <5>1. billings[r] \in BillingRow /\ r \in DOMAIN billings
          BY <2>1, <4>3 DEF Rewritten, TypeOK
        <5>2. /\ billings'[r].productId = billings[r].productId
              /\ billings'[r].status = "past_due"
          BY <3>3, <4>3, <5>1 DEF MarkPastDue, BillingRow, TypeOK
        <5> QED BY <3>1, <4>1, <4>2, <4>3, <5>2 DEF Ended
      <4>4. CASE r # job[h].row
        BY <1>3, <2>1, <4>1, <4>2, <4>4 DEF Rewritten, RowsOf
      <4> QED BY <4>3, <4>4
    <3>4. CASE UpdateSubscription(h)
      <4>1. job[h].event.type # "invoice.paid"
        BY <3>4 DEF UpdateSubscription, Written
      <4> DEFINE b == billings[job[h].row]
                 e == job[h].event
      <4>2. /\ b \in BillingRow /\ e \in EventRecord
            /\ b.productId = job[h].product
        BY <1>2, <4>1, FreshWrite
      <4>3. billings'[job[h].row] = UpdatedRow(b, e)
        BY <2>1, <3>4 DEF UpdateSubscription, Rewritten, TypeOK
      <4>4. currentProduct'[u] = UpdatedProduct(h)
        BY <2>2, <2>4, <3>4 DEF UpdateSubscription, TypeOK
      <4>5. e.status \notin Ended
        BY <1>1, <4>4 DEF UpdatedProduct
      <4>6. /\ billings'[job[h].row].productId =
                 (IF e.price = NoProduct THEN b.productId ELSE e.price)
            /\ billings'[job[h].row].status = e.status
        BY <4>2, <4>3, UpdatedFields
      <4>7. CASE e.price # NoProduct /\ e.price # job[h].product
        <5>1. currentProduct'[u] = e.price
          BY <4>4, <4>5, <4>7 DEF UpdatedProduct
        <5> QED BY <2>1, <3>1, <4>5, <4>6, <4>7, <5>1
      <4>8. CASE e.price = NoProduct \/ e.price = job[h].product
        <5>1. currentProduct'[u] = currentProduct[u]
          BY <2>4, <4>4, <4>5, <4>8 DEF UpdatedProduct
        <5>2. PICK r \in RowId : Matches(u, r)
          BY <1>4, <5>1
        <5>3. CASE r = job[h].row
          BY <2>1, <3>1, <4>2, <4>5, <4>6, <4>8, <5>1, <5>2, <5>3
        <5>4. CASE r # job[h].row
          BY <1>3, <2>1, <5>1, <5>2, <5>4 DEF Rewritten, RowsOf
        <5> QED BY <5>3, <5>4
      <4> QED BY <4>7, <4>8
    <3>5. CASE DeleteSubscription(h)
      <4>1. currentProduct' = [currentProduct EXCEPT ![job[h].user] = FreeTier]
        BY <3>5, Zenon DEF DeleteSubscription
      <4>2. currentProduct'[u] = FreeTier
        BY <2>2, <2>4, <4>1 DEF TypeOK
      <4> QED BY <1>1, <4>2
    <3> QED BY <1>6, <3>2, <3>3, <3>4, <3>5 DEF Write
  <2> QED BY <2>3, <2>4
<1> QED BY <1>5, <1>6

LEMMA MatchesStep ==
  ASSUME TypeOK, JobsOK, AllFresh, ProductMatchesBilling, [Next]_vars
  PROVE  ProductMatchesBilling'
<1>1. CASE \E h \in Handler : Write(h)
  BY <1>1, MatchesWrite
<1>2. CASE \E c \in SignIn : DowngradeToFreeTier(c)
  <2>1. \A u \in User : currentProduct'[u] # FreeTier =>
          currentProduct'[u] = currentProduct[u]
    BY <1>2 DEF DowngradeToFreeTier, TypeOK
  <2>2. UNCHANGED billings
    BY <1>2 DEF DowngradeToFreeTier
  <2> QED BY <2>1, <2>2 DEF ProductMatchesBilling, RowsOf
<1>3. CASE UNCHANGED <<billings, currentProduct>>
  BY <1>3 DEF ProductMatchesBilling, RowsOf
<1> QED
  BY <1>1, <1>2, <1>3, Zenon
  DEF Next, vars, db, Environment, Tick, ChangeEmail, Crash, Webhook, Deliver,
      RejectInvoice, FindUser, UnknownUser, FindBilling, FindNoBilling, Reply,
      Session, HasExpiredSubscription, SignInFails

LEMMA SerialStep ==
  ASSUME Apart, SerialInv, [Next]_vars
  PROVE  SerialInv'
BY TypeStep, JobsStep, FreshStep, OneRowStep, SweepsStep, MatchesStep
DEF SerialInv

LEMMA SerialInvariant == ApartSpec => [](SerialInv /\ Apart)
<1>1. Init => Apart
  BY DEF Init, Apart, Idle
<1>2. SerialInv /\ Apart /\ [Next /\ Apart']_vars => (SerialInv /\ Apart)'
  <2>1. UNCHANGED vars /\ Apart => Apart'
    BY DEF vars, Apart
  <2> QED BY <2>1, SerialStep
<1> QED BY <1>1, <1>2, SerialInit, PTL DEF ApartSpec

LEMMA SpecApart == Spec /\ []Apart => ApartSpec
<1>1. [Next]_vars /\ Apart' => [Next /\ Apart']_vars
  OBVIOUS
<1> QED BY <1>1, PTL DEF Spec, ApartSpec

\* One webhook at a time is one of the ways to keep them apart.
LEMMA OneIsApart ==
  ASSUME OneHandler
  PROVE  Spec => ApartSpec
<1>1. Apart'
  BY DEF OneHandler, Apart
<1>2. [Next]_vars => [Next /\ Apart']_vars
  BY <1>1
<1> QED BY <1>2, PTL DEF Spec, ApartSpec

\* As long as the webhooks of one customer do not overlap, no user is left on
\* a paid product that is not the product of one of the user's live billings,
\* whatever events arrive and however the other customers' webhooks, the
\* sign-ins and the crashes fall in between.
THEOREM ApartProductMatches == ApartSpec => []ProductMatchesBilling
<1>1. SerialInv => ProductMatchesBilling
  BY DEF SerialInv
<1> QED BY <1>1, SerialInvariant, PTL

\* So it is when webhooks are handled one at a time.
COROLLARY SerialProductMatches ==
  ASSUME OneHandler
  PROVE  Spec => []ProductMatchesBilling
BY ApartProductMatches, OneIsApart

\* As long as the webhooks of one customer do not overlap, a late event of a
\* replaced subscription changes no billing and no user's product.
THEOREM ApartOldInert == ApartSpec => OldSubscriptionInert
<1> DEFINE Inert(h) ==
      (/\ job[h].pc = "write" /\ job'[h].pc = "reply"
       /\ job[h].event.type # "invoice.paid") =>
          /\ \A r \in DOMAIN billings : billings'[r] # billings[r] =>
                billings[r].sub = job[h].event.sub
          /\ \A u \in User : currentProduct'[u] # currentProduct[u] =>
                \E r \in RowsOf(u) : billings[r].sub = job[h].event.sub
<1>1. ASSUME SerialInv, Next, NEW h \in Handler PROVE Inert(h)
  <2>1. SUFFICES ASSUME job[h].pc = "write", job'[h].pc = "reply",
                        job[h].event.type # "invoice.paid"
                 PROVE  /\ \A r \in DOMAIN billings : billings'[r] # billings[r] =>
                             billings[r].sub = job[h].event.sub
                        /\ \A u \in User : currentProduct'[u] # currentProduct[u] =>
                             \E r \in RowsOf(u) : billings[r].sub = job[h].event.sub
    OBVIOUS
  <2>2. TypeOK /\ JobsOK /\ AllFresh
    BY <1>1 DEF SerialInv
  <2>3. Write(h)
    <3>1. ~ Restart
      BY <2>1 DEF Restart, Idle
    <3>2. ~ UNCHANGED job
      BY <2>1
    <3>3. PICK g \in Handler : Webhook(g)
      BY <1>1, <3>1, <3>2
      DEF Next, Environment, Tick, ChangeEmail, Crash, Session,
          HasExpiredSubscription, DowngradeToFreeTier, SignInFails
    <3>4. Webhook(h)
      BY <2>1, <2>2, <3>3, OthersGoOn DEF Idle
    <3> QED BY <2>1, <3>1, <3>4
        DEF Webhook, Deliver, RejectInvoice, FindUser, UnknownUser, FindBilling,
            FindNoBilling, Reply
  <2>4. ~ CreateBilling(h)
    BY <2>1 DEF CreateBilling, Written
  <2>5. Rewritten(h)
    BY <2>2, <2>3, <2>4, OtherWrites
  <2>6. /\ billings[job[h].row].sub = job[h].event.sub
        /\ billings[job[h].row].userId = job[h].user
    BY <2>1, <2>2, FreshWrite
  <2>7. OthersKept(h)
    BY <2>2, <2>3, WriteOthers
  <2> QED BY <2>5, <2>6, <2>7 DEF Rewritten, OthersKept, RowsOf
<1>2. SerialInv /\ [Next /\ Apart']_vars => [\A h \in Handler : Inert(h)]_vars
  BY <1>1
<1> QED BY <1>2, SerialInvariant, PTL DEF ApartSpec, OldSubscriptionInert

\* Nor does it when webhooks are handled one at a time.
COROLLARY SerialOldInert ==
  ASSUME OneHandler
  PROVE  Spec => OldSubscriptionInert
BY ApartOldInert, OneIsApart

-----------------------------------------------------------------------------
(* Billing implements Entitlement.                                         *)

\* A billings row without its owner: a plan of Entitlement.
PlanIn(r) == [productId |-> billings[r].productId, sub |-> billings[r].sub,
              status |-> billings[r].status, expiresAt |-> billings[r].expiresAt]

\* The plan of a user is the user's one billing.
PlansKnown ==
  \A u \in User : /\ RowsOf(u) = {} => PlanOf(u) = NoRow
                  /\ \A r \in RowsOf(u) : /\ PlanOf(u) = PlanIn(r)
                                          /\ PlanOf(u) # NoRow

Plans == [u \in User |-> PlanOf(u)]

PlanRecord == [productId : Product, sub : Subscription,
               status : Status, expiresAt : Nat]

LEMMA PlanInTyped ==
  ASSUME NEW r, billings[r] \in BillingRow
  PROVE  PlanIn(r) \in PlanRecord
BY DEF PlanIn, PlanRecord, BillingRow

LEMMA PlanInRecord ==
  ASSUME TypeOK, NEW r \in DOMAIN billings
  PROVE  PlanIn(r) # NoRow
<1>1. billings[r] \in BillingRow
  BY DEF TypeOK
<1> QED BY <1>1, PlanInTyped, NoPlanAssumption DEF PlanRecord

LEMMA PlansOfInv == SerialInv => PlansKnown
<1> SUFFICES ASSUME SerialInv, NEW u \in User
             PROVE  /\ RowsOf(u) = {} => PlanOf(u) = NoRow
                    /\ \A r \in RowsOf(u) : /\ PlanOf(u) = PlanIn(r)
                                            /\ PlanOf(u) # NoRow
  BY DEF PlansKnown
<1>1. RowsOf(u) = {} => PlanOf(u) = NoRow
  BY DEF PlanOf
<1>2. ASSUME NEW r \in RowsOf(u)
      PROVE  PlanOf(u) = PlanIn(r) /\ PlanOf(u) # NoRow
  <2>1. RowsOf(u) = {r}
    BY <1>2 DEF RowsOf, SerialInv, OneRow
  <2>2. (CHOOSE q \in RowsOf(u) : TRUE) = r
    BY <2>1
  <2>3. PlanOf(u) = PlanIn(r)
    BY <2>1, <2>2 DEF PlanOf, PlanIn
  <2>4. r \in DOMAIN billings
    BY DEF RowsOf
  <2> QED BY <2>3, <2>4, PlanInRecord DEF SerialInv
<1> QED BY <1>1, <1>2

\* A write changes the plan of its user, to what the row written holds.
LEMMA WritePlans ==
  ASSUME TypeOK, JobsOK, PlansKnown, PlansKnown', NEW h \in Handler, Write(h),
         NEW u, u = job[h].user,
         NEW id \in DOMAIN billings', billings'[id].userId = u,
         Inserted(h, id) \/ (Rewritten(h) /\ id = job[h].row)
  PROVE  /\ u \in User
         /\ Plans' = [Plans EXCEPT ![u] = PlanIn(id)']
<1>1. u \in User
  BY WriteStarts, WriteContext
<1>2. PlanOf(u)' = PlanIn(id)'
  BY <1>1 DEF PlansKnown, RowsOf
<1>3. ASSUME NEW v \in User, v # u PROVE PlanOf(v)' = PlanOf(v)
  <2>1. \A r \in DOMAIN billings : billings[r].userId = v =>
          r \in DOMAIN billings' /\ billings'[r] = billings[r]
    BY <1>3, WriteStarts, WriteContext DEF Inserted, Rewritten
  <2>2. \A r \in DOMAIN billings' : billings'[r].userId = v =>
          r \in DOMAIN billings /\ billings[r].userId = v
    BY <1>3, WriteStarts, WriteContext DEF Inserted, Rewritten
  <2>3. CASE RowsOf(v) = {}
    <3>1. RowsOf(v)' = {}
      BY <2>2, <2>3 DEF RowsOf
    <3> QED BY <2>3, <3>1 DEF PlansKnown
  <2>4. ASSUME NEW r \in RowsOf(v) PROVE PlanOf(v)' = PlanOf(v)
    <3>1. r \in RowsOf(v)' /\ billings'[r] = billings[r]
      BY <2>1, <2>4 DEF RowsOf
    <3>2. PlanIn(r)' = PlanIn(r)
      BY <3>1 DEF PlanIn
    <3> QED BY <2>4, <3>1, <3>2 DEF PlansKnown
  <2> QED BY <2>3, <2>4
<1> QED BY <1>1, <1>2, <1>3 DEF Plans

\* The plan of an ended subscription, field by field.
LEMMA EndedPlan ==
  ASSUME NEW p \in PlanRecord, NEW st \in Status, NEW x \in Nat
  PROVE  [p EXCEPT !.status = st, !.expiresAt = x]
           = [productId |-> p.productId, sub |-> p.sub,
              status |-> st, expiresAt |-> x]
<1> DEFINE q == [p EXCEPT !.status = st, !.expiresAt = x]
<1>1. /\ q \in PlanRecord
      /\ q.productId = p.productId /\ q.sub = p.sub
      /\ q.status = st /\ q.expiresAt = x
  BY DEF PlanRecord
<1> HIDE DEF q
<1>2. q = [productId |-> p.productId, sub |-> p.sub, status |-> st, expiresAt |-> x]
  BY <1>1 DEF PlanRecord
<1> QED BY <1>2 DEF q

\* The write of each event is the one step of Entitlement for it.
LEMMA WriteImplements ==
  ASSUME SerialInv, PlansKnown, PlansKnown', NEW h \in Handler, Write(h)
  PROVE  Ideal!Next
<1> SUFFICES ASSUME NEW e, e = job[h].event, NEW u, u = job[h].user,
                    NEW row, row = job[h].row
             PROVE  Ideal!Next
  OBVIOUS
<1>1. /\ TypeOK /\ JobsOK /\ AllFresh /\ JobOK(h)
      /\ job[h].pc = "write"
  BY WriteStarts DEF SerialInv, JobsOK
<1>2. e \in Event /\ e \in EventRecord /\ u \in User
  BY <1>1, WriteContext DEF JobOK, TypeOK, Job
<1>3. SUFFICES Ideal!Pay(u, e) \/ Ideal!Fail(u, e) \/ Ideal!Update(u, e)
                 \/ Ideal!Delete(u, e)
  BY <1>2 DEF Ideal!Next
<1>4. ASSUME NEW id \in DOMAIN billings', billings'[id] = PaidRow(u, e),
             Inserted(h, id) \/ (Rewritten(h) /\ id = row),
             e.type = "invoice.paid",
             currentProduct' = [currentProduct EXCEPT ![u] = e.price]
      PROVE  Ideal!Pay(u, e)
  <2>1. Plans' = [Plans EXCEPT ![u] = PlanIn(id)']
    BY <1>1, <1>4, WritePlans DEF PaidRow
  <2>2. PlanIn(id)' = [productId |-> e.price, sub |-> e.sub,
                       status |-> "active", expiresAt |-> e.end]
    BY <1>4 DEF PlanIn, PaidRow
  <2>3. e.price # NoProduct
    BY <1>1, <1>4 DEF JobOK
  <2> QED BY <1>4, <2>1, <2>2, <2>3 DEF Ideal!Pay, Plans
<1>5. CASE CreateBilling(h)
  <2>1. PICK id \in RowId : Inserted(h, id)
    BY <1>1, <1>5, CreateInserts
  <2> QED BY <1>4, <1>5, <2>1 DEF CreateBilling, Written, Inserted
<1>6. CASE ~ CreateBilling(h)
  <2>1. Rewritten(h) /\ row \in DOMAIN billings'
    BY <1>1, <1>6, OtherWrites DEF Rewritten
  <2>2. CASE RenewBilling(h)
    <3>1. billings'[row] = PaidRow(u, e)
      BY <1>1, <2>1, <2>2 DEF RenewBilling, Rewritten, TypeOK
    <3> QED BY <1>4, <2>1, <2>2, <3>1 DEF RenewBilling, Written
  <2>3. ASSUME e.type # "invoice.paid"
        PROVE  /\ billings[row] \in BillingRow
               /\ billings[row].productId = job[h].product
               /\ Plans' = [Plans EXCEPT ![u] = PlanIn(row)']
               /\ Plans[u] = PlanIn(row)
               /\ Plans[u].productId = job[h].product
               /\ Ideal!Subscribed(u, e)
    <3>1. /\ row \in DOMAIN billings
          /\ billings[row] \in BillingRow
          /\ billings[row].userId = u
          /\ billings[row].productId = job[h].product
          /\ billings[row].sub = e.sub
      BY <1>1, <2>3, FreshWrite
    <3>2. row \in RowsOf(u)
      BY <3>1 DEF RowsOf
    <3>3. PlanOf(u) = PlanIn(row) /\ PlanOf(u) # NoRow
      BY <1>2, <3>2 DEF PlansKnown
    <3>4. Plans[u] = PlanIn(row) /\ Plans[u] # NoRow
      BY <1>2, <3>3 DEF Plans
    <3>5. Plans[u].sub = e.sub /\ Plans[u].productId = job[h].product
      BY <3>1, <3>4 DEF PlanIn
    <3>6. Ideal!Subscribed(u, e)
      BY <3>4, <3>5 DEF Ideal!Subscribed, Plans
    <3>7. Plans' = [Plans EXCEPT ![u] = PlanIn(row)']
      BY <1>1, <2>1, <3>1, WritePlans DEF Rewritten
    <3> QED BY <3>1, <3>4, <3>5, <3>6, <3>7
  <2>4. CASE MarkPastDue(h)
    <3>1. e.type = "invoice.payment_failed" /\ UNCHANGED currentProduct
      BY <2>4 DEF MarkPastDue, Written
    <3>2. billings'[row] = [billings[row] EXCEPT !.status = "past_due"]
      BY <1>1, <2>1, <2>4 DEF MarkPastDue, Rewritten, TypeOK
    <3>3. PlanIn(row)' = [PlanIn(row) EXCEPT !.status = "past_due"]
      BY <2>3, <3>1, <3>2 DEF PlanIn, BillingRow
    <3>4. Plans' = [Plans EXCEPT ![u].status = "past_due"]
      <4>1. PlanIn(row)' = [Plans[u] EXCEPT !.status = "past_due"]
        BY <2>3, <3>1, <3>3, Zenon
      <4>2. Plans' = [Plans EXCEPT ![u] = PlanIn(row)']
        BY <2>3, <3>1, Zenon
      <4> QED BY <4>1, <4>2, Zenon
    <3> QED BY <2>3, <3>1, <3>4 DEF Ideal!Fail, Plans
  <2>5. CASE UpdateSubscription(h)
    <3>1. e.type = "customer.subscription.updated"
      BY <2>5 DEF UpdateSubscription, Written
    <3>2. billings'[row] = UpdatedRow(billings[row], e)
      BY <1>1, <2>1, <2>5 DEF UpdateSubscription, Rewritten, TypeOK
    <3> DEFINE next == IF e.price = NoProduct THEN Plans[u].productId
                       ELSE e.price
    <3>3. PlanIn(row)' = [PlanIn(row) EXCEPT !.productId = next,
                                             !.status = e.status,
                                             !.expiresAt = e.end]
      <4>1. /\ billings'[row].productId = next
            /\ billings'[row].sub = billings[row].sub
            /\ billings'[row].status = e.status
            /\ billings'[row].expiresAt = e.end
        BY <1>2, <2>3, <3>1, <3>2, UpdatedFields
      <4> HIDE DEF next
      <4>2. PlanIn(row)' = [productId |-> next, sub |-> billings[row].sub,
                            status |-> e.status, expiresAt |-> e.end]
        BY <4>1 DEF PlanIn
      <4>3. /\ PlanIn(row) \in PlanRecord
            /\ next \in Product /\ e.status \in Status /\ e.end \in Nat
        BY <1>2, <2>3, <3>1, PlanInTyped DEF next, EventRecord, PlanRecord
      <4>4. PlanIn(row).sub = billings[row].sub
        BY DEF PlanIn
      <4> DEFINE q == [PlanIn(row) EXCEPT !.productId = next,
                                        !.status = e.status,
                                        !.expiresAt = e.end]
      <4>5. /\ q \in PlanRecord
            /\ q.productId = next /\ q.sub = PlanIn(row).sub
            /\ q.status = e.status /\ q.expiresAt = e.end
        BY <4>3 DEF PlanRecord
      <4> HIDE DEF q
      <4>6. q = [productId |-> next, sub |-> billings[row].sub,
                 status |-> e.status, expiresAt |-> e.end]
        BY <4>4, <4>5 DEF PlanRecord
      <4> QED BY <4>2, <4>6 DEF q
    <3>4. Plans' = [Plans EXCEPT ![u].productId = next,
                                 ![u].status = e.status,
                                 ![u].expiresAt = e.end]
      <4> HIDE DEF next
      <4>1. PlanIn(row)' = [Plans[u] EXCEPT !.productId = next,
                                            !.status = e.status,
                                            !.expiresAt = e.end]
        BY <2>3, <3>1, <3>3, Zenon
      <4>2. Plans' = [Plans EXCEPT ![u] = PlanIn(row)']
        BY <2>3, <3>1, Zenon
      <4> QED BY <4>1, <4>2, Zenon
    <3>5. UpdatedProduct(h) = IF e.status \in Ended THEN FreeTier
                              ELSE IF next # Plans[u].productId THEN next
                              ELSE currentProduct[u]
      BY <2>3, <3>1 DEF UpdatedProduct
    <3>6. currentProduct' = [currentProduct EXCEPT ![u] = UpdatedProduct(h)]
      BY <2>5 DEF UpdateSubscription
    <3>7. Ideal!Ended = Ended
      BY Zenon DEF Ideal!Ended, Ended
    <3> QED BY <2>3, <3>1, <3>4, <3>5, <3>6, <3>7 DEF Ideal!Update, Plans
  <2>6. CASE DeleteSubscription(h)
    <3>1. /\ e.type = "customer.subscription.deleted"
          /\ currentProduct' = [currentProduct EXCEPT ![u] = FreeTier]
      BY <2>6 DEF DeleteSubscription, Written
    <3>2. PICK t \in 0 .. now :
            billings' = [billings EXCEPT ![row].status = "canceled",
                                         ![row].expiresAt = t]
      BY <2>6 DEF DeleteSubscription
    <3>3. t \in 0 .. MaxTime
      BY <1>1 DEF TypeOK
    <3>4. billings'[row] = [billings[row] EXCEPT !.status = "canceled",
                                                 !.expiresAt = t]
      BY <1>1, <2>1, <3>2 DEF Rewritten, TypeOK
    <3>5. PlanIn(row)' = [PlanIn(row) EXCEPT !.status = "canceled",
                                             !.expiresAt = t]
      <4>1. /\ billings'[row].productId = billings[row].productId
            /\ billings'[row].sub = billings[row].sub
            /\ billings'[row].status = "canceled"
            /\ billings'[row].expiresAt = t
        BY <2>3, <3>1, <3>4 DEF BillingRow
      <4>2. PlanIn(row)' = [productId |-> billings[row].productId,
                            sub |-> billings[row].sub,
                            status |-> "canceled", expiresAt |-> t]
        BY <4>1 DEF PlanIn
      <4>3. PlanIn(row) \in PlanRecord /\ "canceled" \in Status /\ t \in Nat
        BY <2>3, <3>1, PlanInTyped DEF Status
      <4>4. /\ PlanIn(row).productId = billings[row].productId
            /\ PlanIn(row).sub = billings[row].sub
        BY DEF PlanIn
      <4>5. [PlanIn(row) EXCEPT !.status = "canceled", !.expiresAt = t]
              = [productId |-> PlanIn(row).productId, sub |-> PlanIn(row).sub,
                 status |-> "canceled", expiresAt |-> t]
        BY <4>3, EndedPlan, Zenon
      <4> QED BY <4>2, <4>4, <4>5, Zenon
    <3>6. Plans' = [Plans EXCEPT ![u].status = "canceled", ![u].expiresAt = t]
      BY <2>3, <3>1, <3>5, Zenon
    <3> QED BY <2>3, <3>1, <3>3, <3>6 DEF Ideal!Delete, Plans
  <2> QED BY <1>6, <2>2, <2>4, <2>5, <2>6 DEF Write
<1> QED BY <1>5, <1>6

\* Nothing else is seen but a sign-in's downgrade.
LEMMA StepImplements ==
  ASSUME SerialInv, PlansKnown, PlansKnown', [Next]_vars
  PROVE  [Ideal!Next]_(Ideal!vars)
<1>1. CASE \E h \in Handler : Write(h)
  BY <1>1, WriteImplements
<1>2. ASSUME NEW c \in SignIn, DowngradeToFreeTier(c) PROVE Ideal!Next
  <2>1. sweep[c] \in User /\ RowsOf(sweep[c]) # {}
    BY <1>2 DEF DowngradeToFreeTier, SerialInv, SweepsOwned, TypeOK
  <2>2. PlanOf(sweep[c]) # NoRow
    BY <2>1 DEF PlansKnown
  <2>3. UNCHANGED Plans
    BY <1>2 DEF DowngradeToFreeTier, Plans, PlanOf, RowsOf
  <2>4. Ideal!Downgrade(sweep[c])
    BY <1>2, <2>1, <2>2, <2>3 DEF DowngradeToFreeTier, Ideal!Downgrade, Plans
  <2> QED BY <2>1, <2>4 DEF Ideal!Next
<1>3. CASE UNCHANGED <<billings, currentProduct>>
  BY <1>3 DEF Ideal!vars, PlanOf, RowsOf
<1> QED
  BY <1>1, <1>2, <1>3, Zenon
  DEF Next, vars, db, Environment, Tick, ChangeEmail, Crash, Webhook, Deliver,
      RejectInvoice, FindUser, UnknownUser, FindBilling, FindNoBilling, Reply,
      Session, HasExpiredSubscription, SignInFails

\* As long as those of one customer do not overlap, webhooks are the
\* indivisible steps of Entitlement: other customers' webhooks, sign-ins,
\* e-mail changes, repeated deliveries and crashes between the reads and the
\* write of a handler do not show.
THEOREM ApartImplements == ApartSpec => ImplementsEntitlement
<1>1. Init => Ideal!Init
  BY DEF Init, Ideal!Init, PlanOf, RowsOf
<1>2. SerialInv => PlansKnown
  BY PlansOfInv
<1>3. SerialInv /\ PlansKnown /\ PlansKnown' /\ [Next /\ Apart']_vars
        => [Ideal!Next]_(Ideal!vars)
  BY StepImplements
<1> QED BY <1>1, <1>2, <1>3, SerialInvariant, PTL
    DEF ApartSpec, ImplementsEntitlement, Ideal!Spec

\* So are webhooks that are handled one at a time.
COROLLARY SerialImplements ==
  ASSUME OneHandler
  PROVE  Spec => ImplementsEntitlement
BY ApartImplements, OneIsApart

=============================================================================
