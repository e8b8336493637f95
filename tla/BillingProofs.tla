---------------------------- MODULE BillingProofs ----------------------------
(***************************************************************************)
(* Proofs about Billing for every set of users, products, subscriptions,   *)
(* events, request slots and every clock bound.                            *)
(***************************************************************************)
EXTENDS Billing, FiniteSetTheorems, TLAPS

USE FreeTierAssumption, NullAssumption, EventAssumption, MaxTimeAssumption

LEMMA TypeInit == Init => TypeOK
  BY DEF Init, TypeOK, Job, Idle, PC, BillingRow

\* What is known at the write of a webhook: the event, the owner, and either
\* no row (only for a payment) or a row of the owner.
LEMMA WriteContext ==
  ASSUME TypeOK, JobsOK, NEW h \in Handler, job[h].pc = "write"
  PROVE  /\ job[h].event \in EventRecord
         /\ job[h].user \in User
         /\ job[h].row # NoRow => /\ job[h].row \in DOMAIN billings
                                 /\ job[h].row \in RowId
                                 /\ billings[job[h].row] \in BillingRow
                                 /\ billings[job[h].row].userId = job[h].user
         /\ job[h].event.type # "invoice.paid" => job[h].row # NoRow
         /\ job[h].event.type = "invoice.paid" =>
              /\ job[h].event.price \in Product
              /\ PaidRow(job[h].user, job[h].event) \in BillingRow
<1>1. JobOK(h) /\ job[h] \in Job
  BY DEF JobsOK, TypeOK
<1>2. job[h].event \in EventRecord
  BY <1>1 DEF JobOK, Job
<1>3. job[h].row # NoRow => /\ job[h].row \in DOMAIN billings
                            /\ job[h].row \in RowId
                            /\ billings[job[h].row] \in BillingRow
                            /\ billings[job[h].row].userId = job[h].user
  BY <1>1 DEF JobOK, TypeOK
<1>4. job[h].event.type # "invoice.paid" => job[h].row # NoRow
  BY <1>1 DEF JobOK
<1>5. job[h].user \in User
  BY <1>1, <1>3, <1>4 DEF JobOK, BillingRow
<1>6. ASSUME job[h].event.type = "invoice.paid"
      PROVE  /\ job[h].event.price \in Product
             /\ PaidRow(job[h].user, job[h].event) \in BillingRow
  <2>1. job[h].event.price \in Product /\ job[h].event.sub \in Subscription
    BY <1>1, <1>2, <1>6 DEF JobOK, EventRecord, IsInvoice
  <2> QED BY <1>2, <1>5, <2>1 DEF PaidRow, BillingRow, EventRecord, Status
<1> QED BY <1>2, <1>3, <1>4, <1>5, <1>6

\* The writes keep the tables typed.
LEMMA WriteType ==
  ASSUME TypeOK, JobsOK, NEW h \in Handler, Write(h)
  PROVE  TypeOK'
<1> USE DEF Written
<1>1. job[h].pc = "write" /\ job' = [job EXCEPT ![h].pc = "reply"]
  BY DEF Write, CreateBilling, RenewBilling, MarkPastDue, UpdateSubscription,
         DeleteSubscription
<1>2. UNCHANGED <<email, sweep, now>>
  BY DEF Write, CreateBilling, RenewBilling, MarkPastDue, UpdateSubscription,
         DeleteSubscription
<1>3. job' \in [Handler -> Job]
  <2>1. [job[h] EXCEPT !.pc = "reply"] \in Job
    BY DEF TypeOK, Job, PC
  <2>2. job' = [job EXCEPT ![h] = [job[h] EXCEPT !.pc = "reply"]]
    BY <1>1
  <2> QED BY <2>1, <2>2 DEF TypeOK
<1> DEFINE Tables == /\ currentProduct' \in [User -> Product]
                     /\ DOMAIN billings' \subseteq RowId
                     /\ billings' \in [DOMAIN billings' -> BillingRow]
<1>4. Tables
  <2>1. CASE CreateBilling(h)
    <3>1. PICK id \in RowId \ DOMAIN billings :
            billings' = [r \in DOMAIN billings \cup {id} |->
                          IF r = id THEN PaidRow(job[h].user, job[h].event)
                          ELSE billings[r]]
      BY <2>1 DEF CreateBilling
    <3> QED BY <1>1, <2>1, <3>1, WriteContext DEF CreateBilling, TypeOK
  <2>2. CASE RenewBilling(h)
    BY <1>1, <2>2, WriteContext DEF RenewBilling, TypeOK
  <2>3. CASE MarkPastDue(h)
    <3>1. [billings[job[h].row] EXCEPT !.status = "past_due"] \in BillingRow
      BY <1>1, <2>3, WriteContext DEF MarkPastDue, BillingRow, Status
    <3>2. billings' = [billings EXCEPT ![job[h].row] =
                         [billings[job[h].row] EXCEPT !.status = "past_due"]]
      BY <2>3 DEF MarkPastDue
    <3> QED BY <2>3, <3>1, <3>2 DEF MarkPastDue, TypeOK
  <2>4. CASE UpdateSubscription(h)
    <3> DEFINE b == billings[job[h].row]
               e == job[h].event
               product == IF e.price = NoProduct THEN b.productId ELSE e.price
    <3>1. UpdatedRow(b, e) \in BillingRow
      <4>1. /\ b \in BillingRow
            /\ e.status \in Status /\ e.end \in Nat
            /\ e.price \in Product \cup {NoProduct}
        BY <1>1, <2>4, WriteContext DEF UpdateSubscription, EventRecord
      <4>2. UpdatedRow(b, e) = [b EXCEPT !.productId = product,
                                         !.status = e.status, !.expiresAt = e.end]
        BY DEF UpdatedRow
      <4>3. product \in Product
        BY <4>1 DEF BillingRow
      <4> HIDE DEF b, e, product
      <4> QED BY <4>1, <4>2, <4>3 DEF BillingRow
    <3>2. UpdatedProduct(h) \in Product
      BY <1>1, WriteContext DEF UpdatedProduct, EventRecord, TypeOK
    <3> QED BY <2>4, <3>1, <3>2 DEF UpdateSubscription, TypeOK
  <2>5. CASE DeleteSubscription(h)
    <3>1. PICK t \in 0 .. now :
            billings' = [billings EXCEPT ![job[h].row] =
                           [billings[job[h].row] EXCEPT !.status = "canceled",
                                                        !.expiresAt = t]]
      BY <2>5 DEF DeleteSubscription
    <3>2. [billings[job[h].row] EXCEPT !.status = "canceled",
                                       !.expiresAt = t] \in BillingRow
      <4>1. billings[job[h].row] \in BillingRow
        BY <1>1, <2>5, WriteContext DEF DeleteSubscription
      <4>2. t \in Nat
        BY DEF TypeOK
      <4> QED BY <4>1, <4>2 DEF BillingRow, Status
    <3>3. billings' \in [DOMAIN billings -> BillingRow]
      BY <3>1, <3>2 DEF TypeOK
    <3>4. currentProduct' \in [User -> Product]
      BY <2>5 DEF DeleteSubscription, TypeOK
    <3> QED BY <3>3, <3>4 DEF TypeOK
  <2> QED BY <2>1, <2>2, <2>3, <2>4, <2>5 DEF Write
<1> QED BY <1>2, <1>3, <1>4 DEF TypeOK

\* The typing invariant needs what handlers know (JobsOK): a row is written
\* from an event that is known to carry a subscription and a price.
LEMMA TypeStep == TypeOK /\ JobsOK /\ [Next]_vars => TypeOK'
<1> SUFFICES ASSUME TypeOK, JobsOK, [Next]_vars PROVE TypeOK'
  OBVIOUS
<1> USE DEF TypeOK
<1>1. CASE Environment
  BY <1>1 DEF Environment, Tick, ChangeEmail, Crash, Restart, db, Idle, Job, PC
<1>2. ASSUME NEW h \in Handler, Webhook(h) PROVE TypeOK'
  <2>1. ASSUME NEW e \in Event, Deliver(h, e) PROVE TypeOK'
    <3>1. Route(e) \in PC
      BY DEF Route, PC
    <3> QED BY <2>1, <3>1 DEF Deliver, Idle, Job, PC, db
  <2>2. ASSUME NEW e \in Event, RejectInvoice(h, e) PROVE TypeOK'
    BY <2>2 DEF RejectInvoice, Restart, Idle, Job, PC, db
  <2>3. CASE FindUser(h)
    <3>1. PICK u \in User :
            job' = [job EXCEPT ![h].pc = "findBilling", ![h].user = u]
      BY <2>3 DEF FindUser
    <3>2. job[h] \in Job
      OBVIOUS
    <3>3. [job[h] EXCEPT !.pc = "findBilling", !.user = u] \in Job
      BY <3>2 DEF Job, PC
    <3>4. job' = [job EXCEPT ![h] =
                    [job[h] EXCEPT !.pc = "findBilling", !.user = u]]
      BY <3>1
    <3>5. job' \in [Handler -> Job]
      BY <3>3, <3>4
    <3> QED BY <2>3, <3>5 DEF FindUser, db
  <2>4. CASE UnknownUser(h)
    BY <2>4 DEF UnknownUser, Restart, Idle, Job, PC, db
  <2>5. CASE FindBilling(h)
    <3>1. PICK r \in Matching(h) :
            job' = [job EXCEPT ![h].pc = "write", ![h].row = r,
                               ![h].product = billings[r].productId,
                               ![h].user = billings[r].userId]
      BY <2>5 DEF FindBilling
    <3>2. job[h] \in Job
      OBVIOUS
    <3>3. r \in DOMAIN billings /\ r \in RowId
      BY DEF Matching, RowsOf, RowsWith
    <3>4. billings[r].productId \in Product /\ billings[r].userId \in User
      BY <3>3 DEF BillingRow
    <3>5. [job[h] EXCEPT !.pc = "write", !.row = r,
                         !.product = billings[r].productId,
                         !.user = billings[r].userId] \in Job
      BY <3>2, <3>3, <3>4 DEF Job, PC
    <3>6. job' = [job EXCEPT ![h] =
                    [job[h] EXCEPT !.pc = "write", !.row = r,
                                   !.product = billings[r].productId,
                                   !.user = billings[r].userId]]
      BY <3>1
    <3>7. job' \in [Handler -> Job]
      BY <3>5, <3>6
    <3> QED BY <2>5, <3>7 DEF FindBilling, db
  <2>6. CASE FindNoBilling(h)
    <3> DEFINE next == IF job[h].event.type = "invoice.paid" THEN "write" ELSE "reply"
    <3>1. job' = [job EXCEPT ![h] = [job[h] EXCEPT !.pc = next]]
      BY <2>6 DEF FindNoBilling
    <3>2. next \in PC
      BY DEF PC
    <3> HIDE DEF next
    <3>3. [job[h] EXCEPT !.pc = next] \in Job
      BY <3>2 DEF Job
    <3> QED BY <2>6, <3>1, <3>3 DEF FindNoBilling, db
  <2>7. CASE Write(h)
    BY <2>7, WriteType
  <2>8. CASE Reply(h)
    BY <2>8 DEF Reply, Idle, Job, PC, db
  <2> QED BY <1>2, <2>1, <2>2, <2>3, <2>4, <2>5, <2>6, <2>7, <2>8 DEF Webhook
<1>3. ASSUME NEW c \in SignIn, Session(c) PROVE TypeOK'
  BY <1>3 DEF Session, HasExpiredSubscription, DowngradeToFreeTier, SignInFails, db
<1>4. CASE UNCHANGED vars
  BY <1>4 DEF vars
<1> QED BY <1>1, <1>2, <1>3, <1>4 DEF Next

-----------------------------------------------------------------------------

\* Rows are never deleted and never change hands.
RowsKept ==
  \A r \in DOMAIN billings :
    /\ r \in DOMAIN billings'
    /\ billings'[r].userId = billings[r].userId

LEMMA WriteKeepsRows ==
  ASSUME TypeOK, JobsOK, NEW h \in Handler, Write(h)
  PROVE  RowsKept
<1> USE DEF RowsKept, Written
<1>1. CASE CreateBilling(h)
  BY <1>1 DEF CreateBilling
<1>2. CASE RenewBilling(h)
  BY <1>2, WriteContext DEF RenewBilling, PaidRow
<1>3. CASE MarkPastDue(h)
  BY <1>3, WriteContext DEF MarkPastDue, BillingRow, TypeOK
<1>4. CASE UpdateSubscription(h)
  BY <1>4, WriteContext DEF UpdateSubscription, UpdatedRow, BillingRow, TypeOK
<1>5. CASE DeleteSubscription(h)
  BY <1>5, WriteContext DEF DeleteSubscription, BillingRow, TypeOK
<1> QED BY <1>1, <1>2, <1>3, <1>4, <1>5 DEF Write

\* What a handler knows stays true while others run.
LEMMA JobKept ==
  ASSUME RowsKept, NEW g \in Handler, JobOK(g), job'[g] = job[g]
  PROVE  JobOK(g)'
BY DEF JobOK, RowsKept

LEMMA IdleOK ==
  ASSUME NEW g \in Handler, job'[g] = Idle
  PROVE  JobOK(g)'
BY DEF JobOK, Idle


LEMMA JobsInit == Init => JobsOK
  BY DEF Init, JobsOK, JobOK, Idle

LEMMA JobsStep == TypeOK /\ JobsOK /\ [Next]_vars => JobsOK'
<1> SUFFICES ASSUME TypeOK, JobsOK, [Next]_vars PROVE JobsOK'
  OBVIOUS
<1>1. ASSUME UNCHANGED billings, job' = job PROVE JobsOK'
  BY <1>1, JobKept DEF JobsOK, RowsKept
<1>2. ASSUME UNCHANGED billings, Restart PROVE JobsOK'
  BY <1>2, IdleOK DEF JobsOK, Restart
<1>3. CASE Environment
  BY <1>1, <1>2, <1>3 DEF Environment, Tick, ChangeEmail, Crash, db
<1>4. ASSUME NEW c \in SignIn, Session(c) PROVE JobsOK'
  BY <1>1, <1>4
  DEF Session, HasExpiredSubscription, DowngradeToFreeTier, SignInFails, db
<1>5. ASSUME NEW h \in Handler, Webhook(h) PROVE JobsOK'
  \* Only h moves: the others keep what they know.
  <2>1. ASSUME RowsKept, JobOK(h)',
               \A g \in Handler \ {h} : job'[g] = job[g]
        PROVE  JobsOK'
    <3> SUFFICES ASSUME NEW g \in Handler PROVE JobOK(g)'
      BY DEF JobsOK
    <3>1. CASE g = h
      BY <2>1, <3>1
    <3>2. CASE g # h
      BY <2>1, <3>2, JobKept DEF JobsOK
    <3> QED BY <3>1, <3>2
  <2>2. JobOK(h) /\ job[h] \in Job
    BY DEF JobsOK, TypeOK
  <2>3. ASSUME UNCHANGED billings PROVE RowsKept
    BY <2>3 DEF RowsKept
  <2>4. ASSUME NEW e \in Event, Deliver(h, e) PROVE JobsOK'
    <3>1. /\ job'[h] = [Idle EXCEPT !.pc = Route(e), !.event = e]
          /\ UNCHANGED billings
          /\ \A g \in Handler \ {h} : job'[g] = job[g]
      BY <2>4 DEF Deliver, TypeOK, db
    <3>2. e \in EventRecord /\ e # NoEvent
      OBVIOUS
    <3>3. /\ job'[h].pc = Route(e) /\ job'[h].event = e
          /\ job'[h].row = NoRow
      BY <3>1 DEF Idle
    <3>4. IsInvoice(e) => e.sub \in Subscription
      BY <2>4, <3>2 DEF Deliver, EventRecord
    <3>5. /\ Route(e) \in {"findUser", "findBilling", "reply"}
          /\ Route(e) = "findUser" => e.type = "invoice.paid"
          /\ Route(e) = "findBilling" => e.type # "invoice.paid"
          /\ Route(e) # "reply" =>
               e.type # "other" /\ ~ (e.type = "invoice.paid" /\ e.price = NoProduct)
      BY DEF Route
    <3>6. JobOK(h)'
      BY <3>2, <3>3, <3>4, <3>5 DEF JobOK, IsInvoice
    <3> QED BY <2>1, <2>3, <3>1, <3>6
  <2>5. ASSUME NEW e \in Event, RejectInvoice(h, e) PROVE JobsOK'
    BY <1>2, <2>5 DEF RejectInvoice, db
  <2>6. CASE FindUser(h)
    <3>1. PICK u \in User :
            job' = [job EXCEPT ![h].pc = "findBilling", ![h].user = u]
      BY <2>6 DEF FindUser
    <3>2. job'[h] = [job[h] EXCEPT !.pc = "findBilling", !.user = u]
      BY <3>1 DEF TypeOK
    <3>3. /\ job'[h].pc = "findBilling" /\ job'[h].event = job[h].event
          /\ job'[h].row = job[h].row /\ job'[h].user = u
      BY <2>2, <3>2 DEF Job
    <3>4. JobOK(h)'
      BY <2>2, <2>6, <3>3 DEF JobOK, FindUser, IsInvoice
    <3> QED BY <2>1, <2>3, <2>6, <3>1, <3>4 DEF FindUser, TypeOK, db
  <2>7. CASE UnknownUser(h)
    BY <1>2, <2>7 DEF UnknownUser, db
  <2>8. CASE FindBilling(h)
    <3>1. PICK r \in Matching(h) :
            job' = [job EXCEPT ![h].pc = "write", ![h].row = r,
                               ![h].product = billings[r].productId,
                               ![h].user = billings[r].userId]
      BY <2>8 DEF FindBilling
    <3>2. job'[h] = [job[h] EXCEPT !.pc = "write", !.row = r,
                                   !.product = billings[r].productId,
                                   !.user = billings[r].userId]
      BY <3>1 DEF TypeOK
    <3>3. r \in DOMAIN billings /\ r # NoRow /\ billings[r].userId \in User
      BY DEF Matching, RowsOf, RowsWith, TypeOK, BillingRow
    <3>4. UNCHANGED billings
      BY <2>8 DEF FindBilling, db
    <3>5. JobOK(h)'
      <4>1. /\ job'[h].pc = "write" /\ job'[h].event = job[h].event
            /\ job'[h].row = r /\ job'[h].user = billings[r].userId
        BY <2>2, <3>2 DEF Job
      <4> QED BY <2>2, <2>8, <3>3, <3>4, <4>1 DEF JobOK, FindBilling, IsInvoice
    <3> QED BY <2>1, <2>3, <2>8, <3>1, <3>5 DEF FindBilling, TypeOK, db
  <2>9. CASE FindNoBilling(h)
    <3>1. job'[h] = [job[h] EXCEPT
                       !.pc = IF job[h].event.type = "invoice.paid"
                              THEN "write" ELSE "reply"]
      BY <2>9 DEF FindNoBilling, TypeOK
    <3>2. JobOK(h)'
      BY <2>2, <2>9, <3>1 DEF JobOK, FindNoBilling, Job
    <3> QED BY <2>1, <2>3, <2>9, <3>2 DEF FindNoBilling, TypeOK, db
  <2>10. CASE Write(h)
    <3>1. job[h].pc = "write" /\ job' = [job EXCEPT ![h].pc = "reply"]
      BY <2>10 DEF Write, CreateBilling, RenewBilling, MarkPastDue,
                   UpdateSubscription, DeleteSubscription, Written
    <3>2. job'[h] = [job[h] EXCEPT !.pc = "reply"]
      BY <3>1 DEF TypeOK
    <3>3. JobOK(h)'
      BY <2>2, <3>1, <3>2 DEF JobOK, Job
    <3> QED BY <2>1, <2>10, <3>1, <3>3, WriteKeepsRows DEF TypeOK
  <2>11. CASE Reply(h)
    <3>1. job'[h] = Idle /\ \A g \in Handler \ {h} : job'[g] = job[g]
      BY <2>11 DEF Reply, TypeOK
    <3> QED BY <2>1, <2>3, <2>11, <3>1, IdleOK DEF Reply, db
  <2> QED BY <1>5, <2>4, <2>5, <2>6, <2>7, <2>8, <2>9, <2>10, <2>11 DEF Webhook
<1>6. CASE UNCHANGED vars
  BY <1>1, <1>6 DEF vars
<1> QED BY <1>3, <1>4, <1>5, <1>6 DEF Next


-----------------------------------------------------------------------------
(* A paid product is backed by a billing that has not ended.               *)

LEMMA BackedInit == Init => Backed
  BY DEF Init, Backed

\* Each write: the owner's witness is the row written, or the owner goes to
\* the free tier; everybody else's witness is another row.
LEMMA WriteBacked ==
  ASSUME TypeOK, JobsOK, Backed, NEW h \in Handler, Write(h)
  PROVE  Backed'
<1> USE DEF Written, RowsOf
<1>1. SUFFICES ASSUME NEW u \in User, currentProduct'[u] # FreeTier
               PROVE  \E r \in RowsOf(u)' : billings'[r].status \notin Ended
  BY DEF Backed
<1>2. job[h].pc = "write"
  BY DEF Write, CreateBilling, RenewBilling, MarkPastDue, UpdateSubscription,
         DeleteSubscription
<1>3. ASSUME u # job[h].user, currentProduct'[u] = currentProduct[u],
             \A r \in DOMAIN billings : billings[r].userId = u =>
               r \in DOMAIN billings' /\ billings'[r] = billings[r]
      PROVE  \E r \in RowsOf(u)' : billings'[r].status \notin Ended
  BY <1>1, <1>3 DEF Backed
<1>4. CASE CreateBilling(h)
  <2>1. PICK id \in RowId \ DOMAIN billings :
          billings' = [r \in DOMAIN billings \cup {id} |->
                        IF r = id THEN PaidRow(job[h].user, job[h].event)
                        ELSE billings[r]]
    BY <1>4 DEF CreateBilling
  <2>2. CASE u = job[h].user
    <3>1. id \in RowsOf(u)' /\ billings'[id].status = "active"
      BY <2>1, <2>2 DEF PaidRow
    <3> QED BY <3>1 DEF Ended
  <2>3. CASE u # job[h].user
    BY <1>3, <1>4, <2>1, <2>3 DEF CreateBilling, TypeOK
  <2> QED BY <2>2, <2>3
<1>5. CASE RenewBilling(h)
  <2>1. /\ job[h].row \in DOMAIN billings
        /\ billings[job[h].row].userId = job[h].user
    BY <1>2, <1>5, WriteContext DEF RenewBilling
  <2>2. CASE u = job[h].user
    <3>1. job[h].row \in RowsOf(u)' /\ billings'[job[h].row].status = "active"
      BY <1>5, <2>1, <2>2 DEF RenewBilling, PaidRow
    <3> QED BY <3>1 DEF Ended
  <2>3. CASE u # job[h].user
    BY <1>3, <1>5, <2>1, <2>3 DEF RenewBilling, TypeOK
  <2> QED BY <2>2, <2>3
<1>6. ASSUME job[h].event.type # "invoice.paid"
      PROVE  /\ job[h].row \in DOMAIN billings
             /\ billings[job[h].row] \in BillingRow
             /\ billings[job[h].row].userId = job[h].user
             /\ job[h].user \in User
             /\ job[h].event.status \in Status
  BY <1>2, <1>6, WriteContext DEF EventRecord
<1>7. CASE MarkPastDue(h)
  <2>1. PICK r \in RowsOf(u) : billings[r].status \notin Ended
    BY <1>1, <1>7 DEF MarkPastDue, Backed
  <2>2. r \in DOMAIN billings' /\ billings'[r].userId = u
    BY <1>7, WriteKeepsRows DEF RowsKept
  <2>3. billings'[r].status \in {billings[r].status, "past_due"}
    BY <1>6, <1>7 DEF MarkPastDue, BillingRow, TypeOK
  <2> QED BY <2>1, <2>2, <2>3 DEF Ended
<1>8. CASE UpdateSubscription(h)
  <2>1. CASE u = job[h].user
    <3>1. job[h].event.status \notin Ended
      BY <1>1, <1>6, <1>8, <2>1 DEF UpdateSubscription, UpdatedProduct, TypeOK
    <3>2. billings'[job[h].row].status = job[h].event.status
      BY <1>6, <1>8 DEF UpdateSubscription, UpdatedRow, BillingRow, TypeOK
    <3>3. job[h].row \in RowsOf(u)'
      BY <1>6, <1>8, <2>1, WriteKeepsRows DEF RowsKept, UpdateSubscription
    <3> QED BY <3>1, <3>2, <3>3
  <2>2. CASE u # job[h].user
    BY <1>3, <1>6, <1>8, <2>2 DEF UpdateSubscription, TypeOK
  <2> QED BY <2>1, <2>2
<1>9. CASE DeleteSubscription(h)
  <2>1. u # job[h].user
    BY <1>1, <1>6, <1>9 DEF DeleteSubscription, TypeOK
  <2> QED BY <1>3, <1>6, <1>9, <2>1 DEF DeleteSubscription, TypeOK
<1> QED BY <1>4, <1>5, <1>7, <1>8, <1>9 DEF Write

LEMMA BackedStep == TypeOK /\ JobsOK /\ Backed /\ [Next]_vars => Backed'
<1> SUFFICES ASSUME TypeOK, JobsOK, Backed, [Next]_vars PROVE Backed'
  OBVIOUS
<1> USE DEF Backed, RowsOf
<1>1. ASSUME UNCHANGED <<currentProduct, billings>> PROVE Backed'
  BY <1>1
<1>2. CASE Environment
  BY <1>1, <1>2 DEF Environment, Tick, ChangeEmail, Crash, db
<1>3. ASSUME NEW h \in Handler, Webhook(h) PROVE Backed'
  <2>1. CASE Write(h)
    BY <2>1, WriteBacked
  <2>2. CASE ~ Write(h)
    BY <1>1, <1>3, <2>2
    DEF Webhook, Deliver, RejectInvoice, FindUser, UnknownUser, FindBilling,
        FindNoBilling, Reply, db
  <2> QED BY <2>1, <2>2
<1>4. ASSUME NEW c \in SignIn, Session(c) PROVE Backed'
  <2>1. CASE DowngradeToFreeTier(c)
    <3>1. \A u \in User : currentProduct'[u] # FreeTier =>
            currentProduct'[u] = currentProduct[u]
      BY <2>1 DEF DowngradeToFreeTier, TypeOK
    <3> QED BY <2>1, <3>1 DEF DowngradeToFreeTier
  <2>2. CASE ~ DowngradeToFreeTier(c)
    BY <1>1, <1>4, <2>2 DEF Session, HasExpiredSubscription, SignInFails, db
  <2> QED BY <2>1, <2>2
<1>5. CASE UNCHANGED vars
  BY <1>1, <1>5 DEF vars
<1> QED BY <1>2, <1>3, <1>4, <1>5 DEF Next


-----------------------------------------------------------------------------
(* How many billings a user can have.                                      *)

\* The handlers about to insert a billing for u, having read that there is
\* none.  Once there is one no handler joins them, and each of them adds at
\* most one row.
Claims(u) ==
  {h \in Handler : /\ job[h].pc = "write"
                   /\ job[h].event.type = "invoice.paid"
                   /\ job[h].row = NoRow
                   /\ job[h].user = u}

RowsClaimed(u) ==
  /\ IsFiniteSet(RowsOf(u))
  /\ RowsOf(u) # {} =>
       Cardinality(RowsOf(u)) + Cardinality(Claims(u)) <= Cardinality(Handler)

AllRowsClaimed == \A u \in User : RowsClaimed(u)

LEMMA ClaimsFinite ==
  ASSUME NEW u
  PROVE  /\ IsFiniteSet(Claims(u)) /\ Claims(u) \subseteq Handler
         /\ Cardinality(Claims(u)) \in Nat
         /\ Cardinality(Handler) \in Nat
BY HandlerAssumption, FS_Subset, FS_CardinalityType DEF Claims

LEMMA RowsInit == Init => AllRowsClaimed
  BY FS_EmptySet DEF Init, AllRowsClaimed, RowsClaimed, RowsOf

LEMMA ClaimedBounds == AllRowsClaimed => RowsBounded
<1> SUFFICES ASSUME AllRowsClaimed, NEW u \in User
             PROVE  Cardinality(RowsOf(u)) <= Cardinality(Handler)
  BY DEF RowsBounded
<1>1. RowsClaimed(u)
  BY DEF AllRowsClaimed
<1>2. Cardinality(RowsOf(u)) \in Nat
  BY <1>1, FS_CardinalityType DEF RowsClaimed
<1>3. CASE RowsOf(u) = {}
  BY <1>3, FS_EmptySet, ClaimsFinite
<1>4. CASE RowsOf(u) # {}
  BY <1>1, <1>2, <1>4, ClaimsFinite DEF RowsClaimed
<1> QED BY <1>3, <1>4

\* A step that gives u no row, and lets a handler claim only while u has no
\* row.
LEMMA ClaimsKept ==
  ASSUME NEW u, RowsClaimed(u), RowsOf(u)' = RowsOf(u),
         RowsOf(u) = {} \/ Claims(u)' \subseteq Claims(u)
  PROVE  RowsClaimed(u)'
<1>1. CASE RowsOf(u) = {}
  BY <1>1 DEF RowsClaimed
<1>2. CASE RowsOf(u) # {}
  <2>1. /\ Claims(u)' \subseteq Claims(u)
        /\ Cardinality(RowsOf(u)) + Cardinality(Claims(u)) <= Cardinality(Handler)
        /\ IsFiniteSet(RowsOf(u))
    BY <1>2 DEF RowsClaimed
  <2>2. /\ Cardinality(Claims(u)') <= Cardinality(Claims(u))
        /\ Cardinality(Claims(u)') \in Nat
    BY <2>1, ClaimsFinite, FS_Subset, FS_CardinalityType
  <2>3. Cardinality(RowsOf(u)) \in Nat
    BY <2>1, FS_CardinalityType
  <2>4. Cardinality(RowsOf(u)') + Cardinality(Claims(u)') <= Cardinality(Handler)
    BY <2>1, <2>2, <2>3, ClaimsFinite
  <2> QED BY <2>1, <2>4 DEF RowsClaimed
<1> QED BY <1>1, <1>2

\* An insert turns one claim into one row.
LEMMA CreateClaims ==
  ASSUME TypeOK, JobsOK, AllRowsClaimed, NEW h \in Handler, CreateBilling(h),
         NEW u \in User
  PROVE  RowsClaimed(u)'
<1> USE DEF CreateBilling, Written
<1>1. PICK id \in RowId \ DOMAIN billings :
        billings' = [r \in DOMAIN billings \cup {id} |->
                      IF r = id THEN PaidRow(job[h].user, job[h].event)
                      ELSE billings[r]]
  OBVIOUS
<1>2. RowsClaimed(u)
  BY DEF AllRowsClaimed
<1>3. /\ job'[h].pc = "reply"
      /\ \A g \in Handler \ {h} : job'[g] = job[g]
  BY DEF TypeOK, Job
<1>4. Claims(u)' = Claims(u) \ {h}
  BY <1>3 DEF Claims
<1>5. CASE u # job[h].user
  <2>1. RowsOf(u)' = RowsOf(u)
    BY <1>1, <1>5 DEF RowsOf, PaidRow
  <2> QED BY <1>2, <1>4, <2>1, ClaimsKept
<1>6. CASE u = job[h].user
  <2>1. RowsOf(u)' = RowsOf(u) \cup {id} /\ id \notin RowsOf(u)
    BY <1>1, <1>6 DEF RowsOf, PaidRow
  <2>2. h \in Claims(u)
    BY <1>6 DEF Claims
  <2>3. IsFiniteSet(RowsOf(u)) /\ Cardinality(RowsOf(u)) \in Nat
    BY <1>2, FS_CardinalityType DEF RowsClaimed
  <2>4. /\ IsFiniteSet(RowsOf(u)')
        /\ Cardinality(RowsOf(u)') = Cardinality(RowsOf(u)) + 1
    BY <2>1, <2>3, FS_AddElement
  <2>5. Cardinality(Claims(u)') = Cardinality(Claims(u)) - 1
    BY <1>4, <2>2, ClaimsFinite, FS_RemoveElement
  <2>6. Cardinality(RowsOf(u)) + Cardinality(Claims(u)) <= Cardinality(Handler)
    <3>1. CASE RowsOf(u) = {}
      BY <3>1, FS_EmptySet, FS_Subset, ClaimsFinite, HandlerAssumption
    <3>2. CASE RowsOf(u) # {}
      BY <1>2, <3>2 DEF RowsClaimed
    <3> QED BY <3>1, <3>2
  <2>7. Cardinality(RowsOf(u)') + Cardinality(Claims(u)') <= Cardinality(Handler)
    BY <2>3, <2>4, <2>5, <2>6, ClaimsFinite
  <2> QED BY <2>4, <2>7 DEF RowsClaimed
<1> QED BY <1>5, <1>6


LEMMA RowsStep == TypeOK /\ JobsOK /\ AllRowsClaimed /\ [Next]_vars
                    => AllRowsClaimed'
<1> SUFFICES ASSUME TypeOK, JobsOK, AllRowsClaimed, [Next]_vars, NEW u \in User
             PROVE  RowsClaimed(u)'
  BY DEF AllRowsClaimed
<1>1. RowsClaimed(u)
  BY DEF AllRowsClaimed
<1>2. ASSUME UNCHANGED billings, Claims(u)' \subseteq Claims(u)
      PROVE  RowsClaimed(u)'
  BY <1>1, <1>2, ClaimsKept DEF RowsOf
<1>3. ASSUME UNCHANGED billings, UNCHANGED job PROVE RowsClaimed(u)'
  BY <1>2, <1>3 DEF Claims
<1>4. ASSUME UNCHANGED billings, Restart PROVE RowsClaimed(u)'
  BY <1>2, <1>4 DEF Claims, Restart, Idle
<1>5. CASE Environment
  BY <1>3, <1>4, <1>5 DEF Environment, Tick, ChangeEmail, Crash, db
<1>6. ASSUME NEW h \in Handler, Webhook(h) PROVE RowsClaimed(u)'
  \* Only h moves, and not to an insert.
  <2>1. ASSUME \A g \in Handler \ {h} : job'[g] = job[g],
               job'[h].pc # "write" \/ job'[h].row # NoRow
        PROVE  Claims(u)' \subseteq Claims(u)
    BY <2>1 DEF Claims
  <2>2. ASSUME NEW e \in Event, Deliver(h, e) PROVE RowsClaimed(u)'
    <3>1. Route(e) # "write"
      BY DEF Route
    <3>2. /\ job'[h].pc = Route(e) /\ UNCHANGED billings
          /\ \A g \in Handler \ {h} : job'[g] = job[g]
      BY <2>2 DEF Deliver, Idle, TypeOK, db
    <3> QED BY <1>2, <2>1, <3>1, <3>2
  <2>3. ASSUME NEW e \in Event, RejectInvoice(h, e) PROVE RowsClaimed(u)'
    BY <1>4, <2>3 DEF RejectInvoice, db
  <2>4. CASE FindUser(h)
    <3>1. /\ job'[h].pc = "findBilling" /\ UNCHANGED billings
          /\ \A g \in Handler \ {h} : job'[g] = job[g]
      BY <2>4 DEF FindUser, TypeOK, Job, db
    <3> QED BY <1>2, <2>1, <3>1
  <2>5. CASE UnknownUser(h)
    BY <1>4, <2>5 DEF UnknownUser, db
  <2>6. CASE FindBilling(h)
    <3>1. PICK r \in Matching(h) :
            job' = [job EXCEPT ![h].pc = "write", ![h].row = r,
                               ![h].product = billings[r].productId,
                               ![h].user = billings[r].userId]
      BY <2>6 DEF FindBilling
    <3>2. r # NoRow
      BY DEF Matching, RowsOf, RowsWith, TypeOK
    <3>3. /\ job'[h].row = r /\ UNCHANGED billings
          /\ \A g \in Handler \ {h} : job'[g] = job[g]
      BY <2>6, <3>1 DEF FindBilling, TypeOK, Job, db
    <3> QED BY <1>2, <2>1, <3>2, <3>3
  <2>7. CASE FindNoBilling(h)
    \* The one step that claims: u has no row then.
    <3>1. /\ UNCHANGED billings
          /\ \A g \in Handler \ {h} : job'[g] = job[g]
          /\ job'[h] = [job[h] EXCEPT
                          !.pc = IF job[h].event.type = "invoice.paid"
                                 THEN "write" ELSE "reply"]
      BY <2>7 DEF FindNoBilling, TypeOK, db
    <3>2. /\ job'[h].event = job[h].event /\ job'[h].user = job[h].user
          /\ job[h].event.type # "invoice.paid" => job'[h].pc = "reply"
      BY <3>1 DEF TypeOK, Job
    <3>3. CASE job[h].event.type = "invoice.paid" /\ job[h].user = u
      <4>1. RowsOf(u) = {}
        BY <2>7, <3>3 DEF FindNoBilling, Matching
      <4> QED BY <1>1, <3>1, <4>1, ClaimsKept DEF RowsOf
    <3>4. CASE job[h].event.type # "invoice.paid" \/ job[h].user # u
      <4>1. Claims(u)' \subseteq Claims(u)
        BY <3>1, <3>2, <3>4 DEF Claims
      <4> QED BY <1>2, <3>1, <4>1
    <3> QED BY <3>3, <3>4
  <2>8. CASE Write(h)
    <3>1. CASE CreateBilling(h)
      BY <3>1, CreateClaims
    <3>2. CASE ~ CreateBilling(h)
      <4>1. /\ job' = [job EXCEPT ![h].pc = "reply"]
            /\ DOMAIN billings' = DOMAIN billings
        BY <2>8, <3>2
        DEF Write, RenewBilling, MarkPastDue, UpdateSubscription,
            DeleteSubscription, Written, TypeOK
      <4>2. RowsOf(u)' = RowsOf(u)
        BY <2>8, <4>1, WriteKeepsRows DEF RowsOf, RowsKept
      <4>3. /\ job'[h].pc = "reply"
            /\ \A g \in Handler \ {h} : job'[g] = job[g]
        BY <4>1 DEF TypeOK, Job
      <4> QED BY <1>1, <2>1, <4>2, <4>3, ClaimsKept
    <3> QED BY <3>1, <3>2
  <2>9. CASE Reply(h)
    <3>1. /\ job'[h].pc = "idle" /\ UNCHANGED billings
          /\ \A g \in Handler \ {h} : job'[g] = job[g]
      BY <2>9 DEF Reply, Idle, TypeOK, db
    <3> QED BY <1>2, <2>1, <3>1
  <2> QED BY <1>6, <2>2, <2>3, <2>4, <2>5, <2>6, <2>7, <2>8, <2>9 DEF Webhook
<1>7. ASSUME NEW c \in SignIn, Session(c) PROVE RowsClaimed(u)'
  BY <1>3, <1>7
  DEF Session, HasExpiredSubscription, DowngradeToFreeTier, SignInFails, db
<1>8. CASE UNCHANGED vars
  BY <1>3, <1>8 DEF vars
<1> QED BY <1>5, <1>6, <1>7, <1>8 DEF Next

-----------------------------------------------------------------------------

\* The tables and the requests keep their types, and a handler that writes by
\* a billing's id always holds the id of an existing billing of the right
\* user, however long it was delayed.
THEOREM TypeCorrect == Spec => [](TypeOK /\ JobsOK)
<1>1. Init => TypeOK /\ JobsOK
  BY TypeInit, JobsInit
<1>2. TypeOK /\ JobsOK /\ [Next]_vars => (TypeOK /\ JobsOK)'
  BY TypeStep, JobsStep
<1> QED BY <1>1, <1>2, PTL DEF Spec

\* No interleaving of webhooks, sign-ins, restarts and e-mail changes leaves
\* a user on a paid product without a billing that still runs.
THEOREM PaidIsBacked == Spec => []Backed
<1>1. Init => Backed
  BY BackedInit
<1>2. TypeOK /\ JobsOK /\ Backed /\ [Next]_vars => Backed'
  BY BackedStep
<1> QED BY <1>1, <1>2, TypeCorrect, PTL DEF Spec

\* A user never has more billings than webhooks that can run at the same
\* time; in particular at most one if they are handled one at a time.
THEOREM BillingsBounded == Spec => []RowsBounded
<1>1. Init => AllRowsClaimed
  BY RowsInit
<1>2. TypeOK /\ JobsOK /\ AllRowsClaimed /\ [Next]_vars => AllRowsClaimed'
  BY RowsStep
<1>3. AllRowsClaimed => RowsBounded
  BY ClaimedBounds
<1> QED BY <1>1, <1>2, <1>3, TypeCorrect, PTL DEF Spec

=============================================================================
