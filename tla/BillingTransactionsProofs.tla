----------------------- MODULE BillingTransactionsProofs -----------------------
(***************************************************************************)
(* BillingTransactions implements Billing for every number of webhooks,    *)
(* sign-ins and connections, and its transactions cannot block each other  *)
(* for ever when the pool has more connections than webhooks that overlap. *)
(***************************************************************************)
EXTENDS BillingTransactions, SerialBillingProofs

\* What a transaction in progress knows.  Its image is what it would write
\* now: the row it locks has not changed since its UPDATE.
TxOK(h) ==
  /\ tx[h].stage # "none" => job[h].pc = "write"
  /\ LocksBilling(h) => /\ Type(h) # "invoice.payment_failed"
                        /\ \E at \in 0 .. now : tx[h].image = Image(h, at)

\* No row is locked twice.
LocksApart ==
  \A g, h \in Handler :
    g # h /\ LocksBilling(g) /\ LocksBilling(h) /\ job[h].row # NoRow
      => job[g].row # job[h].row

\* Only a sign-in about to downgrade keeps a connection.
HoldOK == \A c \in hold : sweep[c] # NoUser

TxInv == /\ TxTypeOK
         /\ JobsOK
         /\ \A h \in Handler : TxOK(h)
         /\ LocksApart
         /\ HoldOK

LEMMA TxInvInit == TxInit => TxInv
<1> SUFFICES ASSUME TxInit PROVE TxInv
  OBVIOUS
<1>1. TypeOK /\ JobsOK
  BY TypeInit, JobsInit DEF TxInit
<1> QED BY <1>1
        DEF TxInit, TxInv, TxTypeOK, Tx, NoTx, Stage, TxOK, LocksApart, HoldOK,
            LocksBilling

-----------------------------------------------------------------------------
(* Each step of a transaction is a step of Billing or none of its concern. *)

\* COMMIT is the write that Billing makes in one step.
LEMMA CommitWrites ==
  ASSUME TxInv, NEW h \in Handler, Commit(h)
  PROVE  Write(h)
<1> USE DEF Commit, Answered, Type, Written, Write
<1>1. /\ LocksBilling(h) /\ job[h].pc = "write"
      /\ Type(h) # "invoice.payment_failed"
      /\ \E at \in 0 .. now : tx[h].image = Image(h, at)
  BY DEF TxInv, TxOK, LocksBilling
<1>2. PICK at \in 0 .. now : tx[h].image = Image(h, at)
  BY <1>1
<1>3. /\ TypeOK /\ JobsOK /\ JobOK(h)
  BY DEF TxInv, TxTypeOK, JobsOK
<1>4. /\ job[h].event \in EventRecord
      /\ job[h].user \in User
      /\ job[h].event.type # "invoice.paid" => job[h].row # NoRow
  BY <1>1, <1>3, WriteContext
<1>5. Type(h) \in {"invoice.paid", "customer.subscription.updated",
                   "customer.subscription.deleted"}
  BY <1>1, <1>3, <1>4 DEF EventRecord, EventType, JobOK
<1>6. Type(h) # "invoice.paid" =>
        billings' = [billings EXCEPT ![job[h].row] = tx[h].image]
  BY <1>4
<1>7. CASE Type(h) = "invoice.paid"
  <2>1. /\ tx[h].image = PaidRow(job[h].user, job[h].event)
        /\ WritesUser(h) /\ NewProduct(h) = job[h].event.price
    BY <1>2, <1>7 DEF Image, WritesUser, NewProduct, Downgrades
  <2>2. CASE job[h].row = NoRow
    BY <1>1, <1>7, <2>1, <2>2 DEF CreateBilling
  <2>3. CASE job[h].row # NoRow
    BY <1>1, <1>7, <2>1, <2>3 DEF RenewBilling
  <2> QED BY <2>2, <2>3
<1>8. CASE Type(h) = "customer.subscription.updated"
  <2>1. tx[h].image = UpdatedRow(billings[job[h].row], job[h].event)
    BY <1>2, <1>8 DEF Image
  <2>2. currentProduct' = [currentProduct EXCEPT
                             ![job[h].user] = UpdatedProduct(h)]
    <3>1. CASE WritesUser(h)
      <4>1. UpdatedProduct(h) = NewProduct(h)
        BY <1>8, <3>1 DEF UpdatedProduct, WritesUser, Downgrades, NewProduct
      <4> QED BY <3>1, <4>1
    <3>2. CASE ~ WritesUser(h)
      <4>1. UpdatedProduct(h) = currentProduct[job[h].user]
        BY <1>8, <3>2 DEF UpdatedProduct, WritesUser, Downgrades
      <4>2. currentProduct' = currentProduct
        BY <3>2
      <4> QED BY <1>3, <1>4, <4>1, <4>2 DEF TypeOK
    <3> QED BY <3>1, <3>2
  <2> QED BY <1>1, <1>6, <1>8, <2>1, <2>2 DEF UpdateSubscription
<1>9. CASE Type(h) = "customer.subscription.deleted"
  <2>1. tx[h].image = [billings[job[h].row] EXCEPT !.status = "canceled",
                                                   !.expiresAt = at]
    BY <1>2, <1>9 DEF Image
  <2>2. currentProduct' = [currentProduct EXCEPT ![job[h].user] = FreeTier]
    BY <1>9 DEF WritesUser, Downgrades, NewProduct
  <2>3. billings' = [billings EXCEPT ![job[h].row].status = "canceled",
                                     ![job[h].row].expiresAt = at]
    BY <1>6, <1>9, <2>1
  <2>4. DeleteSubscription(h)
    BY <1>1, <1>9, <2>2, <2>3 DEF DeleteSubscription
  <2> QED BY <2>4
<1> QED BY <1>5, <1>7, <1>8, <1>9

LEMMA CommitImplements == TxInv /\ [TxNext]_allVars => [Next]_vars
<1> SUFFICES ASSUME TxInv, [TxNext]_allVars PROVE [Next]_vars
  OBVIOUS
<1>1. ASSUME NEW h \in Handler,
             Begin(h) \/ WriteBilling(h) \/ ReadFreeTier(h) \/ WriteUser(h)
      PROVE  UNCHANGED vars
  BY <1>1 DEF Begin, WriteBilling, ReadFreeTier, WriteUser, Step
<1>2. ASSUME NEW h \in Handler, Commit(h) PROVE Next
  BY <1>2, CommitWrites DEF Next, Webhook
<1>3. ASSUME NEW h \in Handler, UpdateAlone(h) PROVE Next
  BY <1>3 DEF UpdateAlone, Next, Webhook, Write
<1>4. ASSUME NEW h \in Handler, Query(h) PROVE Next
  BY <1>4 DEF Query, Next, Webhook
<1>5. ASSUME NEW c \in SignIn, TakeConnection(c) PROVE UNCHANGED vars
  BY <1>5 DEF TakeConnection
<1>6. ASSUME NEW c \in SignIn, SignInStep(c) PROVE Next
  BY <1>6 DEF SignInStep, Next, Session
<1>7. CASE NoQuery
  BY <1>7 DEF NoQuery, Next, Environment, Webhook
<1>8. CASE UpdateEmail
  BY <1>8 DEF UpdateEmail, Next, Environment
<1>9. CASE ProcessDies
  BY <1>9 DEF ProcessDies, Next, Environment, Webhook
<1>10. CASE UNCHANGED allVars
  BY <1>10 DEF allVars
<1> QED BY <1>1, <1>2, <1>3, <1>4, <1>5, <1>6, <1>7, <1>8, <1>9, <1>10 DEF TxNext

-----------------------------------------------------------------------------
(* The invariant of the transactions.                                      *)

LEMMA ClockStep == TypeOK /\ [Next]_vars => now <= now'
<1> SUFFICES ASSUME TypeOK, [Next]_vars PROVE now <= now'
  OBVIOUS
<1>1. now' = now => now <= now'
  BY MaxTimeAssumption DEF TypeOK
<1>2. CASE Environment
  <2>1. CASE Tick
    <3>1. now \in Nat /\ now' = now + 1
      BY <2>1, MaxTimeAssumption DEF Tick, TypeOK
    <3> QED BY <3>1
  <2>2. CASE Crash \/ \E u \in User, m \in Email : ChangeEmail(u, m)
    BY <1>1, <2>2 DEF Crash, ChangeEmail
  <2> QED BY <1>2, <2>1, <2>2 DEF Environment
<1>3. ASSUME NEW h \in Handler, Webhook(h) PROVE now' = now
  <2>1. CASE Write(h)
    BY <2>1 DEF Write, CreateBilling, RenewBilling, MarkPastDue, UpdateSubscription,
                DeleteSubscription, Written
  <2>2. CASE FindUser(h) \/ FindBilling(h) \/ FindNoBilling(h) \/ Reply(h)
    BY <2>2 DEF FindUser, FindBilling, FindNoBilling, Reply
  <2>3. CASE UnknownUser(h) \/ \E e \in Event : Deliver(h, e) \/ RejectInvoice(h, e)
    BY <2>3 DEF UnknownUser, Deliver, RejectInvoice
  <2> QED BY <1>3, <2>1, <2>2, <2>3 DEF Webhook
<1>4. ASSUME NEW c \in SignIn, Session(c) PROVE now' = now
  BY <1>4 DEF Session, HasExpiredSubscription, DowngradeToFreeTier, SignInFails
<1> QED BY <1>1, <1>2, <1>3, <1>4 DEF Next, vars

\* What a transaction would write depends on its request and on its row.
LEMMA ImageKept ==
  ASSUME TypeOK, JobsOK, NEW h \in Handler, job[h].pc = "write",
         job'[h] = job[h], NEW at,
         job[h].row # NoRow => billings'[job[h].row] = billings[job[h].row]
  PROVE  Image(h, at)' = Image(h, at)
<1>1. CASE job[h].row = NoRow
  <2>1. Type(h) = "invoice.paid"
    BY <1>1 DEF JobsOK, JobOK, Type
  <2> QED BY <2>1 DEF Image, Type, PaidRow
<1>2. CASE job[h].row # NoRow
  BY <1>2 DEF Image, Type, PaidRow, UpdatedRow
<1> QED BY <1>1, <1>2

LEMMA TxKept ==
  ASSUME TypeOK, JobsOK, TypeOK', now <= now', NEW h \in Handler, TxOK(h),
         job'[h] = job[h], tx'[h] = tx[h],
         (LocksBilling(h) /\ job[h].row # NoRow)
           => billings'[job[h].row] = billings[job[h].row]
  PROVE  TxOK(h)'
<1>1. tx'[h].stage # "none" => job'[h].pc = "write"
  BY DEF TxOK
<1>2. ASSUME LocksBilling(h)'
      PROVE  /\ Type(h)' # "invoice.payment_failed"
             /\ \E at \in 0 .. now' : tx'[h].image = Image(h, at)'
  <2>1. LocksBilling(h) /\ job[h].pc = "write"
    BY <1>2 DEF LocksBilling, TxOK
  <2>2. PICK at \in 0 .. now : tx[h].image = Image(h, at)
    BY <2>1 DEF TxOK
  <2>3. Image(h, at)' = Image(h, at)
    BY <2>1, ImageKept
  <2>4. at \in 0 .. now'
    BY MaxTimeAssumption DEF TypeOK
  <2>5. Type(h)' # "invoice.payment_failed"
    BY <2>1 DEF TxOK, Type
  <2> QED BY <2>2, <2>3, <2>4, <2>5
<1> QED BY <1>1, <1>2 DEF TxOK

LEMMA TxNone ==
  ASSUME NEW h \in Handler, tx'[h].stage = "none"
  PROVE  TxOK(h)' /\ ~ LocksBilling(h)'
BY DEF TxOK, LocksBilling

LEMMA ApartKept ==
  ASSUME LocksApart,
         \A g \in Handler : LocksBilling(g)' =>
            LocksBilling(g) /\ job'[g].row = job[g].row
  PROVE  LocksApart'
BY DEF LocksApart

TxState == (\A h \in Handler : TxOK(h)) /\ LocksApart

\* Steps outside the transactions.
LEMMA CalmStep ==
  ASSUME TxInv, TypeOK', now <= now', UNCHANGED <<billings, tx>>,
         \A h \in Handler : job'[h] = job[h] \/ job[h].pc # "write"
  PROVE  TxState'
<1>1. ASSUME NEW h \in Handler PROVE TxOK(h)'
  <2>1. CASE job'[h] = job[h]
    BY <2>1, TxKept DEF TxInv, TxTypeOK
  <2>2. CASE job[h].pc # "write"
    <3>1. tx'[h].stage = "none"
      BY <2>2 DEF TxInv, TxOK
    <3> QED BY <3>1, TxNone
  <2> QED BY <2>1, <2>2
<1>2. ASSUME NEW g \in Handler, LocksBilling(g)'
      PROVE  LocksBilling(g) /\ job'[g].row = job[g].row
  BY <1>2 DEF LocksBilling, TxInv, TxOK
<1>3. LocksApart'
  BY <1>2, ApartKept DEF TxInv
<1> QED BY <1>1, <1>3 DEF TxState

\* The transaction of h ends, and with it its lock; a row another one has
\* locked is not the one that changed.
LEMMA EndStep ==
  ASSUME TxInv, TypeOK', now <= now', NEW h \in Handler,
         tx' = [tx EXCEPT ![h] = NoTx],
         \A g \in Handler \ {h} : job'[g] = job[g],
         \A r \in DOMAIN billings :
            billings'[r] = billings[r] \/
              (r = job[h].row /\ \A g \in Handler \ {h} :
                                  LocksBilling(g) => job[g].row # r)
  PROVE  TxState'
<1>1. /\ tx'[h].stage = "none"
      /\ \A g \in Handler \ {h} : tx'[g] = tx[g]
  BY DEF TxInv, TxTypeOK, NoTx
<1>2. ASSUME NEW g \in Handler PROVE TxOK(g)'
  <2>1. CASE g = h
    BY <1>1, <2>1, TxNone
  <2>2. CASE g # h
    <3>1. (LocksBilling(g) /\ job[g].row # NoRow)
            => job[g].row \in DOMAIN billings
      BY DEF TxInv, TxOK, LocksBilling, JobsOK, JobOK
    <3>2. (LocksBilling(g) /\ job[g].row # NoRow)
            => billings'[job[g].row] = billings[job[g].row]
      BY <2>2, <3>1
    <3> QED BY <1>1, <2>2, <3>2, TxKept DEF TxInv, TxTypeOK
  <2> QED BY <2>1, <2>2
<1>3. ASSUME NEW g \in Handler, LocksBilling(g)'
      PROVE  LocksBilling(g) /\ job'[g].row = job[g].row
  <2>1. g # h
    BY <1>1, <1>3, TxNone
  <2> QED BY <1>1, <1>3, <2>1 DEF LocksBilling
<1>4. LocksApart'
  BY <1>3, ApartKept DEF TxInv
<1> QED BY <1>2, <1>4 DEF TxState

\* BEGIN, the read of the free tier, the UPDATE of the user.
LEMMA MiddleStep ==
  ASSUME TxInv, NEW h \in Handler, NEW from, NEW to \in Stage, Step(h, from, to),
         to \in {"readFreeTier", "wroteUser"} => from \in {"wroteBilling", "readFreeTier"},
         to \in {"begun", "readFreeTier", "wroteUser"}
  PROVE  TxState' /\ tx' \in [Handler -> Tx]
<1> USE DEF Step
<1>1. /\ tx'[h] = [tx[h] EXCEPT !.stage = to] /\ tx[h] \in Tx
      /\ \A g \in Handler \ {h} : tx'[g] = tx[g]
  BY DEF TxInv, TxTypeOK
<1>2. tx' \in [Handler -> Tx]
  <2>1. [tx[h] EXCEPT !.stage = to] \in Tx
    BY <1>1 DEF Tx
  <2>2. tx' = [tx EXCEPT ![h] = [tx[h] EXCEPT !.stage = to]]
    OBVIOUS
  <2> QED BY <2>1, <2>2 DEF TxInv, TxTypeOK
<1>3. /\ tx'[h].stage = to /\ tx'[h].image = tx[h].image
      /\ LocksBilling(h)' => LocksBilling(h)
  BY <1>1 DEF Tx, LocksBilling
<1>4. UNCHANGED <<billings, job, now>> /\ TypeOK /\ TypeOK' /\ now <= now'
  BY MaxTimeAssumption DEF vars, TxInv, TxTypeOK, TypeOK, RowsOf
<1>5. ASSUME NEW g \in Handler PROVE TxOK(g)'
  <2>1. CASE g = h
    <3>1. TxOK(h)
      BY DEF TxInv
    <3>2. ASSUME NEW at PROVE Image(h, at)' = Image(h, at)
      BY <1>4, ImageKept DEF TxInv
    <3>3. ASSUME LocksBilling(h)'
          PROVE  /\ Type(h)' # "invoice.payment_failed"
                 /\ \E at \in 0 .. now' : tx'[h].image = Image(h, at)'
      <4>1. PICK at \in 0 .. now : tx[h].image = Image(h, at)
        BY <1>3, <3>1, <3>3 DEF TxOK
      <4>2. tx'[h].image = Image(h, at)' /\ at \in 0 .. now'
        BY <1>3, <1>4, <3>2, <4>1
      <4>3. Type(h)' # "invoice.payment_failed"
        BY <1>3, <1>4, <3>1, <3>3 DEF TxOK, Type
      <4> QED BY <4>2, <4>3
    <3> QED BY <1>4, <2>1, <3>3 DEF TxOK
  <2>2. CASE g # h
    BY <1>1, <1>4, <2>2, TxKept DEF TxInv
  <2> QED BY <2>1, <2>2
<1>6. LocksApart'
  <2>1. ASSUME NEW g \in Handler, LocksBilling(g)'
        PROVE  LocksBilling(g) /\ job'[g].row = job[g].row
    BY <1>1, <1>3, <1>4, <2>1 DEF LocksBilling
  <2> QED BY <2>1, ApartKept DEF TxInv
<1> QED BY <1>2, <1>5, <1>6 DEF TxState

\* The write of the billing takes the row's lock and remembers the image.
LEMMA WriteBillingStep ==
  ASSUME TxInv, NEW h \in Handler, WriteBilling(h)
  PROVE  TxState' /\ tx' \in [Handler -> Tx]
<1> USE DEF WriteBilling
<1>1. PICK at \in 0 .. now :
        tx' = [tx EXCEPT ![h] = [stage |-> "wroteBilling", image |-> Image(h, at)]]
  OBVIOUS
<1>2. /\ TypeOK /\ JobsOK /\ tx \in [Handler -> Tx]
      /\ job[h].pc = "write"
  BY DEF TxInv, TxTypeOK
<1>3. UNCHANGED <<billings, job, now>> /\ TypeOK' /\ now <= now'
  BY <1>2, MaxTimeAssumption DEF vars, TypeOK, RowsOf
<1>4. Image(h, at) \in BillingRow
  <2>1. /\ job[h].event \in EventRecord
        /\ job[h].row # NoRow => billings[job[h].row] \in BillingRow
        /\ Type(h) # "invoice.paid" => job[h].row # NoRow
        /\ Type(h) = "invoice.paid" => PaidRow(job[h].user, job[h].event) \in BillingRow
    BY <1>2, WriteContext DEF Type
  <2>2. CASE Type(h) = "invoice.paid"
    BY <2>1, <2>2 DEF Image
  <2>3. CASE Type(h) = "customer.subscription.updated"
    <3>1. UpdatedRow(billings[job[h].row], job[h].event) \in BillingRow
      BY <2>1, <2>3 DEF UpdatedRow, BillingRow, EventRecord
    <3> QED BY <2>3, <3>1 DEF Image
  <2>4. CASE Type(h) \notin {"invoice.paid", "customer.subscription.updated"}
    <3>1. Image(h, at) = [billings[job[h].row] EXCEPT !.status = "canceled",
                                                      !.expiresAt = at]
      BY <2>4 DEF Image
    <3>2. at \in Nat /\ billings[job[h].row] \in BillingRow
      BY <1>2, <2>1, <2>4 DEF TypeOK
    <3> QED BY <3>1, <3>2 DEF BillingRow, Status
  <2> QED BY <2>2, <2>3, <2>4
<1>5. tx' \in [Handler -> Tx]
  BY <1>1, <1>2, <1>4 DEF Tx, Stage
<1>6. /\ tx'[h] = [stage |-> "wroteBilling", image |-> Image(h, at)]
      /\ \A g \in Handler \ {h} : tx'[g] = tx[g]
  BY <1>1, <1>2
<1>7. ASSUME NEW g \in Handler PROVE TxOK(g)'
  <2>1. CASE g = h
    <3>1. Image(h, at)' = Image(h, at)
      BY <1>2, <1>3, ImageKept
    <3> QED BY <1>2, <1>3, <1>6, <2>1, <3>1 DEF TxOK, Type
  <2>2. CASE g # h
    BY <1>2, <1>3, <1>6, <2>2, TxKept DEF TxInv
  <2> QED BY <2>1, <2>2
<1>8. LocksApart'
  <2> SUFFICES ASSUME NEW f \in Handler, NEW g \in Handler, f # g,
                      LocksBilling(f)', LocksBilling(g)', job[g].row # NoRow
               PROVE  job[f].row # job[g].row
    BY <1>3 DEF LocksApart
  <2>1. /\ f # h => LocksBilling(f)
        /\ g # h => LocksBilling(g)
    BY <1>6 DEF LocksBilling
  <2>2. CASE f # h /\ g # h
    BY <2>1, <2>2 DEF TxInv, LocksApart
  <2>3. CASE f = h \/ g = h
    BY <2>1, <2>3 DEF BillingFree
  <2> QED BY <2>2, <2>3
<1> QED BY <1>5, <1>7, <1>8 DEF TxState

LEMMA TxInvStep == TxInv /\ [TxNext]_allVars => TxInv'
<1> SUFFICES ASSUME TxInv, [TxNext]_allVars PROVE TxInv'
  OBVIOUS
<1>1. /\ TypeOK' /\ JobsOK' /\ now <= now'
      /\ TypeOK /\ JobsOK /\ tx \in [Handler -> Tx] /\ hold \subseteq SignIn
  BY CommitImplements, TypeStep, JobsStep, ClockStep DEF TxInv, TxTypeOK
<1> DEFINE Goal == /\ TxState' /\ tx' \in [Handler -> Tx]
                   /\ hold' \subseteq SignIn /\ HoldOK'
<1>2. SUFFICES Goal
  BY <1>1 DEF TxInv, TxTypeOK, TxState
<1>3. ASSUME UNCHANGED <<sweep, hold>> PROVE hold' \subseteq SignIn /\ HoldOK'
  BY <1>1, <1>3 DEF HoldOK, TxInv
<1>4. NoTx \in Tx
  BY DEF NoTx, Tx, Stage
<1>5. ASSUME NEW h \in Handler, Begin(h) \/ ReadFreeTier(h) \/ WriteUser(h)
      PROVE  Goal
  <2>1. PICK from \in Stage, to \in {"begun", "readFreeTier", "wroteUser"} :
          /\ Step(h, from, to)
          /\ to \in {"readFreeTier", "wroteUser"}
               => from \in {"wroteBilling", "readFreeTier"}
    BY <1>5 DEF Begin, ReadFreeTier, WriteUser, Stage
  <2>2. to \in Stage
    BY DEF Stage
  <2> QED BY <1>3, <2>1, <2>2, MiddleStep DEF Step, vars
<1>6. ASSUME NEW h \in Handler, WriteBilling(h) PROVE Goal
  BY <1>3, <1>6, WriteBillingStep DEF WriteBilling, vars
<1>7. ASSUME NEW h \in Handler, Commit(h) PROVE Goal
  <2>1. \A g \in Handler \ {h} : job'[g] = job[g]
    BY <1>1, <1>7 DEF Commit, Answered, TypeOK
  <2>2. LocksBilling(h)
    BY <1>7 DEF Commit, LocksBilling
  <2>3. ASSUME NEW r \in DOMAIN billings, billings'[r] # billings[r]
        PROVE  r = job[h].row /\ r # NoRow
    BY <1>1, <1>7, <2>3 DEF Commit, TypeOK
  <2>4. \A r \in DOMAIN billings :
          billings'[r] = billings[r] \/
            (r = job[h].row /\ \A g \in Handler \ {h} :
                                LocksBilling(g) => job[g].row # r)
    BY <2>2, <2>3 DEF TxInv, LocksApart
  <2>5. tx' = [tx EXCEPT ![h] = NoTx]
    BY <1>7 DEF Commit
  <2>6. TxState'
    BY <1>1, <2>1, <2>4, <2>5, EndStep
  <2> QED BY <1>1, <1>3, <1>4, <1>7, <2>6 DEF Commit, Answered
<1>8. ASSUME NEW h \in Handler, UpdateAlone(h) PROVE Goal
  <2>1. \A g \in Handler \ {h} : job'[g] = job[g]
    BY <1>1, <1>8 DEF UpdateAlone, MarkPastDue, Written, TypeOK
  <2>2. ASSUME NEW r \in DOMAIN billings, billings'[r] # billings[r]
        PROVE  r = job[h].row
    BY <1>1, <1>8, <2>2 DEF UpdateAlone, MarkPastDue, TypeOK
  <2>3. \A r \in DOMAIN billings :
          billings'[r] = billings[r] \/
            (r = job[h].row /\ \A g \in Handler \ {h} :
                                LocksBilling(g) => job[g].row # r)
    BY <1>8, <2>2 DEF UpdateAlone, BillingFree
  <2>4. tx' = [tx EXCEPT ![h] = NoTx]
    BY <1>8 DEF UpdateAlone
  <2>5. TxState'
    BY <1>1, <2>1, <2>3, <2>4, EndStep
  <2> QED BY <1>1, <1>3, <1>4, <1>8, <2>5 DEF UpdateAlone, MarkPastDue, Written
<1>9. ASSUME NEW h \in Handler, Query(h) PROVE Goal
  <2> SUFFICES ASSUME FindUser(h) \/ FindBilling(h) \/ FindNoBilling(h)
               PROVE  Goal
    BY <1>9, Zenon DEF Query
  <2>1. /\ job[h].pc # "write" /\ UNCHANGED <<billings, tx, sweep, hold>>
        /\ \A g \in Handler \ {h} : job'[g] = job[g]
    <3>1. UNCHANGED txVars
      BY <1>9, Zenon DEF Query
    <3>2. CASE FindUser(h)
      BY <1>1, <3>1, <3>2 DEF txVars, FindUser, db, TypeOK
    <3>3. CASE FindBilling(h)
      BY <1>1, <3>1, <3>3 DEF txVars, FindBilling, db, TypeOK
    <3>4. CASE FindNoBilling(h)
      BY <1>1, <3>1, <3>4 DEF txVars, FindNoBilling, db, TypeOK
    <3> QED BY <3>2, <3>3, <3>4
  <2> QED BY <1>1, <1>3, <2>1, CalmStep
<1>10. ASSUME NEW c \in SignIn, TakeConnection(c) PROVE Goal
  <2>1. TxState'
    BY <1>1, <1>10, CalmStep DEF TakeConnection, vars
  <2> QED BY <1>1, <1>10, <2>1 DEF TakeConnection, vars, HoldOK, TxInv
<1>11. ASSUME NEW c \in SignIn, SignInStep(c) PROVE Goal
  <2>1. TxState' /\ tx' \in [Handler -> Tx]
    BY <1>1, <1>11, CalmStep
    DEF SignInStep, HasExpiredSubscription, DowngradeToFreeTier, SignInFails, db
  <2>2. hold' \subseteq SignIn /\ HoldOK'
    <3>1. CASE hold' = hold \ {c} /\ sweep' = [sweep EXCEPT ![c] = NoUser]
      BY <1>1, <3>1 DEF HoldOK, TxInv, TypeOK
    <3>2. ASSUME NEW u \in User, HasExpiredSubscription(c, u), hold' = hold
          PROVE  hold' \subseteq SignIn /\ HoldOK'
      BY <1>1, <3>2, NullAssumption DEF HoldOK, TxInv, TypeOK, HasExpiredSubscription
    <3> QED BY <1>11, <3>1, <3>2 DEF SignInStep, DowngradeToFreeTier, SignInFails
  <2> QED BY <2>1, <2>2
<1>12. CASE NoQuery
  <2>1. UNCHANGED <<billings, sweep, tx, hold>>
    BY <1>12 DEF NoQuery, txVars, Tick, Reply, Deliver, db
  <2>2. \A h \in Handler : job'[h] = job[h] \/ job[h].pc # "write"
    BY <1>1, <1>12 DEF NoQuery, Tick, Reply, Deliver, TypeOK
  <2> QED BY <1>1, <1>3, <2>1, <2>2, CalmStep
<1>13. CASE UpdateEmail
  <2>1. UNCHANGED <<billings, job, sweep, tx, hold>>
    BY <1>13 DEF UpdateEmail, ChangeEmail, txVars
  <2> QED BY <1>1, <1>3, <2>1, CalmStep
<1>14. CASE ProcessDies
  <2>1. tx' = [h \in Handler |-> NoTx] /\ hold' = {}
    BY <1>14 DEF ProcessDies, TxRestart
  <2>2. \A h \in Handler : TxOK(h)' /\ ~ LocksBilling(h)'
    BY <2>1, TxNone DEF NoTx
  <2> QED BY <1>4, <2>1, <2>2 DEF TxState, LocksApart, HoldOK
<1>15. CASE UNCHANGED allVars
  <2>1. UNCHANGED <<billings, job, sweep, tx, hold>>
    BY <1>15 DEF allVars, vars, txVars
  <2> QED BY <1>1, <1>3, <2>1, CalmStep
<1> QED BY <1>5, <1>6, <1>7, <1>8, <1>9, <1>10, <1>11, <1>12, <1>13, <1>14,
           <1>15 DEF TxNext

-----------------------------------------------------------------------------

\* If nobody updates the user's row, every lock on a user is free; then a
\* transaction that asks for a second connection either gets one or a
\* sign-in has it and can give it back; and if none asks, all have only begun
\* and no billing is locked.
LEMMA SomebodyCanStep ==
  ASSUME TxInv, Cardinality(Handler) < PoolSize
  PROVE  NobodyStuck
<1> SUFFICES ASSUME InTx # {},
                    \A h \in InTx : ~ CanStep(h),
                    \A c \in hold : ~ (sweep[c] # NoUser /\ UserFree(sweep[c]))
             PROVE  FALSE
  BY DEF NobodyStuck
<1>1. \A h \in InTx : tx[h].stage \in Stage \ {"none"}
  BY DEF InTx, TxInv, TxTypeOK, Tx
<1>2. \A h \in Handler : tx[h].stage # "wroteUser"
  BY DEF CanStep, InTx
<1>3. \A u : UserFree(u)
  BY <1>2 DEF UserFree
<1>4. hold = {}
  BY <1>3 DEF TxInv, HoldOK
<1>5. CanQuery
  <2>1. /\ IsFiniteSet(InTx) /\ Cardinality(InTx) <= Cardinality(Handler)
        /\ Cardinality(InTx) \in Nat /\ Cardinality(Handler) \in Nat
    BY HandlerAssumption, FS_Subset, FS_CardinalityType DEF InTx
  <2>2. Cardinality(hold) = 0
    BY <1>4, FS_EmptySet
  <2> QED BY <2>1, <2>2, PoolAssumption DEF CanQuery, FreeConnections
<1>6. \A h \in InTx : tx[h].stage = "begun"
  BY <1>1, <1>2, <1>3, <1>5 DEF CanStep, Stage
<1>7. \A h \in InTx : BillingFree(h)
  BY <1>6 DEF BillingFree, LocksBilling, InTx
<1> QED BY <1>6, <1>7 DEF CanStep

\* The transactions are typed and know what they are about to commit.
THEOREM TransactionsCorrect == TxSpec => [](TxTypeOK /\ TxInv)
<1>1. TxInv => TxTypeOK
  BY DEF TxInv
<1> QED BY <1>1, TxInvInit, TxInvStep, PTL DEF TxSpec

\* Seen from outside, each transaction of the webhook is one step of Billing
\* at its COMMIT, whatever else runs between its statements.
THEOREM Implementation == TxSpec => ImplementsBilling
<1>1. TxInit => Init
  BY DEF TxInit
<1> QED BY <1>1, TxInvInit, TxInvStep, CommitImplements, PTL
        DEF TxSpec, Spec, ImplementsBilling

\* So the transactions keep the promise of Billing: a paid product always
\* rests on a billing that has not ended.
COROLLARY CommittedBacked == TxSpec => []Backed
  BY Implementation, PaidIsBacked, PTL DEF ImplementsBilling

\* With the statements of the transactions as steps of their own the rest
\* holds under the same condition: as long as no two transactions of one
\* customer overlap from the read of the billing on, the customers' plans and
\* products are those of Entitlement, and late events change nothing.
COROLLARY CommittedEntitlement ==
  TxSpec /\ []Apart =>
    ImplementsEntitlement /\ []ProductMatchesBilling /\ OldSubscriptionInert
<1>1. TxSpec => Spec
  BY Implementation DEF ImplementsBilling
<1> QED BY <1>1, SpecApart, ApartImplements, ApartProductMatches, ApartOldInert, PTL

\* With more connections than webhooks that can overlap, the transactions
\* never all wait for each other.
THEOREM NoDeadlock ==
  Cardinality(Handler) < PoolSize => (TxSpec => []NobodyStuck)
<1> SUFFICES ASSUME Cardinality(Handler) < PoolSize
             PROVE  TxSpec => []NobodyStuck
  OBVIOUS
<1>1. TxInv => NobodyStuck
  BY SomebodyCanStep
<1> QED BY <1>1, TxInvInit, TxInvStep, PTL DEF TxSpec

=============================================================================
