------------------------ MODULE BillingTransactions ------------------------
(***************************************************************************)
(* The statements inside the transactions that Billing takes as one step:  *)
(* PostgreSQL's row locks at READ COMMITTED and the connections of knex's  *)
(* pool (knexfile.ts sets no pool, so its maximum is the library's).       *)
(*                                                                         *)
(* A transaction holds a connection from BEGIN to COMMIT.  Its UPDATE of   *)
(* the billing and its UPDATE of the user each wait for the row's lock and *)
(* keep it; between them downgradeToFreeTier reads the free tier on the    *)
(* pool, for getFreeTierProduct is not given the transaction.  The process *)
(* dies with every transaction rolled back.                                *)
(*                                                                         *)
(* The variables of Billing hold what is committed, so the refinement      *)
(* mapping is the identity.                                                *)
(***************************************************************************)
EXTENDS Billing

CONSTANTS PoolSize,     \* the most connections the pool opens
          NoImage

ASSUME PoolAssumption == PoolSize \in Nat \ {0}

VARIABLES
    tx,     \* the transaction of each webhook request
    hold    \* the sign-ins whose UPDATE has a connection

txVars == <<tx, hold>>
allVars == <<vars, txVars>>

Stage == {"none", "begun", "wroteBilling", "readFreeTier", "wroteUser"}

\* image: the billing as this transaction wrote it, not yet committed.
Tx == [stage : Stage, image : BillingRow \cup {NoImage}]
NoTx == [stage |-> "none", image |-> NoImage]

TxTypeOK ==
    /\ TypeOK
    /\ tx \in [Handler -> Tx]
    /\ hold \subseteq SignIn

TxInit ==
    /\ Init
    /\ tx = [h \in Handler |-> NoTx]
    /\ hold = {}

-----------------------------------------------------------------------------
(* Connections and locks.                                                  *)

InTx == {h \in Handler : tx[h].stage # "none"}
FreeConnections == PoolSize - Cardinality(InTx) - Cardinality(hold)
CanQuery == FreeConnections > 0

LocksBilling(h) == tx[h].stage \in {"wroteBilling", "readFreeTier", "wroteUser"}

\* Fault: the row is read and written without its lock.
BillingFreeUnlocked(h) == TRUE

\* Whether request h would get the lock of its billing row.
BillingFree(h) ==
    \A g \in Handler \ {h} : LocksBilling(g) => job[g].row # job[h].row

UserFree(u) == \A g \in Handler : tx[g].stage = "wroteUser" => job[g].user # u

Type(h) == job[h].event.type

Downgrades(h) ==
    \/ Type(h) = "customer.subscription.deleted"
    \/ /\ Type(h) = "customer.subscription.updated"
       /\ job[h].event.status \in Ended

\* The requests whose transaction updates the user: all but an update that
\* neither ends the subscription nor changes its product.
WritesUser(h) ==
    \/ Type(h) = "invoice.paid"
    \/ Downgrades(h)
    \/ /\ Type(h) = "customer.subscription.updated"
       /\ job[h].event.price \notin {NoProduct, job[h].product}

-----------------------------------------------------------------------------
(* One transaction, statement by statement.                                *)

Step(h, from, to) ==
    /\ job[h].pc = "write"
    /\ tx[h].stage = from
    /\ tx' = [tx EXCEPT ![h].stage = to]
    /\ UNCHANGED <<vars, hold>>

\* BEGIN; the single UPDATE of a failed payment takes its connection here.
Begin(h) == CanQuery /\ Step(h, "none", "begun")

\* Fault: an ended subscription takes the product from its billing.
ImageClearing(h, at) ==
    LET b == billings[job[h].row] IN
    CASE Type(h) = "invoice.paid" -> PaidRow(job[h].user, job[h].event)
      [] Type(h) = "customer.subscription.updated" -> UpdatedRow(b, job[h].event)
      [] OTHER -> [b EXCEPT !.status = "canceled", !.productId = NoProduct]

Image(h, at) ==
    LET b == billings[job[h].row] IN
    CASE Type(h) = "invoice.paid" -> PaidRow(job[h].user, job[h].event)
      [] Type(h) = "customer.subscription.updated" -> UpdatedRow(b, job[h].event)
      [] OTHER -> [b EXCEPT !.status = "canceled", !.expiresAt = at]

\* The INSERT or UPDATE of the billing: an UPDATE sees the row as last
\* committed.  A deleted subscription ends at some time up to now.
WriteBilling(h) ==
    /\ job[h].pc = "write"
    /\ tx[h].stage = "begun"
    /\ Type(h) # "invoice.payment_failed"
    /\ job[h].row = NoRow \/ BillingFree(h)
    /\ \E at \in 0 .. now :
         tx' = [tx EXCEPT ![h] = [stage |-> "wroteBilling", image |-> Image(h, at)]]
    /\ UNCHANGED <<vars, hold>>

ReadFreeTier(h) ==
    /\ Step(h, "wroteBilling", "readFreeTier")
    /\ Downgrades(h)
    /\ CanQuery

\* In downgradeToFreeTier, or by updateUserById directly.
WriteUser(h) ==
    /\ \/ Step(h, "readFreeTier", "wroteUser")
       \/ Step(h, "wroteBilling", "wroteUser") /\ ~ Downgrades(h) /\ WritesUser(h)
    /\ UserFree(job[h].user)

\* Fault: the product of the deleted subscription stays.
NewProductKept(h) ==
    IF Type(h) = "customer.subscription.updated" /\ Downgrades(h) THEN FreeTier
    ELSE IF Downgrades(h) THEN currentProduct[job[h].user]
    ELSE job[h].event.price

NewProduct(h) == IF Downgrades(h) THEN FreeTier ELSE job[h].event.price

Answered(h) ==
    /\ job' = [job EXCEPT ![h].pc = "reply"]
    /\ UNCHANGED <<email, sweep, now, hold>>

Commit(h) ==
    /\ tx[h].stage \in {"wroteBilling", "wroteUser"}
    /\ tx[h].stage = "wroteUser" <=> WritesUser(h)
    /\ IF job[h].row = NoRow
       THEN \E id \in RowId \ DOMAIN billings :
              billings' = [r \in DOMAIN billings \cup {id} |->
                             IF r = id THEN tx[h].image ELSE billings[r]]
       ELSE billings' = [billings EXCEPT ![job[h].row] = tx[h].image]
    /\ currentProduct' = IF WritesUser(h)
                         THEN [currentProduct EXCEPT ![job[h].user] = NewProduct(h)]
                         ELSE currentProduct
    /\ tx' = [tx EXCEPT ![h] = NoTx]
    /\ Answered(h)

\* updateBillingOnPaymentFailed has no transaction: its UPDATE waits for the
\* row and commits by itself.
UpdateAlone(h) ==
    /\ tx[h].stage = "begun"
    /\ BillingFree(h)
    /\ MarkPastDue(h)
    /\ tx' = [tx EXCEPT ![h] = NoTx]
    /\ UNCHANGED hold

-----------------------------------------------------------------------------
(* The other requests: a query that waits for no lock takes a connection   *)
(* and gives it back at once; the UPDATE of a sign-in may wait with it.    *)

TxRestart == tx' = [h \in Handler |-> NoTx] /\ hold' = {}

Query(h) ==
    /\ CanQuery
    /\ FindUser(h) \/ FindBilling(h) \/ FindNoBilling(h)
    /\ UNCHANGED txVars

\* The process dies: the acquire timeout of a request that finds no free
\* connection is one of the reasons.
ProcessDies ==
    /\ \/ Crash
       \/ \E h \in Handler : \/ \E e \in Event : RejectInvoice(h, e)
                             \/ CanQuery /\ UnknownUser(h)
    /\ TxRestart

NoQuery ==
    /\ \/ Tick
       \/ \E h \in Handler : Reply(h) \/ \E e \in Event : Deliver(h, e)
    /\ UNCHANGED txVars

TakeConnection(c) ==
    /\ sweep[c] # NoUser /\ c \notin hold
    /\ CanQuery
    /\ hold' = hold \cup {c}
    /\ UNCHANGED <<vars, tx>>

\* Fault: a failed query keeps its connection.
SignInStepLeaking(c) ==
    /\ \/ /\ CanQuery /\ \E u \in User : HasExpiredSubscription(c, u)
          /\ UNCHANGED hold
       \/ /\ c \in hold /\ UserFree(sweep[c]) /\ DowngradeToFreeTier(c)
          /\ hold' = hold \ {c}
       \/ SignInFails(c) /\ UNCHANGED hold
    /\ UNCHANGED tx

SignInStep(c) ==
    /\ \/ /\ CanQuery /\ \E u \in User : HasExpiredSubscription(c, u)
          /\ UNCHANGED hold
       \/ /\ c \in hold /\ UserFree(sweep[c]) /\ DowngradeToFreeTier(c)
          /\ hold' = hold \ {c}
       \/ SignInFails(c) /\ hold' = hold \ {c}
    /\ UNCHANGED tx

UpdateEmail ==
    /\ CanQuery
    /\ \E u \in User, m \in Email : UserFree(u) /\ ChangeEmail(u, m)
    /\ UNCHANGED txVars

TxNext ==
    \/ \E h \in Handler :
         \/ Begin(h) \/ WriteBilling(h) \/ ReadFreeTier(h) \/ WriteUser(h)
         \/ Commit(h) \/ UpdateAlone(h)
         \/ Query(h)
    \/ \E c \in SignIn : TakeConnection(c) \/ SignInStep(c)
    \/ NoQuery \/ UpdateEmail \/ ProcessDies

TxSpec == TxInit /\ [][TxNext]_allVars

-----------------------------------------------------------------------------

\* Seen from outside each transaction is the one indivisible step Billing
\* takes it for: the row it rewrites has not changed between its UPDATE and
\* its COMMIT, whatever other webhooks, sign-ins and crashes do meanwhile.
ImplementsBilling == Spec

\* What the transaction of h needs for its next statement is there.
CanStep(h) ==
    CASE tx[h].stage = "begun" -> job[h].row = NoRow \/ BillingFree(h)
      [] tx[h].stage = "wroteBilling" /\ Downgrades(h) -> CanQuery
      [] tx[h].stage = "wroteBilling" /\ ~ Downgrades(h) /\ WritesUser(h) ->
           UserFree(job[h].user)
      [] tx[h].stage = "readFreeTier" -> UserFree(job[h].user)
      [] OTHER -> TRUE

\* The transactions never all wait for each other's locks and connections:
\* some transaction, or a sign-in that holds a connection, can go on.  It
\* needs fewer webhooks at a time than the pool has connections: each holds
\* one and downgradeToFreeTier asks for a second.
NobodyStuck ==
    InTx # {} => \/ \E h \in InTx : CanStep(h)
                 \/ \E c \in hold : sweep[c] # NoUser /\ UserFree(sweep[c])

=============================================================================
