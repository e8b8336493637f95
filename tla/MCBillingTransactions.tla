----------------------- MODULE MCBillingTransactions -----------------------
(* BillingTransactions on small sets, with one customer's events.          *)
EXTENDS BillingTransactions, TLC

CONSTANTS m1, m2, basic, pro, s1

Ev(t, p, st, n) ==
    [id |-> 0, type |-> t, sub |-> s1, email |-> m1,
     price |-> p, status |-> st, end |-> n]

\* A payment, a plan change, a failed payment and the subscription's end.
Story ==
    {Ev("invoice.paid", basic, "active", 0),
     Ev("customer.subscription.updated", pro, "active", 0),
     Ev("invoice.payment_failed", NoProduct, "active", 0),
     Ev("customer.subscription.deleted", NoProduct, "active", 0)}

\* A bound for TLC only: the address changes before there is a billing and
\* outside the transactions.  BillingTransactionsProofs has no such bound.
EmailsEarly ==
    email' # email =>
        DOMAIN billings = {} /\ \A h \in Handler : job[h].pc # "write"

MCSpec == TxInit /\ [][TxNext /\ EmailsEarly]_allVars

SlotSymmetry == Permutations(RowId) \cup Permutations(Handler)
=============================================================================
