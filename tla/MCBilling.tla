------------------------------ MODULE MCBilling ------------------------------
(* Billing on small sets, with the events of one or two customers.         *)
EXTENDS Billing, TLC

CONSTANTS m1, m2, basic, pro, s1, s2

Ev(t, s, m, p, st, n) ==
    [id |-> 0, type |-> t, sub |-> s, email |-> m,
     price |-> p, status |-> st, end |-> n]

Paid(s, m, p, n) == Ev("invoice.paid", s, m, p, "active", n)
Failed(s) == Ev("invoice.payment_failed", s, m1, NoProduct, "active", 0)
Updated(s, p, st, n) == Ev("customer.subscription.updated", s, m1, p, st, n)
Deleted(s) == Ev("customer.subscription.deleted", s, m1, NoProduct, "active", 0)
Other == Ev("other", NoSubscription, m1, NoProduct, "active", 0)

\* One customer: a first payment, a plan change, the end of the
\* subscription, a second subscription; an unknown price, an invoice that is
\* not a subscription's, and an event the controller ignores.
OneCustomer ==
    {Paid(s1, m1, basic, 1), Paid(s2, m1, pro, 2), Failed(s1),
     Updated(s1, pro, "active", 1), Updated(s1, NoProduct, "unpaid", 0),
     Deleted(s1)}

\* With them an unknown price, an invoice that is not a subscription's, a
\* payment under another e-mail, and an event the controller ignores.
Oddities ==
    {Paid(s1, m1, NoProduct, 1), Failed(NoSubscription), Paid(s1, m2, pro, 1),
     Other}

AllEvents == OneCustomer \cup Oddities

SlotSymmetry == Permutations(User) \cup Permutations(RowId) \cup Permutations(Handler)
=============================================================================
