----------------------------- MODULE Entitlement -----------------------------
(***************************************************************************)
(* What the billing tables promise: a user has at most one plan, every     *)
(* webhook event reads and changes the plan of its subscription and the    *)
(* user's product in one indivisible step, and events of a subscription    *)
(* that is nobody's plan any more change nothing.                          *)
(*                                                                         *)
(* Billing implements this specification as long as no two webhooks of one *)
(* customer overlap, whatever sign-ins, e-mail changes and crashes happen  *)
(* meanwhile.                                                              *)
(***************************************************************************)
EXTENDS Naturals

CONSTANTS User, Product, Subscription, FreeTier, Event, MaxTime,
          NoProduct, NoPlan

VARIABLES plan,     \* the user's billing, or NoPlan
          product   \* the user's current product

vars == <<plan, product>>

Ended == {"canceled", "unpaid"}

Init ==
    /\ plan = [u \in User |-> NoPlan]
    /\ product = [u \in User |-> FreeTier]

Subscribed(u, e) == plan[u] # NoPlan /\ plan[u].sub = e.sub

\* A payment makes its subscription the user's plan, whatever it was before.
Pay(u, e) ==
    /\ e.type = "invoice.paid"
    /\ e.price # NoProduct
    /\ plan' = [plan EXCEPT ![u] = [productId |-> e.price, sub |-> e.sub,
                                    status |-> "active", expiresAt |-> e.end]]
    /\ product' = [product EXCEPT ![u] = e.price]

Fail(u, e) ==
    /\ e.type = "invoice.payment_failed"
    /\ Subscribed(u, e)
    /\ plan' = [plan EXCEPT ![u].status = "past_due"]
    /\ UNCHANGED product

\* The product follows the plan when the plan's product changes.
Update(u, e) ==
    /\ e.type = "customer.subscription.updated"
    /\ Subscribed(u, e)
    /\ LET next == IF e.price = NoProduct THEN plan[u].productId ELSE e.price
       IN  /\ plan' = [plan EXCEPT ![u].productId = next,
                                   ![u].status = e.status,
                                   ![u].expiresAt = e.end]
           /\ product' = [product EXCEPT ![u] =
                            IF e.status \in Ended THEN FreeTier
                            ELSE IF next # plan[u].productId THEN next
                            ELSE @]

Delete(u, e) ==
    /\ e.type = "customer.subscription.deleted"
    /\ Subscribed(u, e)
    /\ \E t \in 0 .. MaxTime :
         plan' = [plan EXCEPT ![u].status = "canceled", ![u].expiresAt = t]
    /\ product' = [product EXCEPT ![u] = FreeTier]

\* A sign-in of somebody whose plan ran out.  It may come late, when the
\* plan has been renewed, so the plan's present expiry does not guard it.
Downgrade(u) ==
    /\ plan[u] # NoPlan
    /\ product' = [product EXCEPT ![u] = FreeTier]
    /\ UNCHANGED plan

Next ==
    \E u \in User :
        \/ \E e \in Event : Pay(u, e) \/ Fail(u, e) \/ Update(u, e) \/ Delete(u, e)
        \/ Downgrade(u)

Spec == Init /\ [][Next]_vars
=============================================================================
