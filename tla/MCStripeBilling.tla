--------------------------- MODULE MCStripeBilling ---------------------------
(* StripeBilling on small sets.                                            *)
EXTENDS StripeBilling, TLC

CONSTANTS m1

SameCustomer == [s \in Subscription |-> m1]

RowSymmetry == Permutations(RowId)
=============================================================================
