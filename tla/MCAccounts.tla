------------------------------ MODULE MCAccounts ------------------------------
(* Accounts on small sets.                                                 *)
EXTENDS Accounts, TLC

CONSTANTS m1, g1

\* Google knows one person, by an address that others use here too.
OneIdentity == [g \in Google |-> m1]

AccountSymmetry == Permutations(User) \cup Permutations(Request)
                     \cup Permutations(Email \ {m1})
=============================================================================
