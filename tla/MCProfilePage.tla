--------------------------- MODULE MCProfilePage ---------------------------
EXTENDS ProfilePage, TLC

CONSTANTS m1, n1

\* Addresses and names are interchangeable.
MCInit == Init /\ row.email = m1 /\ row.name = n1 /\ form = n1
               /\ pending = NoEmail

MCSpec == MCInit /\ [][Next]_vars

Slots == Permutations(Call)
=============================================================================
