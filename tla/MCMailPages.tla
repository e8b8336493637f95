---------------------------- MODULE MCMailPages ----------------------------
EXTENDS MailPages, TLC

ModalUsed == modal \/ \E c \in Call : ~ Idle(c) /\ call[c].arg.by = "modal"

\* A bound for TLC only: the modal is not used while the copy may be astray,
\* of which three of the properties say nothing.  MailPagesProofs has no bound.
ModalOwn == ~ (ModalUsed /\ strayed)

MCSpec == Init /\ [][Next /\ ModalOwn']_vars

Symmetry == Permutations(Call) \cup Permutations(User)
=============================================================================
