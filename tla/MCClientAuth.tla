---------------------------- MODULE MCClientAuth ----------------------------
(* ClientAuth with the slots of its calls.                                 *)
EXTENDS ClientAuth

Slots == Call \X {"call", "refresh"}

\* Two bounds for TLC only, neither of which keeps a request from ending.
\* The database turns a good token into a 401 in the first second; later a
\* 401 is that of an expired token.  Answers are lost at any time.
DatabaseEarly ==
    \A r \in Req : QueryFails(r) =>
        now = 0 \/ ~ Protected(r) \/ req[r].pc # "arrived" \/ Owner(r) = {}

\* A reset, which changes nothing the others read, runs alone.
ResetAlone ==
    \A c, d \in Call :
        c # d /\ ~ Idle(c) /\ call[c].kind = "reset" => Idle(d)

\* Continue, which is in ClientNext and within both bounds, stands by itself
\* for TLC to count its actions one by one.
MCNext ==
    \/ \E c \in Call : Continue(c)
    \/ ClientNext /\ DatabaseEarly /\ ResetAlone'

MCFairSpec == ClientInit /\ [][MCNext]_allVars /\ Fairness
=============================================================================
