----------------------------- MODULE MailPages -----------------------------
(***************************************************************************)
(* The pages that mail leads to or that send it: the verification link,    *)
(* the forgotten password and the reset link; with them the whole tab.     *)
(*                                                                         *)
(* A link opens a new document.  The callbacks of a mutation come only to  *)
(* a page that is still mounted; the timeout that leads on after a success *)
(* comes wherever the user is by then, and is one of the visits that may   *)
(* come at any time.                                                       *)
(***************************************************************************)
EXTENDS BillingPage

VARIABLES
    state,      \* of VerifyEmailPage, and submitted and success of the other two
    link        \* whose link was opened

mailVars == <<state, link>>
vars == <<call, signInVars, mine, billingVars, mailVars>>

\* The calls of these pages, and the link sent again.
Mutation == {"verify", "reset", "forgot", "resend"}

TabCall ==
    [kind : SigningIn \cup Mutation \cup
            {"logout", "refreshUser", "billing", "checkout", "portal"},
     arg : Arg, left : 0 .. QueryRetries + MutationRetries,
     stage : {"sent", "answered"}, ok : BOOLEAN, value : {NoCopy} \cup Copy]

ASSUME NoCallAssumption == NoCall \notin TabCall

TypeOK ==
    /\ call \in [Call -> {NoCall} \cup TabCall]
    /\ SignInTypeOK /\ BillingTypeOK
    /\ state \in {"none", "waiting", "success", "error"}
    /\ link \in User \cup {NoUser}

Init ==
    /\ call = NoCalls
    /\ SignInInit /\ BillingInit
    /\ state = "none" /\ link = NoUser

-----------------------------------------------------------------------------
(* Links.                                                                  *)

\* A link without a token is an error at once.
OpenVerifyLink(u) ==
    /\ link' = u
    /\ \/ /\ \E c \in Call :
               Leave("verify",
                     [d \in Call |->
                        IF d = c THEN Record("verify", By(u, "verify"), MutationRetries)
                        ELSE NoCall], {c})
          /\ state' = "waiting"
       \/ Leave("verify", NoCalls, {}) /\ state' = "error"
    /\ auth' = FromStorage
    /\ UNCHANGED <<verified, tokens, stored>>

\* verifyUserEmail; what is refused is an Unserved.
ServeVerify(c) ==
    /\ Arrives(c, "verify")
    /\ verified' = [verified EXCEPT ![call[c].arg.user] = TRUE]
    /\ Respond(c, NoCopy)
    /\ UNCHANGED <<tokens, stored, page, auth, modal, strayed, mine, billingVars,
                   mailVars>>

\* Fault: the copy is not refreshed.
EndVerifyUnsynced(c) ==
    /\ Under(c, "verify") /\ call[c].stage = "answered" /\ call[c].ok
    /\ Take(c, "verify") /\ mine' = mine \ {c}
    /\ state' = IF c \in mine THEN "success" ELSE state
    /\ UNCHANGED <<signInVars, billingVars, link>>

\* onSuccess: refreshUser, which without a token fails at once.
EndVerify(c) ==
    /\ Under(c, "verify") /\ call[c].stage = "answered" /\ call[c].ok
    /\ IF c \in mine /\ tokens # NoUser
       THEN Then(c, "refreshUser", tokens) /\ UNCHANGED <<mine, state>>
       ELSE /\ Take(c, "verify") /\ mine' = mine \ {c}
            /\ state' = IF c \in mine THEN "success" ELSE state
    /\ UNCHANGED <<signInVars, billingVars, link>>

\* Refreshed or not, the page shows the success.
EndRefreshAfterVerify(c) ==
    /\ Take(c, "refreshUser") /\ call[c].arg.by = "verify"
    /\ StoreRefreshed(c)
    /\ state' = IF c \in mine THEN "success" ELSE state
    /\ mine' = mine \ {c}
    /\ UNCHANGED <<verified, tokens, page, modal, billingVars, link>>

OpenResetLink ==
    /\ Leave("reset", NoCalls, {})
    /\ auth' = FromStorage
    /\ state' = "none" /\ link' = NoUser
    /\ UNCHANGED <<verified, tokens, stored>>

-----------------------------------------------------------------------------
(* Forms and buttons.                                                      *)

\* The form of the forgotten password or of the reset.  isPending disables it.
Submit(c, kind) ==
    /\ kind \in {"forgot", "reset"} /\ page = kind
    /\ state \in {"none", "error"}
    /\ ~ \E d \in mine : call[d].kind = kind
    /\ Start(c, kind, By(NoUser, "page"), MutationRetries, NoCopy)
    /\ state' = "waiting"
    /\ mine' = mine \cup {c}
    /\ UNCHANGED <<signInVars, billingVars, link>>

\* The link is mailed again from the dashboard, the billing page or after an
\* error.
Resend(c) ==
    /\ \/ page = "dashboard" /\ auth.user = "unverified"
       \/ page = "billing" /\ auth.user # "verified"
       \/ showVerificationError
       \/ page = "verify" /\ state = "error"
    /\ ~ \E d \in mine : call[d].kind = "resend"
    /\ Start(c, "resend", By(tokens, "page"), MutationRetries, NoCopy)
    /\ mine' = mine \cup {c}
    /\ UNCHANGED <<signInVars, billingVars, mailVars>>

\* Whether an account has the address is not shown: a failure looks the same.
EndForgot(c) ==
    /\ Answered(c, "forgot") /\ Free(c)
    /\ mine' = mine \ {c}
    /\ state' = IF c \in mine THEN "success" ELSE state
    /\ UNCHANGED <<signInVars, billingVars, link>>

EndReset(c) ==
    /\ Answered(c, "reset") /\ Free(c)
    /\ mine' = mine \ {c}
    /\ \/ state' = IF c \in mine THEN "success" ELSE state
       \/ call[c].left = 0 /\ state' = IF c \in mine THEN "error" ELSE state
    /\ UNCHANGED <<signInVars, billingVars, link>>

FailVerify(c) ==
    /\ Failed(c, "verify") /\ mine' = mine \ {c}
    /\ state' = IF c \in mine THEN "error" ELSE state
    /\ UNCHANGED <<signInVars, billingVars, link>>

EndResend(c) ==
    /\ Answered(c, "resend") /\ Free(c)
    /\ mine' = mine \ {c}
    /\ \/ call[c].left = 0 /\ UNCHANGED showVerificationError
       \/ /\ call[c].arg.user # NoUser
          /\ showVerificationError' = (showVerificationError /\ c \notin mine)
    /\ UNCHANGED <<signInVars, mailVars, cache, doubtful, checkoutLoading,
                   isLoadingPortal>>

-----------------------------------------------------------------------------

\* The other pages: what these show is gone when they are left.
MailAside ==
    IF page' # page THEN state' = "none" /\ link' = NoUser
    ELSE UNCHANGED <<state, link>>

Next ==
    \/ BillingStep /\ MailAside
    \/ \E u \in User : OpenVerifyLink(u)
    \/ OpenResetLink
    \/ \E c \in Call :
         \/ ServeVerify(c) \/ EndVerify(c) \/ FailVerify(c)
         \/ EndRefreshAfterVerify(c)
         \/ \E kind \in {"forgot", "reset"} : Submit(c, kind)
         \/ Resend(c) \/ EndForgot(c) \/ EndReset(c) \/ EndResend(c)

Spec == Init /\ [][Next]_vars

-----------------------------------------------------------------------------
(* Properties.                                                             *)

\* When the page of a verification link shows its success, the browser's copy
\* of the user says so too, if it is that user who is signed in and the copy
\* could be read: the dashboard it leads to does not ask to verify again.
VerifiedSeen ==
    page = "verify" /\ state = "success" /\ tokens = link /\ ~ strayed =>
        stored # NoCopy /\ stored.verified

\* No page waits for an answer that cannot come: while it shows a spinner or a
\* disabled button, a call of its own that ends the wait is under way.
NobodyWaits ==
    /\ state = "waiting" =>
         \E c \in mine : call[c].kind \in {"verify", "refreshUser", "reset", "forgot"}
    /\ isLoadingPortal =>
         \E c \in mine : call[c].kind \in {"portal", "refreshUser"}
    /\ checkoutLoading # NoPrice =>
         \E c \in mine : /\ call[c].kind = "checkout"
                         /\ call[c].arg.price = checkoutLoading

=============================================================================
