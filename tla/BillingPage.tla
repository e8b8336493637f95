---------------------------- MODULE BillingPage ----------------------------
(***************************************************************************)
(* The billing page: getUserBilling through React Query's cache, checkout, *)
(* customer portal and the return from Stripe.                             *)
(*                                                                         *)
(* The cache outlives the page and the session: nothing clears it at a     *)
(* logout, and a page that is mounted while a fetch is under way waits for *)
(* that fetch, whoever's token it was sent with.                           *)
(*                                                                         *)
(* What getUserBilling answers is any billing, so the cache just has whose *)
(* it is; Billing has how it changes.                                      *)
(***************************************************************************)
EXTENDS SignInPages

CONSTANT QueryRetries   \* retry: 3

ASSUME QueryRetryAssumption == QueryRetries \in Nat

VARIABLES
    cache,      \* whose billing the query has, whatever its errors
    doubtful,   \* the last fetch failed, or the tokens changed under it
    checkoutLoading, isLoadingPortal, showVerificationError

billingVars == <<cache, doubtful, checkoutLoading, isLoadingPortal,
                 showVerificationError>>

BillingTypeOK ==
    /\ cache \in User \cup {NoUser} /\ doubtful \in BOOLEAN
    /\ checkoutLoading \in Price \cup {NoPrice}
    /\ isLoadingPortal \in BOOLEAN /\ showVerificationError \in BOOLEAN

BillingInit ==
    /\ cache = NoUser /\ doubtful = FALSE
    /\ checkoutLoading = NoPrice
    /\ isLoadingPortal = FALSE /\ showVerificationError = FALSE

\* A page that is mounted waits for nothing.
ResetPage ==
    /\ checkoutLoading' = NoPrice
    /\ isLoadingPortal' = FALSE /\ showVerificationError' = FALSE

Fetching == ~ NoneOf({"billing"})

-----------------------------------------------------------------------------
(* The query.                                                              *)

StartFetch(c) ==
    /\ Start(c, "billing", By(tokens, "page"), QueryRetries, NoCopy)
    /\ doubtful' = FALSE

\* Fault: the page keeps the provider's staleTime of five minutes.
VisitBillingCached(c) ==
    /\ page \notin {"stripe", "billing"} /\ tokens # NoUser
    /\ page' = "billing" /\ auth' = FromStorage
    /\ LeavePage(mine)
    /\ IF Fetching \/ cache # NoUser THEN UNCHANGED <<call, doubtful>>
       ELSE StartFetch(c)
    /\ ResetPage
    /\ UNCHANGED <<verified, tokens, stored, modal, strayed, cache>>

\* staleTime: 0.  Mounting fetches whatever the cache has, unless a fetch is
\* under way.
VisitBilling(c) ==
    /\ page \notin {"stripe", "billing"} /\ tokens # NoUser
    /\ page' = "billing" /\ auth' = FromStorage
    /\ LeavePage(mine)
    /\ IF Fetching THEN UNCHANGED <<call, doubtful>> ELSE StartFetch(c)
    /\ ResetPage
    /\ UNCHANGED <<verified, tokens, stored, modal, strayed, cache>>

\* refetchOnWindowFocus.
Focus(c) ==
    /\ page = "billing" /\ ~ Fetching
    /\ StartFetch(c)
    /\ UNCHANGED <<signInVars, mine, cache, checkoutLoading, isLoadingPortal,
                   showVerificationError>>

\* Every attempt is made with the token of then; a query is not tried again
\* without its page.
Retry(c, kind) ==
    /\ Answered(c, kind) /\ call[c].left > 0
    /\ kind = "billing" => page = "billing"
    /\ call' = [call EXCEPT ![c].left = @ - 1,
                            ![c].arg.user = IF kind \in {"forgot", "reset"}
                                           THEN @ ELSE tokens]
    /\ UNCHANGED <<signInVars, mine, billingVars>>

EndBilling(c) ==
    /\ Answered(c, "billing") /\ Free(c)
    /\ \/ /\ call[c].arg.user # NoUser
          /\ cache' = call[c].arg.user /\ UNCHANGED doubtful
       \/ /\ call[c].left = 0 \/ page # "billing"
          /\ doubtful' = TRUE /\ UNCHANGED cache
    /\ UNCHANGED <<signInVars, mine, checkoutLoading, isLoadingPortal,
                   showVerificationError>>

-----------------------------------------------------------------------------
(* Stripe.                                                                 *)

Loaded == page = "billing" /\ ~ (cache = NoUser /\ Fetching)

\* Unless the billing is active; without an answer the page shows the free
\* tier.  Only the button of the plan that is being bought is disabled.
Subscribe(c, p) ==
    /\ Loaded /\ auth.user = "verified"
    /\ checkoutLoading # p
    /\ Start(c, "checkout", [By(tokens, "page") EXCEPT !.price = p],
             MutationRetries, NoCopy)
    /\ checkoutLoading' = p /\ mine' = mine \cup {c}
    /\ UNCHANGED <<signInVars, cache, doubtful, isLoadingPortal,
                   showVerificationError>>

\* "Manage Subscription" and "Billing History", if the billing has a customer
\* of Stripe.
ManageSubscription(c) ==
    /\ Loaded /\ cache # NoUser /\ ~ isLoadingPortal
    /\ Start(c, "portal", By(tokens, "portal"), MutationRetries, NoCopy)
    /\ isLoadingPortal' = TRUE /\ mine' = mine \cup {c}
    /\ UNCHANGED <<signInVars, cache, doubtful, checkoutLoading,
                   showVerificationError>>

\* verifiedEmailProcedure.
Accepted(c) == call[c].arg.user # NoUser /\ verified[call[c].arg.user]

\* The document is left: its calls, its cache and its modal are no more.  A
\* sign-in that has its tokens is left half way.
Leave(p, calls, component) ==
    /\ page' = p /\ call' = calls /\ mine' = component
    /\ modal' = FALSE
    /\ cache' = NoUser /\ doubtful' = FALSE
    /\ strayed' = (strayed \/ ~ NoneOf({"profile"}))
    /\ ResetPage

NoCalls == [c \in Call |-> NoCall]

\* window.location.href, also when the page is not the billing page any more.
GoToStripe(c) ==
    /\ Answered(c, "checkout") \/ Answered(c, "portal")
    /\ Accepted(c)
    /\ Leave("stripe", NoCalls, {})
    /\ UNCHANGED <<verified, tokens, stored, auth>>

FailCheckout(c) ==
    /\ GivenUp(c, "checkout") /\ Free(c)
    /\ checkoutLoading' = IF c \in mine THEN NoPrice ELSE checkoutLoading
    /\ mine' = mine \ {c}
    /\ UNCHANGED <<signInVars, cache, doubtful, isLoadingPortal,
                   showVerificationError>>

\* The server does not take the e-mail for verified.
Forbids(c) == call[c].arg.user # NoUser /\ ~ verified[call[c].arg.user]

\* Fault: the catch ends where it handles the 403.
FailPortalEarly(c) ==
    /\ GivenUp(c, "portal") /\ Free(c)
    /\ mine' = mine \ {c}
    /\ UNCHANGED <<signInVars, billingVars>>

\* An alert, or the dialog if the user could not be read either.
FailPortal(c) ==
    /\ GivenUp(c, "portal") /\ Free(c)
    /\ isLoadingPortal' = (isLoadingPortal /\ c \notin mine)
    /\ \/ UNCHANGED showVerificationError
       \/ /\ Forbids(c) /\ tokens = NoUser
          /\ showVerificationError' = (showVerificationError \/ c \in mine)
    /\ mine' = mine \ {c}
    /\ UNCHANGED <<signInVars, cache, doubtful, checkoutLoading>>

\* Forbidden: the user is read anew.
ForbiddenPortal(c) ==
    /\ GivenUp(c, "portal") /\ Forbids(c) /\ tokens # NoUser
    /\ Then(c, "refreshUser", tokens)
    /\ UNCHANGED <<signInVars, mine, billingVars>>

EndRefreshUser(c) ==
    /\ Take(c, "refreshUser") /\ call[c].arg.by # "verify"
    /\ StoreRefreshed(c)
    /\ isLoadingPortal' =
         (isLoadingPortal /\ ~ (c \in mine /\ call[c].arg.by = "portal"))
    /\ showVerificationError' =
         (showVerificationError \/ (c \in mine /\ call[c].arg.by = "portal"))
    /\ mine' = mine \ {c}
    /\ UNCHANGED <<verified, tokens, page, modal, cache, doubtful,
                   checkoutLoading>>

\* EmailVerificationDialog's Close, or a verification link sent again.
CloseVerificationError ==
    /\ showVerificationError /\ showVerificationError' = FALSE
    /\ UNCHANGED <<call, signInVars, mine, cache, doubtful,
                   checkoutLoading, isLoadingPortal>>

Record(kind, arg, retries) ==
    [kind |-> kind, arg |-> arg, left |-> retries, stage |-> "sent",
     ok |-> FALSE, value |-> NoCopy]

\* Stripe sends the browser to /billing, after a checkout with success=true:
\* the fetch of the mount, and with it refreshUser.
Return(success) ==
    /\ page = "stripe"
    /\ IF tokens = NoUser
       THEN Leave("login", NoCalls, {})
       ELSE \E c, d \in Call :
              /\ c # d
              /\ Leave("billing",
                       [e \in Call |->
                          IF e = c THEN Record("billing", By(tokens, "page"), QueryRetries)
                          ELSE IF e = d /\ success
                               THEN Record("refreshUser", By(tokens, "page"), 0)
                               ELSE NoCall],
                       IF success THEN {d} ELSE {})
    /\ auth' = FromStorage
    /\ UNCHANGED <<verified, tokens, stored>>

-----------------------------------------------------------------------------

\* The rest of the tab, seen from the query and from the page, which keeps its
\* state while it is mounted.
Aside ==
    /\ doubtful' = ((doubtful /\ (Fetching \/ page' = "billing"))
                   \/ (Fetching /\ tokens' # tokens))
    /\ IF page' # page THEN ResetPage
       ELSE UNCHANGED <<checkoutLoading, isLoadingPortal, showVerificationError>>
    /\ UNCHANGED cache

BillingStep ==
    \/ SignInStep /\ Aside
    \/ \E c \in Call :
         \/ VisitBilling(c) \/ Focus(c) \/ EndBilling(c)
         \/ \E kind \in {"billing", "checkout", "portal", "resend", "forgot",
                         "reset"} : Retry(c, kind)
         \/ \E p \in Price : Subscribe(c, p)
         \/ ManageSubscription(c) \/ GoToStripe(c)
         \/ FailCheckout(c) \/ FailPortal(c) \/ ForbiddenPortal(c)
         \/ EndRefreshUser(c)
         \/ Unserved(c) /\ UNCHANGED billingVars
    \/ CloseVerificationError
    \/ \E success \in BOOLEAN : Return(success)

-----------------------------------------------------------------------------
(* Properties.                                                             *)

\* The tokens of localStorage and its copy of the user belong together once a
\* sign-in is over, whatever sign-ins and sign-outs went before: only a profile
\* that could not be read, or was read while the tokens changed, parts them.
OwnProfile ==
    tokens # NoUser /\ NoneOf(SigningIn) /\ ~ strayed =>
        stored # NoCopy /\ stored.user = tokens

\* A page for signed-in users is not shown without tokens: every way of losing
\* them is noticed by the page.
ProtectedShown == page \in Protected => tokens # NoUser

\* The billing shown is that of the user who is signed in, although the cache
\* still has the billing of who was signed in before: only a fetch or a sign-in
\* that failed, or a fetch begun for somebody else, lets it be seen at rest.
BillingOwn ==
    /\ page = "billing" /\ ~ Fetching /\ NoneOf(SigningIn)
    /\ ~ doubtful /\ ~ strayed
    => cache = tokens

=============================================================================
