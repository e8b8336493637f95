---------------------------- MODULE SignInPages ----------------------------
(***************************************************************************)
(* The pages of one tab and who is signed in on them: the routes, the      *)
(* sign-in and sign-up forms of a page and of the modal, Google's button,  *)
(* the header's logout, and the copy of the user that localStorage keeps   *)
(* beside the tokens.                                                      *)
(*                                                                         *)
(* A page takes the tokens and the copy from localStorage when it is       *)
(* mounted.  A sign-in stores the tokens, then asks for the user, then     *)
(* stores the copy: two sign-ins may overlap (a form beside Google's       *)
(* button, a modal closed while it waits), and what a request does when it *)
(* ends it does on whatever page is shown by then.                         *)
(*                                                                         *)
(* ClientAuth has the refreshes of the tokens; here a session is just lost. *)
(***************************************************************************)
EXTENDS ReactQuery

CONSTANTS User, NoUser, NoCopy, Price, NoPrice

ASSUME UserAssumption == NoUser \notin User

VARIABLES
    verified,   \* the server: whose e-mail is verified
    tokens,     \* localStorage: whose tokens it has
    stored,     \* localStorage: the copy of the user
    page,
    auth,       \* the page's useAuth; of its user only isEmailVerified
    modal,      \* AuthModalContext's authMode is not "none"
    mine,       \* the calls whose component is still mounted
    strayed     \* the copy may not be the account's: a profile was not read, or
                \* was read while the tokens changed

signInVars == <<verified, tokens, stored, page, auth, modal, strayed>>

\* "login" stands for the sign-up page too, "landing" for the pricing page,
\* "dashboard" for the profile page, "stripe" for a checkout or a portal.
Page == {"landing", "login", "forgot", "reset", "verify", "dashboard",
         "billing", "stripe"}

Protected == {"dashboard", "billing"}
SignedOutOnly == {"login", "forgot"}

Copy == [user : User, verified : BOOLEAN]

ASSUME CopyAssumption == NoCopy \notin Copy

\* What a call was made with and by what: the form, the button or the page
\* that goes on when it ends.
Arg == [user : User \cup {NoUser}, by : {"page", "modal", "portal", "verify"},
        price : Price \cup {NoPrice}]

By(u, component) == [user |-> u, by |-> component, price |-> NoPrice]

SigningIn == {"signIn", "google", "profile"}

\* The server's part in the other calls is not seen here: the answer, or the
\* failure of the last attempt, comes at any time.
TwoSteps == {"profile", "refreshUser", "verify"}

Answered(c, kind) == Arrives(c, kind) /\ kind \notin TwoSteps
GivenUp(c, kind) == Answered(c, kind) /\ call[c].left = 0
Free(c) == call' = [call EXCEPT ![c] = NoCall]

SignInTypeOK ==
    /\ verified \in [User -> BOOLEAN]
    /\ tokens \in User \cup {NoUser}
    /\ stored \in Copy \cup {NoCopy}
    /\ page \in Page
    /\ auth \in [in : BOOLEAN, user : {"none", "unverified", "verified"}]
    /\ modal \in BOOLEAN /\ strayed \in BOOLEAN
    /\ mine \subseteq {c \in Call : ~ Idle(c)}

Shown(copy) ==
    IF copy = NoCopy THEN "none"
    ELSE IF copy.verified THEN "verified" ELSE "unverified"

FromStorage == [in |-> tokens # NoUser, user |-> Shown(stored)]
SignedOut == [in |-> FALSE, user |-> "none"]

\* PublicRoute and ProtectedRoute.
Routed(p) ==
    IF p \in Protected /\ tokens = NoUser THEN "login"
    ELSE IF p \in SignedOutOnly /\ tokens # NoUser THEN "dashboard"
    ELSE p

\* The browser comes with what an earlier visit left.
SignInInit ==
    /\ verified \in [User -> BOOLEAN]
    /\ \/ tokens = NoUser /\ stored = NoCopy
       \/ /\ tokens \in User
          /\ \E v \in BOOLEAN : /\ v => verified[tokens]
                                /\ stored = [user |-> tokens, verified |-> v]
    /\ page = "landing" /\ auth = FromStorage
    /\ modal = FALSE /\ mine = {} /\ strayed = FALSE

-----------------------------------------------------------------------------
(* Routes.                                                                 *)

\* The calls of the page are nobody's any more when it is left.  The modal is
\* a dialog beside the pages on a phone and a popover of the page elsewhere.
LeavePage(calls) ==
    mine' \in {{}, {c \in calls : call[c].arg.by = "modal"}}

\* A page that is shown already is not mounted again.
GoTo(p, calls) ==
    /\ page' = p
    /\ IF p = page THEN mine' = calls ELSE LeavePage(calls)

\* By a link, the back button, or the timeout after a success.
Visit(p) ==
    /\ page # "stripe" /\ page # p
    /\ p \in {"landing", "login", "forgot", "dashboard"}
    /\ GoTo(Routed(p), mine) /\ auth' = FromStorage
    /\ UNCHANGED <<call, verified, tokens, stored, modal, strayed>>

\* The link was opened, or the account joined to Google, somewhere else.
VerifiedElsewhere(u) ==
    /\ ~ verified[u]
    /\ verified' = [verified EXCEPT ![u] = TRUE]
    /\ UNCHANGED <<call, tokens, stored, page, auth, modal, mine, strayed>>

-----------------------------------------------------------------------------
(* Signing in.                                                             *)

OpenAuth ==
    /\ ~ modal /\ ~ auth.in
    /\ page \in {"landing", "login", "forgot", "reset"}
    /\ modal' = TRUE
    /\ UNCHANGED <<call, verified, tokens, stored, page, auth, mine, strayed>>

\* Closed by Escape or by a click outside, also while its form waits.
CloseAuth ==
    /\ modal /\ modal' = FALSE
    /\ mine' = {c \in mine : call[c].arg.by # "modal"}
    /\ UNCHANGED <<call, verified, tokens, stored, page, auth, strayed>>

\* A form is disabled while it waits, Google's button on its own.
Waits(form, kinds) ==
    \E c \in mine : call[c].arg.by = form /\ call[c].kind \in kinds

\* A sign-up gives no tokens: the form logs in next, and fails if either does.
SignUpOrIn(c, u, form, kind) ==
    /\ IF kind = "google" THEN ~ Waits(form, {"google"})
       ELSE ~ Waits(form, SigningIn \ {"google"})
    /\ Start(c, kind, By(u, form), 0, NoCopy)
    /\ mine' = mine \cup {c}
    /\ strayed' = (strayed \/ ~ NoneOf(SigningIn))
    /\ UNCHANGED <<verified, tokens, stored, page, auth, modal>>

SubmitOnPage(c, u, kind) == page = "login" /\ SignUpOrIn(c, u, "page", kind)
SubmitInModal(c, u, kind) == modal /\ SignUpOrIn(c, u, "modal", kind)

\* The next request of the same call.
Then(c, kind, u) ==
    call' = [call EXCEPT ![c] = [@ EXCEPT !.kind = kind, !.stage = "sent",
                                          !.ok = FALSE, !.value = NoCopy,
                                          !.left = 0, !.arg.user = u]]

EndTokens(c) ==
    /\ Answered(c, "signIn") \/ Answered(c, "google")
    /\ tokens' = call[c].arg.user
    /\ Then(c, "profile", tokens')
    /\ strayed' = (strayed \/ ~ NoneOf({"refreshUser"}))
    /\ UNCHANGED <<verified, stored, page, auth, modal, mine>>

\* getUserById, for a sign-in or for refreshUser.
ServeProfile(c) ==
    /\ Arrives(c, "profile") \/ Arrives(c, "refreshUser")
    /\ Respond(c, [user |-> call[c].arg.user,
                   verified |-> verified[call[c].arg.user]])
    /\ UNCHANGED <<signInVars, mine>>

\* Fault: the copy is not stored.
EndProfileUnstored(c) ==
    /\ Succeeded(c, "profile")
    /\ modal' = (modal /\ call[c].arg.by # "modal")
    /\ GoTo(Routed("dashboard"), mine \ {c})
    /\ auth' = IF page' = page THEN auth ELSE FromStorage
    /\ UNCHANGED <<verified, tokens, stored, strayed>>

\* setUser, closeAuth, navigate('/dashboard'): on any page and without regard
\* to whether the form is still there.
EndProfile(c) ==
    /\ Succeeded(c, "profile")
    /\ stored' = call[c].value
    /\ modal' = (modal /\ call[c].arg.by # "modal")
    /\ GoTo(Routed("dashboard"), mine \ {c})
    /\ auth' = IF page' = page THEN auth
               ELSE [in |-> tokens # NoUser, user |-> Shown(stored')]
    /\ strayed' = (strayed /\ (\/ call[c].arg.user # tokens
                              \/ \E d \in Call \ {c} : ~ Idle(d)))
    /\ UNCHANGED <<verified, tokens>>

\* The form shows the error; the tokens, if there were any, stay.
FailSignIn(c) ==
    /\ \/ Failed(c, "profile")
       \/ Free(c) /\ \E kind \in SigningIn : GivenUp(c, kind)
    /\ mine' = mine \ {c}
    /\ strayed' = (strayed \/ call[c].kind = "profile")
    /\ UNCHANGED <<verified, tokens, stored, page, auth, modal>>

-----------------------------------------------------------------------------
(* Signing out.                                                            *)

\* A profile read before may still be stored after the tokens are gone.
Astray ==
    \/ ~ NoneOf({"profile", "refreshUser"})
    \/ strayed /\ ~ NoneOf(SigningIn)

\* Fault: nobody is told.
ClearSilently ==
    /\ tokens' = NoUser /\ stored' = NoCopy
    /\ strayed' = Astray
    /\ UNCHANGED <<page, auth, mine>>

\* clearAuthData and its event: protected pages go to the login page.
Clear ==
    /\ tokens' = NoUser /\ stored' = NoCopy
    /\ strayed' = Astray
    /\ auth' = SignedOut
    /\ GoTo(IF page \in Protected THEN "login" ELSE page, mine)

\* A refresh that was refused.
SessionLost ==
    /\ tokens # NoUser /\ page # "stripe"
    /\ Clear
    /\ UNCHANGED <<call, verified, modal>>

\* The header's button, not disabled while it waits.  The server is told if the
\* access token is still good.
Logout(c) ==
    /\ auth.in /\ page \notin {"verify", "stripe"}
    /\ Start(c, "logout", By(NoUser, "page"), 0, NoCopy)
    /\ UNCHANGED <<signInVars, mine>>

\* Whatever came of it: clearAuthData and navigate('/login').
EndLogout(c) ==
    /\ Answered(c, "logout") /\ Free(c)
    /\ tokens' = NoUser /\ stored' = NoCopy
    /\ strayed' = Astray
    /\ GoTo("login", mine) /\ auth' = SignedOut
    /\ UNCHANGED <<verified, modal>>

-----------------------------------------------------------------------------
(* refreshUser: the copy is read anew.                                     *)

\* Fault: the id is stored in place of the user.
StoreRefreshedId(c) ==
    IF call[c].ok
    THEN /\ stored' = call[c].value.user
         /\ auth' = IF c \in mine THEN [auth EXCEPT !.user = Shown(call[c].value)]
                    ELSE auth
         /\ UNCHANGED strayed
    ELSE /\ strayed' = TRUE
         /\ UNCHANGED <<stored, auth>>

StoreRefreshed(c) ==
    IF call[c].ok
    THEN /\ stored' = call[c].value
         /\ auth' = IF c \in mine THEN [auth EXCEPT !.user = Shown(call[c].value)]
                    ELSE auth
         /\ UNCHANGED strayed
    ELSE /\ strayed' = TRUE
         /\ UNCHANGED <<stored, auth>>

\* An attempt of any of these that is refused or does not reach the server.
Unserved(c) ==
    /\ \E kind \in TwoSteps : Arrives(c, kind)
    /\ Fail(c)
    /\ UNCHANGED <<signInVars, mine>>

SignInStep ==
    \/ \E p \in Page : Visit(p)
    \/ \E u \in User : VerifiedElsewhere(u)
    \/ OpenAuth \/ CloseAuth \/ SessionLost
    \/ \E c \in Call :
         \/ \E u \in User, kind \in {"signIn", "google"} :
               SubmitOnPage(c, u, kind) \/ SubmitInModal(c, u, kind)
         \/ EndTokens(c)
         \/ ServeProfile(c) \/ EndProfile(c) \/ FailSignIn(c)
         \/ Logout(c) \/ EndLogout(c)

=============================================================================
