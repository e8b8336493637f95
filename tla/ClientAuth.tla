----------------------------- MODULE ClientAuth -----------------------------
(***************************************************************************)
(* One browser against the sessions of the back-end: lib/auth.ts,          *)
(* lib/trpc.ts, utils/auth.ts, hooks/useAuth.ts and ProtectedRoute.tsx.    *)
(*                                                                         *)
(* Tabs share the tokens in localStorage and nothing else.  In a tab two   *)
(* pieces of code refresh, each one refresh at a time: AuthService         *)
(* (refreshPromise), which ProtectedRoute calls, and the fetch of the tRPC *)
(* client (isRefreshing), which refreshes and retries when a request is    *)
(* answered with 401.  The first sends its request through the second.     *)
(*                                                                         *)
(* A call is one HTTP request of the tRPC client with what the page does   *)
(* with its answer.  It has two request slots: its own (and its retry) and *)
(* the wrapper's refresh on its behalf.  Between two awaits JavaScript     *)
(* runs to completion, so an answer and all it causes are one action.      *)
(***************************************************************************)
EXTENDS Session

CONSTANTS Tab, Call, NoTab

ASSUME SlotAssumption == Req = Call \X {"call", "refresh"}

ASSUME NoTabAssumption == NoTab \notin Tab

VARIABLES
    store,          \* the tokens in localStorage: always one pair
    signedIn,       \* isAuthenticated in a tab's React state
    isRefreshing,   \* of lib/trpc.ts, per tab
    refreshPromise, \* of AuthService, per tab: whether there is one
    call

clientVars == <<store, signedIn, isRefreshing, refreshPromise, call>>
allVars == <<sessionVars, clientVars>>

\* profile: the getUserById that ends a login.
CallKind == {"signIn", "profile", "refresh", "logout", "reset", "query"}

\* sent: no 401 yet; refreshing: waits for the wrapper's refresh; retried:
\* sent again, and whatever comes back is final.
Stage == {"free", "sent", "refreshing", "retried"}

CallRecord == [tab : Tab \cup {NoTab}, kind : CallKind, stage : Stage]

NoCall == [tab |-> NoTab, kind |-> "query", stage |-> "free"]

Own(c) == <<c, "call">>
Refresh(c) == <<c, "refresh">>

\* isTokenExpired: the client still takes the token in its last second.
ClientValid(t) == t # NoToken /\ now <= t.iat + AccessLife

ClientTypeOK ==
    /\ SessionTypeOK
    /\ store \in Token \cup {NoToken}
    /\ signedIn \in [Tab -> BOOLEAN]
    /\ isRefreshing \in [Tab -> BOOLEAN]
    /\ refreshPromise \in [Tab -> BOOLEAN]
    /\ call \in [Call -> CallRecord]

\* The browser comes back with the tokens of an earlier visit, or with none.
ClientInit ==
    /\ \/ store = NoToken
       \/ \E u \in User : store = [user |-> u, iat |-> 0]
    /\ refreshToken = [u \in User |->
                        IF store # NoToken /\ store.user = u THEN store ELSE NoToken]
    /\ req = [r \in Req |-> Free]
    /\ now = 0
    /\ signedIn = [t \in Tab |-> store # NoToken]
    /\ isRefreshing = [t \in Tab |-> FALSE]
    /\ refreshPromise = [t \in Tab |-> FALSE]
    /\ call = [c \in Call |-> NoCall]

-----------------------------------------------------------------------------
(* Sending.                                                                *)

\* What the server is asked: a profile is read by a query.
Asked(kind) == IF kind = "profile" THEN "query" ELSE kind

Send(c, t, kind, u, token) ==
    /\ call' = [call EXCEPT ![c] = [tab |-> t, kind |-> kind, stage |-> "sent"]]
    /\ req' = [req EXCEPT ![Own(c)] = Arrived(Asked(kind), u, token)]
    /\ UNCHANGED <<refreshToken, now>>

Idle(c) == call[c].stage = "free"

\* A page that is shown to a signed-in user asks for something.
Query(c, t) ==
    /\ Idle(c) /\ signedIn[t]
    /\ Send(c, t, "query", NoUser, store)
    /\ UNCHANGED <<store, signedIn, isRefreshing, refreshPromise>>

SignIn(c, t) ==
    /\ Idle(c) /\ ~ signedIn[t]
    /\ \E u \in User : Send(c, t, "signIn", u, NoToken)
    /\ UNCHANGED <<store, signedIn, isRefreshing, refreshPromise>>

\* Fault: the effect does not look for a refresh token.  performRefresh then
\* throws before its promise is stored, and the promise is never reset.
ProtectedRefreshUnguarded(c, t) ==
    /\ Idle(c)
    /\ ~ ClientValid(store) /\ ~ refreshPromise[t]
    /\ refreshPromise' = [refreshPromise EXCEPT ![t] = TRUE]
    /\ IF store = NoToken THEN UNCHANGED <<sessionVars, call>>
       ELSE Send(c, t, "refresh", NoUser, store)
    /\ UNCHANGED <<store, signedIn, isRefreshing>>

\* The effect of ProtectedRoute; one that finds a refreshPromise joins it.
ProtectedRefresh(c, t) ==
    /\ Idle(c)
    /\ store # NoToken /\ ~ ClientValid(store) /\ ~ refreshPromise[t]
    /\ refreshPromise' = [refreshPromise EXCEPT ![t] = TRUE]
    /\ Send(c, t, "refresh", NoUser, store)
    /\ UNCHANGED <<store, signedIn, isRefreshing>>

\* The page of a password reset, which a signed-in user may open too.
ResetPassword(c, t) ==
    /\ Idle(c)
    /\ \E u \in User : Send(c, t, "reset", u, NoToken)
    /\ UNCHANGED <<store, signedIn, isRefreshing, refreshPromise>>

\* clearAuthData, and the event that the tab's components hear.
Clear(t) ==
    /\ store' = NoToken
    /\ signedIn' = [signedIn EXCEPT ![t] = FALSE]

Logout(c, t) ==
    /\ Idle(c) /\ signedIn[t]
    /\ IF ClientValid(store)
       THEN Send(c, t, "logout", NoUser, store) /\ UNCHANGED <<store, signedIn>>
       ELSE Clear(t) /\ UNCHANGED <<sessionVars, call>>
    /\ UNCHANGED <<isRefreshing, refreshPromise>>

\* Fault: useAuth takes the token itself for whether there is one.
MountUnconverted(t) ==
    /\ signedIn' = [signedIn EXCEPT ![t] = store]
    /\ UNCHANGED <<sessionVars, store, isRefreshing, refreshPromise, call>>

\* A page is opened: useAuth looks at the tokens.
Mount(t) ==
    /\ signedIn' = [signedIn EXCEPT ![t] = store # NoToken]
    /\ UNCHANGED <<sessionVars, store, isRefreshing, refreshPromise, call>>

-----------------------------------------------------------------------------
(* The fetch of the tRPC client.                                           *)

\* The call has its answer; the slots it used are free again.
Done(c) ==
    /\ call' = [call EXCEPT ![c] = NoCall]
    /\ req' = [req EXCEPT ![Own(c)] = Free, ![Refresh(c)] = Free]
    /\ UNCHANGED <<refreshToken, now>>

\* The answer of the call's own request, and whether the wrapper takes it.
Answered(c) ==
    call[c].stage \in {"sent", "retried"} /\ req[Own(c)].pc = "answered"

\* Fault: every 401 starts a refresh.
InterceptedAlways(c) ==
    Answered(c) /\ call[c].stage = "sent" /\ req[Own(c)].answer = "unauthorized"

\* Fault: the retry is intercepted like the request it repeats.
InterceptedAgain(c) ==
    /\ Answered(c)
    /\ req[Own(c)].answer = "unauthorized"
    /\ ~ isRefreshing[call[c].tab]

\* A 401 that arrives while the tab refreshes already is left as it is.
Intercepted(c) ==
    /\ Answered(c)
    /\ call[c].stage = "sent"
    /\ req[Own(c)].answer = "unauthorized"
    /\ ~ isRefreshing[call[c].tab]

StartRefresh(c) ==
    /\ Intercepted(c)
    /\ IF store = NoToken
       THEN /\ Clear(call[c].tab)
            /\ Done(c)
            /\ UNCHANGED isRefreshing
       ELSE /\ isRefreshing' = [isRefreshing EXCEPT ![call[c].tab] = TRUE]
            /\ call' = [call EXCEPT ![c].stage = "refreshing"]
            /\ req' = [req EXCEPT ![Refresh(c)] = Arrived("refresh", NoUser, store)]
            /\ UNCHANGED <<refreshToken, now, store, signedIn>>
    /\ UNCHANGED refreshPromise

RefreshAnswered(c) ==
    call[c].stage = "refreshing" /\ req[Refresh(c)].pc = "answered"

Retry(c) ==
    /\ RefreshAnswered(c)
    /\ req[Refresh(c)].answer = "ok"
    /\ store' = req[Refresh(c)].issued
    /\ isRefreshing' = [isRefreshing EXCEPT ![call[c].tab] = FALSE]
    /\ call' = [call EXCEPT ![c].stage = "retried"]
    /\ req' = [req EXCEPT ![Refresh(c)] = Free,
                          ![Own(c)] = Arrived(Asked(call[c].kind), NoUser, store')]
    /\ UNCHANGED <<refreshToken, now, signedIn, refreshPromise>>

\* The refresh was refused or failed: the tokens go, and the call ends with
\* its 401, after which a logout clears once more.
GiveUp(c) ==
    /\ RefreshAnswered(c)
    /\ req[Refresh(c)].answer # "ok"
    /\ Clear(call[c].tab)
    /\ isRefreshing' = [isRefreshing EXCEPT ![call[c].tab] = FALSE]
    /\ Done(c)
    /\ UNCHANGED refreshPromise

-----------------------------------------------------------------------------
(* What the callers do with the final answer.                              *)

Final(c, kind) == Answered(c) /\ ~ Intercepted(c) /\ call[c].kind = kind
Ok(c) == req[Own(c)].answer = "ok"

\* Queries and resets, and whatever failed that only shows an error.
EndQuietly(c) ==
    /\ \/ Final(c, "query") \/ Final(c, "reset")
       \/ ~ Ok(c) /\ (Final(c, "signIn") \/ Final(c, "profile"))
    /\ Done(c)
    /\ UNCHANGED <<store, signedIn, isRefreshing, refreshPromise>>

\* login stores the tokens and then asks for the profile.
EndSignIn(c) ==
    /\ Final(c, "signIn") /\ Ok(c)
    /\ store' = req[Own(c)].issued
    /\ Send(c, call[c].tab, "profile", NoUser, store')
    /\ UNCHANGED <<signedIn, isRefreshing, refreshPromise>>

EndProfile(c) ==
    /\ Final(c, "profile") /\ Ok(c)
    /\ signedIn' = [signedIn EXCEPT ![call[c].tab] = TRUE]
    /\ Done(c)
    /\ UNCHANGED <<store, isRefreshing, refreshPromise>>

EndRefresh(c) ==
    /\ Final(c, "refresh") /\ Ok(c)
    /\ store' = req[Own(c)].issued
    /\ signedIn' = [signedIn EXCEPT ![call[c].tab] = TRUE]
    /\ refreshPromise' = [refreshPromise EXCEPT ![call[c].tab] = FALSE]
    /\ Done(c)
    /\ UNCHANGED isRefreshing

\* performRefresh calls logout, does not wait for it, and throws.
FailRefresh(c) ==
    /\ Final(c, "refresh") /\ ~ Ok(c)
    /\ refreshPromise' = [refreshPromise EXCEPT ![call[c].tab] = FALSE]
    /\ signedIn' = [signedIn EXCEPT ![call[c].tab] = FALSE]
    /\ IF ClientValid(store)
       THEN Send(c, call[c].tab, "logout", NoUser, store) /\ UNCHANGED store
       ELSE Done(c) /\ store' = NoToken
    /\ UNCHANGED isRefreshing

EndLogout(c) ==
    /\ Final(c, "logout")
    /\ Clear(call[c].tab)
    /\ Done(c)
    /\ UNCHANGED <<isRefreshing, refreshPromise>>

Continue(c) ==
    \/ StartRefresh(c) \/ Retry(c) \/ GiveUp(c)
    \/ EndQuietly(c) \/ EndSignIn(c) \/ EndProfile(c)
    \/ EndRefresh(c) \/ FailRefresh(c) \/ EndLogout(c)

-----------------------------------------------------------------------------

Around == (Server \/ Clock) /\ UNCHANGED clientVars

\* A page left open: its queries, nothing else.
OpenPageNext ==
    \/ Around
    \/ \E c \in Call : Continue(c) \/ \E t \in Tab : Query(c, t)

ClientNext ==
    \/ OpenPageNext
    \/ \E c \in Call, t \in Tab :
         \/ SignIn(c, t) \/ ProtectedRefresh(c, t)
         \/ Logout(c, t) \/ ResetPassword(c, t)
    \/ \E t \in Tab : Mount(t)

\* The server answers and the browser takes the answer.
Fairness ==
    /\ \A r \in Req : WF_allVars(Serve(r) /\ UNCHANGED clientVars)
    /\ \A c \in Call : WF_allVars(Continue(c))

OpenPageSpec == ClientInit /\ [][OpenPageNext]_allVars
ClientSpec == ClientInit /\ [][ClientNext]_allVars
FairSpec == ClientSpec /\ Fairness

-----------------------------------------------------------------------------

\* What the handlers rely on: only protected procedures answer 401, and a
\* slot holds the request that its call sent.
KindsAgree ==
    /\ \A r \in Req :
         /\ ~ Protected(r) => req[r].answer # "unauthorized"
         /\ (req[r].kind \in {"signIn", "reset"} \/ req[r].pc = "found")
              => req[r].user \in User
    /\ \A c \in Call :
         IF Idle(c) THEN call[c].kind = "query"
         ELSE /\ req[Own(c)].kind = Asked(call[c].kind)
              /\ call[c].stage = "refreshing" => Protected(Own(c))

\* A refreshPromise or an isRefreshing that outlived its request would keep
\* the tab from refreshing until it is reloaded.  performRefresh resets its
\* promise before it is assigned when it throws at once; only the check for
\* a refresh token in ProtectedRoute keeps it from that.
PromiseAlive ==
    \A t \in Tab :
      /\ refreshPromise[t] =>
           \E c \in Call : call[c].tab = t /\ call[c].kind = "refresh"
      /\ isRefreshing[t] =>
           \E c \in Call : call[c].tab = t /\ call[c].stage = "refreshing"

\* Every call comes to an end, through its refresh, its retry and the logout
\* that a failed refresh starts.
Settles == \A c \in Call : call[c].stage # "free" ~> call[c].stage = "free"

\* While nothing fails, the queries of one open page never sign it out
\* before its refresh token is too old: of several 401s at the same time one
\* refreshes, and the others present no token that it replaced.
SignedOutByAge ==
    [][\A t \in Tab : signedIn[t] /\ ~ signedIn'[t] =>
         store = NoToken \/ ~ Valid(store, RefreshLife)]_allVars

\* One open page has the token the server has, or its answer is coming,
\* even if something fails: whoever loses the answer loses the old token too.
SessionKept ==
    store # NoToken =>
      \/ refreshToken[store.user] = store
      \/ \E c \in Call : /\ call[c].stage = "refreshing"
                         /\ req[Refresh(c)].issued = refreshToken[store.user]

-----------------------------------------------------------------------------

\* docs/api/auth.md:113 says of logout "Logout user and revoke refresh
\* token", and a comment of resetPassword "Update password and invalidate all
\* refresh tokens (force re-login)": when one of them has done its UPDATE,
\* the token that was stored must be gone.
Revoked ==
    [][\A r \in Req :
         (/\ req[r].kind \in {"logout", "reset"}
          /\ req[r].pc = "found"
          /\ req'[r].answer = "ok")
           => refreshToken'[req[r].user] = NoToken]_allVars

=============================================================================
