------------------------------- MODULE Session -------------------------------
(***************************************************************************)
(* The sessions of the back-end: services/auth.service.ts behind the tRPC  *)
(* procedures of auth.router.ts and auth.middleware.ts.                    *)
(*                                                                         *)
(* All the server remembers of a session is users.refresh_token.  Signing  *)
(* in and refreshing read the user, issue a pair of tokens and overwrite   *)
(* the column, with awaits in between; an access token is checked by its   *)
(* signature and age alone.  This module is the server's half; ClientAuth   *)
(* sends the requests.                                                     *)
(*                                                                         *)
(* A pair of tokens is a function of the user and the second it is issued  *)
(* in (utils/jwt.ts signs nothing else), so the pair is one value here and *)
(* the two tokens differ in how long they live.                            *)
(***************************************************************************)
EXTENDS Naturals, FiniteSets

CONSTANTS
    User,
    Req,                        \* slots for requests
    MaxTime,                    \* bound on the clock, in seconds
    AccessLife, RefreshLife,    \* '1h' and '7d'
    Faults,                     \* what may go wrong: "database", "network"
    NoUser, NoToken

ASSUME LifeAssumption ==
    /\ MaxTime \in Nat /\ AccessLife \in Nat /\ RefreshLife \in Nat
    /\ AccessLife < RefreshLife
    /\ Faults \subseteq {"database", "network"}

Token == [user : User, iat : 0 .. MaxTime]

ASSUME SessionNullAssumption == NoUser \notin User /\ NoToken \notin Token

VARIABLES
    refreshToken,   \* users.refresh_token
    req,            \* the requests
    now

sessionVars == <<refreshToken, req, now>>

\* signIn is login or google with the right credentials, query stands for
\* any protected procedure that leaves the session alone.
Kind == {"signIn", "refresh", "logout", "reset", "query"}

\* answered: the response is on its way to the client.
PC == {"free", "arrived", "found", "issued", "answered"}

\* "unauthorized" is a 401.  A CustomError is not a TRPCError: tRPC answers
\* it with 500, like any other failure, whatever status it carries.
Answer == {"none", "ok", "unauthorized", "failed"}

Request == [kind : Kind,
            user : User \cup {NoUser},
            token : Token \cup {NoToken},   \* presented by the client
            pc : PC,
            issued : Token \cup {NoToken},
            answer : Answer]

Free == [kind |-> "query", user |-> NoUser, token |-> NoToken,
         pc |-> "free", issued |-> NoToken, answer |-> "none"]

\* verifyJwtToken: a token is expired from its exp second on.
Valid(t, life) == t # NoToken /\ now < t.iat + life

SessionTypeOK ==
    /\ refreshToken \in [User -> Token \cup {NoToken}]
    /\ req \in [Req -> Request]
    /\ now \in 0 .. MaxTime

-----------------------------------------------------------------------------
(* Requests come and answers go.                                           *)

Arrived(kind, u, t) ==
    [Free EXCEPT !.kind = kind, !.user = u, !.token = t, !.pc = "arrived"]

Respond(r, answer) ==
    req' = [req EXCEPT ![r].pc = "answered", ![r].answer = answer]

Protected(r) == req[r].kind \in {"logout", "query"}

-----------------------------------------------------------------------------
(* The handlers, from one await to the next.                               *)

\* The SELECT of the user: by e-mail or Google id, by the refresh token, by
\* the access token's userId, by the reset token's.
Owner(r) ==
    CASE req[r].kind = "refresh" ->
           {u \in User : /\ Valid(req[r].token, RefreshLife)
                         /\ refreshToken[u] = req[r].token}
      [] Protected(r) ->
           {u \in User : /\ Valid(req[r].token, AccessLife)
                         /\ u = req[r].token.user}
      [] OTHER -> {req[r].user}

FindUser(r) ==
    /\ req[r].pc = "arrived"
    /\ \E u \in Owner(r) :
         IF req[r].kind = "query"
         THEN Respond(r, "ok")
         ELSE req' = [req EXCEPT ![r].pc = "found", ![r].user = u]
    /\ UNCHANGED <<refreshToken, now>>

Refuse(r) ==
    /\ req[r].pc = "arrived"
    /\ Owner(r) = {}
    /\ Respond(r, IF Protected(r) THEN "unauthorized" ELSE "failed")
    /\ UNCHANGED <<refreshToken, now>>

\* generateTokens, after the expiry check.
Issue(r) ==
    /\ req[r].pc = "found"
    /\ req[r].kind \in {"signIn", "refresh"}
    /\ req' = [req EXCEPT ![r].pc = "issued",
                          ![r].issued = [user |-> req[r].user, iat |-> now]]
    /\ UNCHANGED <<refreshToken, now>>

Store(r) ==
    /\ req[r].pc = "issued"
    /\ refreshToken' = [refreshToken EXCEPT ![req[r].user] = req[r].issued]
    /\ Respond(r, "ok")
    /\ UNCHANGED now

\* revokeUserRefreshToken and resetPassword set refreshToken to undefined,
\* which knex leaves out of the UPDATE: the column keeps its value.
Revoke(r) ==
    /\ req[r].pc = "found"
    /\ req[r].kind \in {"logout", "reset"}
    /\ Respond(r, "ok")
    /\ UNCHANGED <<refreshToken, now>>

\* A query rejects.  authMiddleware turns any error into a 401.
QueryFails(r) ==
    /\ "database" \in Faults
    /\ req[r].pc \in {"arrived", "found", "issued"}
    /\ Respond(r, IF req[r].pc = "arrived" /\ Protected(r)
                  THEN "unauthorized" ELSE "failed")
    /\ UNCHANGED <<refreshToken, now>>

\* The response does not reach the client, or the process died before it
\* was sent: of what the handler did, what is committed stays.
Lose(r) ==
    /\ "network" \in Faults
    /\ req[r].pc # "free"
    /\ Respond(r, "failed")
    /\ UNCHANGED <<refreshToken, now>>

Clock ==
    /\ now < MaxTime
    /\ now' = now + 1
    /\ UNCHANGED <<refreshToken, req>>

Serve(r) == FindUser(r) \/ Refuse(r) \/ Issue(r) \/ Store(r) \/ Revoke(r)

Server == \E r \in Req : Serve(r) \/ QueryFails(r) \/ Lose(r)

=============================================================================
