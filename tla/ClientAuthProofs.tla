-------------------------- MODULE ClientAuthProofs --------------------------
(***************************************************************************)
(* Proofs about ClientAuth for every set of users, tabs and calls, every   *)
(* clock bound and token life, and whatever fails.                         *)
(***************************************************************************)
EXTENDS ClientAuth, TLAPS

USE LifeAssumption, SessionNullAssumption, NoTabAssumption

Safe == ClientTypeOK /\ KindsAgree /\ PromiseAlive

LEMMA Slots ==
  ASSUME NEW c \in Call, NEW d \in Call
  PROVE  /\ Own(c) \in Req /\ Refresh(c) \in Req
         /\ Own(c) # Refresh(d)
         /\ Own(c) = Own(d) => c = d
         /\ Refresh(c) = Refresh(d) => c = d
  BY SlotAssumption DEF Own, Refresh

LEMMA NewRequest ==
  ASSUME NEW kind \in Kind, NEW u \in User \cup {NoUser},
         NEW t \in Token \cup {NoToken}
  PROVE  /\ Arrived(kind, u, t) \in Request
         /\ Arrived(kind, u, t).kind = kind
         /\ Arrived(kind, u, t).user = u
         /\ Arrived(kind, u, t).pc = "arrived"
         /\ Arrived(kind, u, t).answer = "none"
  BY DEF Arrived, Free, Request, Kind, PC, Answer

LEMMA FreeRequest ==
  /\ Free \in Request
  /\ Free.kind = "query" /\ Free.pc = "free" /\ Free.answer = "none"
  BY DEF Free, Request, Kind, PC, Answer

LEMMA TypeInit == ClientInit => ClientTypeOK
<1> SUFFICES ASSUME ClientInit PROVE ClientTypeOK
  OBVIOUS
<1>1. store \in Token \cup {NoToken}
  BY DEF ClientInit, Token
<1>2. refreshToken \in [User -> Token \cup {NoToken}]
  BY <1>1 DEF ClientInit
<1>3. NoCall \in CallRecord
  BY DEF NoCall, CallRecord, CallKind, Stage
<1> QED
  BY <1>1, <1>2, <1>3, FreeRequest DEF ClientInit, ClientTypeOK, SessionTypeOK

LEMMA SafeInit == ClientInit => Safe
<1>1. ClientInit => KindsAgree
  BY FreeRequest, Slots
     DEF ClientInit, KindsAgree, Protected, Idle, NoCall
<1>2. ClientInit => PromiseAlive
  BY DEF ClientInit, PromiseAlive
<1> QED BY <1>1, <1>2, TypeInit DEF Safe

-----------------------------------------------------------------------------
(* The server changes one request at a time and never what it asks for.    *)

LEMMA RespondStep ==
  ASSUME ClientTypeOK, KindsAgree, NEW r \in Req, NEW answer \in Answer,
         Respond(r, answer), ~ Protected(r) => answer # "unauthorized"
  PROVE  /\ req' \in [Req -> Request]
         /\ \A q \in Req :
              /\ req'[q].kind = req[q].kind
              /\ ~ Protected(q) => req'[q].answer # "unauthorized"
              /\ (req'[q].kind \in {"signIn", "reset"} \/ req'[q].pc = "found")
                   => req'[q].user \in User
<1> USE DEF ClientTypeOK, SessionTypeOK
<1>0. req[r] \in Request /\ "answered" \in PC
  BY DEF PC
<1>1. [req[r] EXCEPT !.pc = "answered", !.answer = answer] \in Request
  BY <1>0 DEF Request
<1>2. req' = [req EXCEPT ![r] = [req[r] EXCEPT !.pc = "answered", !.answer = answer]]
  BY DEF Respond
<1>3. req' \in [Req -> Request]
  BY <1>1, <1>2
<1>4. /\ req'[r].kind = req[r].kind /\ req'[r].user = req[r].user
      /\ req'[r].pc = "answered" /\ req'[r].answer = answer
  BY <1>0, <1>2 DEF Request
<1>5. \A q \in Req \ {r} : req'[q] = req[q]
  BY <1>2
<1> QED
  BY <1>3, <1>4, <1>5 DEF KindsAgree

LEMMA OwnerIsUser ==
  ASSUME ClientTypeOK, KindsAgree, NEW r \in Req, NEW u \in Owner(r)
  PROVE  u \in User
<1>1. req[r].kind \in Kind
  BY DEF ClientTypeOK, SessionTypeOK, Request
<1>2. CASE req[r].kind = "refresh" \/ Protected(r)
  BY <1>2 DEF Owner, Protected
<1>3. CASE req[r].kind \in {"signIn", "reset"}
  BY <1>3 DEF Owner, Protected, KindsAgree
<1> QED BY <1>1, <1>2, <1>3 DEF Kind, Protected

LEMMA ServerStep ==
  ASSUME ClientTypeOK, KindsAgree, NEW r \in Req,
         Serve(r) \/ QueryFails(r) \/ Lose(r)
  PROVE  /\ SessionTypeOK'
         /\ \A q \in Req :
              /\ req'[q].kind = req[q].kind
              /\ ~ Protected(q) => req'[q].answer # "unauthorized"
              /\ (req'[q].kind \in {"signIn", "reset"} \/ req'[q].pc = "found")
                   => req'[q].user \in User
<1> USE DEF ClientTypeOK, SessionTypeOK
<1>0. req[r] \in Request /\ "found" \in PC /\ "issued" \in PC
  BY DEF PC
<1>a. /\ "ok" \in Answer /\ "unauthorized" \in Answer /\ "failed" \in Answer
  BY DEF Answer
<1>1. CASE FindUser(r)
  <2>1. PICK u \in Owner(r) :
          IF req[r].kind = "query" THEN Respond(r, "ok")
          ELSE req' = [req EXCEPT ![r].pc = "found", ![r].user = u]
    BY <1>1 DEF FindUser
  <2>2. u \in User
    BY OwnerIsUser
  <2>3. CASE req[r].kind = "query"
    BY <1>1, <2>1, <2>3, <1>a, RespondStep DEF FindUser
  <2>4. CASE req[r].kind # "query"
    <3>1. req' = [req EXCEPT ![r] = [req[r] EXCEPT !.pc = "found", !.user = u]]
      BY <2>1, <2>4
    <3>2. [req[r] EXCEPT !.pc = "found", !.user = u] \in Request
      BY <1>0, <2>2 DEF Request
    <3>3. /\ req' \in [Req -> Request]
          /\ \A q \in Req \ {r} : req'[q] = req[q]
          /\ req'[r].kind = req[r].kind /\ req'[r].user = u
          /\ req'[r].answer = req[r].answer
      BY <1>0, <3>1, <3>2 DEF Request
    <3> QED BY <1>1, <2>2, <3>3 DEF FindUser, KindsAgree
  <2> QED BY <2>3, <2>4
<1>2. CASE Refuse(r)
  BY <1>2, <1>a, RespondStep DEF Refuse
<1>3. CASE Issue(r)
  <2> DEFINE pair == [user |-> req[r].user, iat |-> now]
  <2>1. req[r].user \in User
    BY <1>3 DEF Issue, KindsAgree
  <2>2. pair \in Token
    BY <2>1 DEF Token
  <2>3. req' = [req EXCEPT ![r] = [req[r] EXCEPT !.pc = "issued", !.issued = pair]]
    BY <1>3 DEF Issue
  <2>4. [req[r] EXCEPT !.pc = "issued", !.issued = pair] \in Request
    BY <1>0, <2>2 DEF Request
  <2>5. /\ req' \in [Req -> Request]
        /\ \A q \in Req \ {r} : req'[q] = req[q]
        /\ req'[r].kind = req[r].kind /\ req'[r].user = req[r].user
        /\ req'[r].answer = req[r].answer
    BY <1>0, <2>3, <2>4 DEF Request
  <2> QED BY <1>3, <2>1, <2>5 DEF Issue, KindsAgree
<1>4. CASE Store(r)
  <2>1. refreshToken' \in [User -> Token \cup {NoToken}]
    BY <1>4 DEF Store, Request
  <2> QED BY <1>4, <2>1, <1>a, RespondStep DEF Store
<1>5. CASE Revoke(r)
  BY <1>5, <1>a, RespondStep DEF Revoke
<1>6. CASE QueryFails(r)
  BY <1>6, <1>a, RespondStep DEF QueryFails
<1>7. CASE Lose(r)
  BY <1>7, <1>a, RespondStep DEF Lose
<1> QED BY <1>1, <1>2, <1>3, <1>4, <1>5, <1>6, <1>7 DEF Serve

LEMMA AroundStep ==
  ASSUME Safe, Around
  PROVE  Safe'
<1>1. ClientTypeOK /\ KindsAgree /\ PromiseAlive /\ UNCHANGED clientVars
  BY DEF Safe, Around
<1>2. PromiseAlive'
  BY <1>1 DEF PromiseAlive, clientVars
<1>3. CASE Clock
  <2>1. ClientTypeOK'
    BY <1>1, <1>3 DEF Clock, ClientTypeOK, SessionTypeOK, clientVars
  <2>2. KindsAgree'
    BY <1>1, <1>3 DEF Clock, KindsAgree, clientVars, Protected, Idle, Own
  <2> QED BY <1>2, <2>1, <2>2 DEF Safe
<1>4. CASE Server
  <2>1. PICK r \in Req : Serve(r) \/ QueryFails(r) \/ Lose(r)
    BY <1>4 DEF Server
  <2>2. /\ SessionTypeOK'
        /\ \A q \in Req :
             /\ req'[q].kind = req[q].kind
             /\ ~ Protected(q) => req'[q].answer # "unauthorized"
             /\ (req'[q].kind \in {"signIn", "reset"} \/ req'[q].pc = "found")
                  => req'[q].user \in User
    BY <1>1, <2>1, ServerStep
  <2>3. ClientTypeOK'
    BY <1>1, <2>2 DEF ClientTypeOK, clientVars
  <2>4. KindsAgree'
    BY <1>1, <2>2, Slots DEF KindsAgree, clientVars, Protected, Idle, Own
  <2> QED BY <1>2, <2>3, <2>4 DEF Safe
<1> QED BY <1>3, <1>4 DEF Around

-----------------------------------------------------------------------------
(* What the browser does to a call and its slots.                          *)

LEMMA SendStep ==
  ASSUME ClientTypeOK, KindsAgree, NEW c \in Call,
         NEW t \in Tab \cup {NoTab}, NEW kind \in CallKind, NEW u \in User \cup {NoUser}, NEW token \in Token \cup {NoToken},
         kind \in {"signIn", "reset"} => u \in User,
         Send(c, t, kind, u, token)
  PROVE  /\ SessionTypeOK' /\ KindsAgree'
         /\ call' \in [Call -> CallRecord]
         /\ call'[c] = [tab |-> t, kind |-> kind, stage |-> "sent"]
         /\ \A d \in Call \ {c} : call'[d] = call[d]
<1> USE DEF ClientTypeOK, SessionTypeOK
<1> DEFINE new == Arrived(Asked(kind), u, token)
<1>1. /\ Asked(kind) \in Kind
      /\ Asked(kind) \in {"signIn", "reset"} => u \in User
  BY DEF Asked, CallKind, Kind
<1>2. /\ new \in Request /\ new.kind = Asked(kind) /\ new.user = u
      /\ new.pc = "arrived" /\ new.answer = "none"
  BY <1>1, NewRequest
<1>3. Own(c) \in Req /\ req' = [req EXCEPT ![Own(c)] = new]
  BY Slots DEF Send
<1> HIDE DEF new
<1>4. /\ req' \in [Req -> Request]
      /\ req'[Own(c)] = new
      /\ \A q \in Req \ {Own(c)} : req'[q] = req[q]
  BY <1>2, <1>3
<1>5. [tab |-> t, kind |-> kind, stage |-> "sent"] \in CallRecord
  BY DEF CallRecord, Stage
<1>6. /\ call' \in [Call -> CallRecord]
      /\ call'[c] = [tab |-> t, kind |-> kind, stage |-> "sent"]
      /\ \A d \in Call \ {c} : call'[d] = call[d]
  BY <1>5 DEF Send
<1>7. SessionTypeOK'
  BY <1>4 DEF Send
<1>8. \A r \in Req :
        /\ ~ Protected(r)' => req'[r].answer # "unauthorized"
        /\ (req'[r].kind \in {"signIn", "reset"} \/ req'[r].pc = "found")
             => req'[r].user \in User
  BY <1>1, <1>2, <1>4 DEF KindsAgree, Protected
<1>9. ASSUME NEW d \in Call
      PROVE  IF Idle(d)' THEN call'[d].kind = "query"
             ELSE /\ req'[Own(d)].kind = Asked(call'[d].kind)
                  /\ call'[d].stage = "refreshing" => Protected(Own(d))'
  <2>1. CASE d = c
    BY <1>2, <1>4, <1>6, <2>1 DEF Idle
  <2>2. CASE d # c
    <3>1. Own(d) \in Req /\ Own(d) # Own(c)
      BY <2>2, Slots
    <3> QED BY <1>4, <1>6, <2>2, <3>1 DEF KindsAgree, Idle, Protected
  <2> QED BY <2>1, <2>2
<1> QED BY <1>6, <1>7, <1>8, <1>9 DEF KindsAgree, Protected, Idle, Own

LEMMA DoneStep ==
  ASSUME ClientTypeOK, KindsAgree, NEW c \in Call, Done(c)
  PROVE  /\ SessionTypeOK' /\ KindsAgree'
         /\ call' \in [Call -> CallRecord]
         /\ \A d \in Call \ {c} : call'[d] = call[d]
<1> USE DEF ClientTypeOK, SessionTypeOK
<1>1. Own(c) \in Req /\ Refresh(c) \in Req /\ Own(c) # Refresh(c)
  BY Slots
<1>2. /\ req' \in [Req -> Request]
      /\ req'[Own(c)] = Free /\ req'[Refresh(c)] = Free
      /\ \A q \in Req \ {Own(c), Refresh(c)} : req'[q] = req[q]
  BY <1>1, FreeRequest DEF Done
<1>3. NoCall \in CallRecord /\ NoCall.stage = "free" /\ NoCall.kind = "query"
  BY DEF NoCall, CallRecord, CallKind, Stage
<1>4. /\ call' \in [Call -> CallRecord]
      /\ call'[c] = NoCall
      /\ \A d \in Call \ {c} : call'[d] = call[d]
  BY <1>3 DEF Done
<1>5. SessionTypeOK'
  BY <1>2 DEF Done
<1>6. \A r \in Req :
        /\ ~ Protected(r)' => req'[r].answer # "unauthorized"
        /\ (req'[r].kind \in {"signIn", "reset"} \/ req'[r].pc = "found")
             => req'[r].user \in User
  BY <1>2, FreeRequest DEF KindsAgree, Protected
<1>7. ASSUME NEW d \in Call
      PROVE  IF Idle(d)' THEN call'[d].kind = "query"
             ELSE /\ req'[Own(d)].kind = Asked(call'[d].kind)
                  /\ call'[d].stage = "refreshing" => Protected(Own(d))'
  <2>1. CASE d = c
    BY <1>3, <1>4, <2>1 DEF Idle
  <2>2. CASE d # c
    <3>1. Own(d) \in Req /\ Own(d) # Own(c) /\ Own(d) # Refresh(c)
      BY <2>2, Slots
    <3> QED BY <1>2, <1>4, <2>2, <3>1 DEF KindsAgree, Idle, Protected
  <2> QED BY <2>1, <2>2
<1> QED BY <1>4, <1>5, <1>6, <1>7 DEF KindsAgree, Protected, Idle, Own

\* An intercepted call asked a protected procedure.
LEMMA InterceptedProtected ==
  ASSUME ClientTypeOK, KindsAgree, NEW c \in Call, Intercepted(c)
  PROVE  Protected(Own(c)) /\ ~ Idle(c) /\ call[c].kind # "refresh"
<1>1. Own(c) \in Req
  BY Slots
<1>2. Protected(Own(c)) /\ ~ Idle(c)
  BY <1>1 DEF Intercepted, KindsAgree, Idle
<1> QED BY <1>2 DEF KindsAgree, Asked, Protected

\* A flag outlives every step of a call but the one that ends its refresh,
\* and that step resets the flag of its tab.
LEMMA PromiseKept ==
  ASSUME PromiseAlive, NEW c \in Call,
         \A d \in Call \ {c} : call'[d] = call[d],
         \A t \in Tab : refreshPromise'[t] =>
           /\ refreshPromise[t]
           /\ call[c].kind = "refresh" => t # call[c].tab,
         \A t \in Tab : isRefreshing'[t] =>
           /\ isRefreshing[t]
           /\ call[c].stage = "refreshing" => t # call[c].tab
  PROVE  PromiseAlive'
  BY DEF PromiseAlive

LEMMA IdleKind ==
  ASSUME KindsAgree, NEW c \in Call, Idle(c)
  PROVE  call[c].kind # "refresh" /\ call[c].stage # "refreshing"
  BY DEF KindsAgree, Idle

-----------------------------------------------------------------------------
(* What a page starts.                                                     *)

LEMMA BeginStep ==
  ASSUME Safe, NEW c \in Call, NEW t \in Tab,
         \/ Query(c, t) \/ SignIn(c, t) \/ ProtectedRefresh(c, t)
         \/ Logout(c, t) \/ ResetPassword(c, t)
  PROVE  Safe'
<1> USE DEF ClientTypeOK
<1>1. ClientTypeOK /\ KindsAgree /\ PromiseAlive
  BY DEF Safe
<1>2. Idle(c)
  BY DEF Query, SignIn, ProtectedRefresh, Logout, ResetPassword
<1>3. call[c].kind # "refresh" /\ call[c].stage # "refreshing"
  BY <1>1, <1>2, IdleKind
<1>4. /\ "query" \in CallKind /\ "signIn" \in CallKind /\ "refresh" \in CallKind
      /\ "logout" \in CallKind /\ "reset" \in CallKind
  BY DEF CallKind
<1>5. CASE Query(c, t)
  <2>1. Send(c, t, "query", NoUser, store)
    BY <1>5 DEF Query
  <2>2. /\ SessionTypeOK' /\ KindsAgree' /\ call' \in [Call -> CallRecord]
        /\ \A d \in Call \ {c} : call'[d] = call[d]
    BY <1>1, <1>4, <2>1, SendStep
  <2> QED BY <1>1, <1>3, <1>5, <2>2, PromiseKept DEF Query, Safe
<1>6. CASE SignIn(c, t)
  <2>1. PICK u \in User : Send(c, t, "signIn", u, NoToken)
    BY <1>6 DEF SignIn
  <2>2. /\ SessionTypeOK' /\ KindsAgree' /\ call' \in [Call -> CallRecord]
        /\ \A d \in Call \ {c} : call'[d] = call[d]
    BY <1>1, <1>4, <2>1, SendStep
  <2> QED BY <1>1, <1>3, <1>6, <2>2, PromiseKept DEF SignIn, Safe
<1>7. CASE ProtectedRefresh(c, t)
  <2>1. Send(c, t, "refresh", NoUser, store)
    BY <1>7 DEF ProtectedRefresh
  <2>2. /\ SessionTypeOK' /\ KindsAgree' /\ call' \in [Call -> CallRecord]
        /\ call'[c] = [tab |-> t, kind |-> "refresh", stage |-> "sent"]
        /\ \A d \in Call \ {c} : call'[d] = call[d]
    BY <1>1, <1>4, <2>1, SendStep
  <2>3. PromiseAlive'
    <3>1. ASSUME NEW s \in Tab, refreshPromise'[s]
          PROVE  \E d \in Call : call'[d].tab = s /\ call'[d].kind = "refresh"
      <4>1. CASE s = t
        BY <2>2, <4>1
      <4>2. CASE s # t
        BY <1>1, <1>3, <1>7, <2>2, <3>1, <4>2 DEF ProtectedRefresh, PromiseAlive
      <4> QED BY <4>1, <4>2
    <3>2. ASSUME NEW s \in Tab, isRefreshing'[s]
          PROVE  \E d \in Call : call'[d].tab = s /\ call'[d].stage = "refreshing"
      BY <1>1, <1>3, <1>7, <2>2, <3>2 DEF ProtectedRefresh, PromiseAlive
    <3> QED BY <3>1, <3>2 DEF PromiseAlive
  <2> QED BY <1>1, <1>7, <2>2, <2>3 DEF ProtectedRefresh, Safe
<1>8. CASE Logout(c, t)
  <2>1. CASE ClientValid(store)
    <3>1. Send(c, t, "logout", NoUser, store)
      BY <1>8, <2>1 DEF Logout
    <3>2. /\ SessionTypeOK' /\ KindsAgree' /\ call' \in [Call -> CallRecord]
          /\ \A d \in Call \ {c} : call'[d] = call[d]
      BY <1>1, <1>4, <3>1, SendStep
    <3> QED BY <1>1, <1>3, <1>8, <2>1, <3>2, PromiseKept DEF Logout, Safe
  <2>2. CASE ~ ClientValid(store)
    <3>1. UNCHANGED <<sessionVars, call, isRefreshing, refreshPromise>> /\ Clear(t)
      BY <1>8, <2>2 DEF Logout
    <3>2. ClientTypeOK'
      BY <1>1, <3>1 DEF Clear, sessionVars, SessionTypeOK
    <3>3. KindsAgree' /\ PromiseAlive'
      BY <1>1, <3>1 DEF sessionVars, KindsAgree, PromiseAlive, Protected, Idle, Own
    <3> QED BY <3>2, <3>3 DEF Safe
  <2> QED BY <2>1, <2>2
<1>9. CASE ResetPassword(c, t)
  <2>1. PICK u \in User : Send(c, t, "reset", u, NoToken)
    BY <1>9 DEF ResetPassword
  <2>2. /\ SessionTypeOK' /\ KindsAgree' /\ call' \in [Call -> CallRecord]
        /\ \A d \in Call \ {c} : call'[d] = call[d]
    BY <1>1, <1>4, <2>1, SendStep
  <2> QED BY <1>1, <1>3, <1>9, <2>2, PromiseKept DEF ResetPassword, Safe
<1> QED BY <1>5, <1>6, <1>7, <1>8, <1>9

LEMMA MountStep ==
  ASSUME Safe, NEW t \in Tab, Mount(t)
  PROVE  Safe'
<1>1. ClientTypeOK'
  BY DEF Safe, Mount, ClientTypeOK, sessionVars, SessionTypeOK
<1>2. KindsAgree' /\ PromiseAlive'
  BY DEF Safe, Mount, sessionVars, KindsAgree, PromiseAlive, Protected, Idle, Own
<1> QED BY <1>1, <1>2 DEF Safe

-----------------------------------------------------------------------------
(* What an answer causes.                                                  *)

LEMMA StartRefreshStep ==
  ASSUME Safe, NEW c \in Call, StartRefresh(c)
  PROVE  Safe'
<1> USE DEF ClientTypeOK
<1>1. ClientTypeOK /\ KindsAgree /\ PromiseAlive /\ Intercepted(c)
  BY DEF Safe, StartRefresh
<1>2. Protected(Own(c)) /\ ~ Idle(c) /\ call[c].kind # "refresh"
  BY <1>1, InterceptedProtected
<1>3. call[c] \in CallRecord /\ call[c].stage = "sent"
  BY <1>1 DEF Intercepted
<1>4. CASE store = NoToken
  <2>1. /\ Clear(call[c].tab) /\ Done(c)
        /\ UNCHANGED <<isRefreshing, refreshPromise>>
    BY <1>4 DEF StartRefresh
  <2>2. /\ SessionTypeOK' /\ KindsAgree' /\ call' \in [Call -> CallRecord]
        /\ \A d \in Call \ {c} : call'[d] = call[d]
    BY <1>1, <2>1, DoneStep
  <2>3. PromiseAlive'
    BY <1>1, <1>2, <1>3, <2>1, <2>2, PromiseKept
  <2> QED BY <1>1, <2>1, <2>2, <2>3 DEF Clear, Safe
<1>5. CASE store # NoToken
  <2> DEFINE new == Arrived("refresh", NoUser, store)
  <2>1. /\ isRefreshing' = [isRefreshing EXCEPT ![call[c].tab] = TRUE]
        /\ call' = [call EXCEPT ![c] = [call[c] EXCEPT !.stage = "refreshing"]]
        /\ req' = [req EXCEPT ![Refresh(c)] = new]
        /\ UNCHANGED <<refreshToken, now, store, signedIn, refreshPromise>>
    BY <1>5 DEF StartRefresh
  <2>2. /\ new \in Request /\ new.kind = "refresh"
        /\ new.pc = "arrived" /\ new.answer = "none"
    BY <1>1, NewRequest DEF Kind
  <2> HIDE DEF new
  <2>3. /\ req' \in [Req -> Request] /\ req'[Refresh(c)] = new
        /\ \A q \in Req \ {Refresh(c)} : req'[q] = req[q]
    BY <1>1, <2>1, <2>2, Slots DEF SessionTypeOK
  <2>4. [call[c] EXCEPT !.stage = "refreshing"] \in CallRecord
    BY <1>3 DEF CallRecord, Stage
  <2>5. /\ call' \in [Call -> CallRecord]
        /\ call'[c].tab = call[c].tab /\ call'[c].kind = call[c].kind
        /\ call'[c].stage = "refreshing"
        /\ \A d \in Call \ {c} : call'[d] = call[d]
    BY <1>1, <1>3, <2>1, <2>4 DEF CallRecord
  <2>6. ClientTypeOK'
    BY <1>1, <2>1, <2>3, <2>5 DEF SessionTypeOK
  <2>7. \A r \in Req :
          /\ ~ Protected(r)' => req'[r].answer # "unauthorized"
          /\ (req'[r].kind \in {"signIn", "reset"} \/ req'[r].pc = "found")
               => req'[r].user \in User
    BY <1>1, <2>2, <2>3 DEF KindsAgree, Protected
  <2>8. ASSUME NEW d \in Call
        PROVE  IF Idle(d)' THEN call'[d].kind = "query"
               ELSE /\ req'[Own(d)].kind = Asked(call'[d].kind)
                    /\ call'[d].stage = "refreshing" => Protected(Own(d))'
    <3>1. Own(d) \in Req /\ req'[Own(d)] = req[Own(d)]
      BY <2>3, Slots
    <3>2. CASE d = c
      BY <1>1, <1>2, <2>5, <3>1, <3>2 DEF KindsAgree, Idle, Protected
    <3>3. CASE d # c
      BY <1>1, <2>5, <3>1, <3>3 DEF KindsAgree, Idle, Protected
    <3> QED BY <3>2, <3>3
  <2>9. PromiseAlive'
    <3>1. ASSUME NEW t \in Tab, refreshPromise'[t]
          PROVE  \E d \in Call : call'[d].tab = t /\ call'[d].kind = "refresh"
      BY <1>1, <2>1, <2>5, <3>1 DEF PromiseAlive
    <3>2. ASSUME NEW t \in Tab, isRefreshing'[t]
          PROVE  \E d \in Call : call'[d].tab = t /\ call'[d].stage = "refreshing"
      <4>1. CASE t = call[c].tab
        BY <2>5, <4>1
      <4>2. CASE t # call[c].tab
        BY <1>1, <1>3, <2>1, <2>5, <3>2, <4>2 DEF PromiseAlive
      <4> QED BY <4>1, <4>2
    <3> QED BY <3>1, <3>2 DEF PromiseAlive
  <2>10. KindsAgree'
    BY <2>7, <2>8 DEF KindsAgree, Protected, Idle, Own
  <2> QED BY <2>6, <2>9, <2>10 DEF Safe
<1> QED BY <1>4, <1>5

LEMMA RetryStep ==
  ASSUME Safe, NEW c \in Call, Retry(c)
  PROVE  Safe'
<1> USE DEF ClientTypeOK
<1> DEFINE new == Arrived(Asked(call[c].kind), NoUser, store')
<1>1. /\ ClientTypeOK /\ KindsAgree /\ PromiseAlive
      /\ call[c].stage = "refreshing" /\ call[c] \in CallRecord
  BY DEF Safe, Retry, RefreshAnswered
<1>2. Own(c) \in Req /\ Refresh(c) \in Req /\ Own(c) # Refresh(c)
  BY Slots
<1>3. /\ Protected(Own(c)) /\ req[Own(c)].kind = Asked(call[c].kind)
      /\ Asked(call[c].kind) \in {"logout", "query"} /\ call[c].kind # "refresh"
  BY <1>1 DEF KindsAgree, Idle, Protected, Asked
<1>4. store' \in Token \cup {NoToken}
  BY <1>1, <1>2 DEF Retry, SessionTypeOK, Request
<1>5. /\ new \in Request /\ new.kind = Asked(call[c].kind)
      /\ new.pc = "arrived" /\ new.answer = "none"
  BY <1>3, <1>4, NewRequest DEF Kind
<1>6. req' = [req EXCEPT ![Refresh(c)] = Free, ![Own(c)] = new]
  BY DEF Retry
<1> HIDE DEF new
<1>7. /\ req' \in [Req -> Request] /\ req'[Refresh(c)] = Free /\ req'[Own(c)] = new
      /\ \A q \in Req \ {Refresh(c), Own(c)} : req'[q] = req[q]
  BY <1>1, <1>2, <1>5, <1>6, FreeRequest DEF SessionTypeOK
<1>8. [call[c] EXCEPT !.stage = "retried"] \in CallRecord
  BY <1>1 DEF CallRecord, Stage
<1>9. /\ call' \in [Call -> CallRecord]
      /\ call'[c].kind = call[c].kind /\ call'[c].stage = "retried"
      /\ \A d \in Call \ {c} : call'[d] = call[d]
  BY <1>1, <1>8 DEF Retry, CallRecord
<1>10. ClientTypeOK'
  BY <1>1, <1>4, <1>7, <1>9 DEF Retry, SessionTypeOK
<1>11. \A r \in Req :
         /\ ~ Protected(r)' => req'[r].answer # "unauthorized"
         /\ (req'[r].kind \in {"signIn", "reset"} \/ req'[r].pc = "found")
              => req'[r].user \in User
  BY <1>1, <1>3, <1>5, <1>7, FreeRequest DEF KindsAgree, Protected
<1>12. ASSUME NEW d \in Call
       PROVE  IF Idle(d)' THEN call'[d].kind = "query"
              ELSE /\ req'[Own(d)].kind = Asked(call'[d].kind)
                   /\ call'[d].stage = "refreshing" => Protected(Own(d))'
  <2>1. CASE d = c
    BY <1>5, <1>7, <1>9, <2>1 DEF Idle
  <2>2. CASE d # c
    <3>1. Own(d) \in Req /\ req'[Own(d)] = req[Own(d)]
      BY <1>7, <2>2, Slots
    <3> QED BY <1>1, <1>9, <2>2, <3>1 DEF KindsAgree, Idle, Protected
  <2> QED BY <2>1, <2>2
<1>13. PromiseAlive'
  <2>1. \A t \in Tab : isRefreshing'[t] => isRefreshing[t] /\ t # call[c].tab
    BY <1>1 DEF Retry
  <2> QED BY <1>1, <1>3, <1>9, <2>1, PromiseKept DEF Retry
<1> QED BY <1>10, <1>11, <1>12, <1>13 DEF Safe, KindsAgree, Protected, Idle, Own

\* The steps that end a call, or turn it into the next request of its page.
LEMMA EndStep ==
  ASSUME Safe, NEW c \in Call,
         \/ GiveUp(c) \/ EndQuietly(c) \/ EndSignIn(c) \/ EndProfile(c)
         \/ EndRefresh(c) \/ FailRefresh(c) \/ EndLogout(c)
  PROVE  Safe'
<1> USE DEF ClientTypeOK
<1>1. ClientTypeOK /\ KindsAgree /\ PromiseAlive /\ call[c] \in CallRecord
  BY DEF Safe
<1>2. \A kind \in CallKind : Final(c, kind) =>
        call[c].kind = kind /\ call[c].stage \in {"sent", "retried"}
  BY DEF Final, Answered
<1>3. call[c].tab \in Tab \cup {NoTab} /\ Own(c) \in Req /\ Refresh(c) \in Req
  BY <1>1, Slots DEF CallRecord
<1>4. req[Own(c)].issued \in Token \cup {NoToken}
  BY <1>1, <1>3 DEF SessionTypeOK, Request
<1>5. Done(c) => /\ SessionTypeOK' /\ KindsAgree' /\ call' \in [Call -> CallRecord]
                 /\ \A d \in Call \ {c} : call'[d] = call[d]
  BY <1>1, DoneStep
<1>6. CASE GiveUp(c)
  <2>1. call[c].stage = "refreshing" /\ call[c].kind # "refresh"
    BY <1>1, <1>6 DEF GiveUp, RefreshAnswered, KindsAgree, Idle, Protected, Asked
  <2>2. \A t \in Tab : isRefreshing'[t] => isRefreshing[t] /\ t # call[c].tab
    BY <1>1, <1>6 DEF GiveUp
  <2>3. PromiseAlive'
    BY <1>1, <1>5, <1>6, <2>1, <2>2, PromiseKept DEF GiveUp
  <2> QED BY <1>1, <1>5, <1>6, <2>3 DEF GiveUp, Clear, Safe
<1>7. CASE EndQuietly(c)
  <2>1. call[c].kind # "refresh" /\ call[c].stage # "refreshing"
    BY <1>7 DEF EndQuietly, Final, Answered
  <2>2. PromiseAlive'
    BY <1>1, <1>5, <1>7, <2>1, PromiseKept DEF EndQuietly
  <2> QED BY <1>1, <1>5, <1>7, <2>2 DEF EndQuietly, Safe
<1>8. CASE EndSignIn(c)
  <2>1. call[c].kind # "refresh" /\ call[c].stage # "refreshing"
    BY <1>8 DEF EndSignIn, Final, Answered
  <2>2. /\ store' \in Token \cup {NoToken} /\ "profile" \in CallKind
        /\ Send(c, call[c].tab, "profile", NoUser, store')
    BY <1>4, <1>8 DEF EndSignIn, CallKind
  <2>3. /\ SessionTypeOK' /\ KindsAgree' /\ call' \in [Call -> CallRecord]
        /\ \A d \in Call \ {c} : call'[d] = call[d]
    BY <1>1, <1>3, <2>2, SendStep
  <2>4. PromiseAlive'
    BY <1>1, <1>8, <2>1, <2>3, PromiseKept DEF EndSignIn
  <2> QED BY <1>1, <1>8, <2>2, <2>3, <2>4 DEF EndSignIn, Safe
<1>9. CASE EndProfile(c)
  <2>1. call[c].kind # "refresh" /\ call[c].stage # "refreshing"
    BY <1>9 DEF EndProfile, Final, Answered
  <2>2. PromiseAlive'
    BY <1>1, <1>5, <1>9, <2>1, PromiseKept DEF EndProfile
  <2> QED BY <1>1, <1>5, <1>9, <2>2 DEF EndProfile, Safe
<1>10. CASE EndRefresh(c)
  <2>1. call[c].stage # "refreshing"
    BY <1>10 DEF EndRefresh, Final, Answered
  <2>2. \A t \in Tab : refreshPromise'[t] => refreshPromise[t] /\ t # call[c].tab
    BY <1>1, <1>10 DEF EndRefresh
  <2>3. PromiseAlive'
    BY <1>1, <1>5, <1>10, <2>1, <2>2, PromiseKept DEF EndRefresh
  <2> QED BY <1>1, <1>4, <1>5, <1>10, <2>3 DEF EndRefresh, Safe
<1>11. CASE FailRefresh(c)
  <2>1. call[c].stage # "refreshing"
    BY <1>11 DEF FailRefresh, Final, Answered
  <2>2. \A t \in Tab : refreshPromise'[t] => refreshPromise[t] /\ t # call[c].tab
    BY <1>1, <1>11 DEF FailRefresh
  <2>3. /\ SessionTypeOK' /\ KindsAgree' /\ call' \in [Call -> CallRecord]
        /\ \A d \in Call \ {c} : call'[d] = call[d]
        /\ store' \in Token \cup {NoToken}
    <3>1. CASE ClientValid(store)
      <4>1. /\ Send(c, call[c].tab, "logout", NoUser, store) /\ store' = store
            /\ "logout" \in CallKind
        BY <1>11, <3>1 DEF FailRefresh, CallKind
      <4> QED BY <1>1, <1>3, <4>1, SendStep
    <3>2. CASE ~ ClientValid(store)
      BY <1>5, <1>11, <3>2 DEF FailRefresh
    <3> QED BY <3>1, <3>2
  <2>4. PromiseAlive'
    BY <1>1, <1>11, <2>1, <2>2, <2>3, PromiseKept DEF FailRefresh
  <2> QED BY <1>1, <1>11, <2>3, <2>4 DEF FailRefresh, Safe
<1>12. CASE EndLogout(c)
  <2>1. call[c].kind # "refresh" /\ call[c].stage # "refreshing"
    BY <1>12 DEF EndLogout, Final, Answered
  <2>2. PromiseAlive'
    BY <1>1, <1>5, <1>12, <2>1, PromiseKept DEF EndLogout
  <2> QED BY <1>1, <1>5, <1>12, <2>2 DEF EndLogout, Clear, Safe
<1> QED BY <1>6, <1>7, <1>8, <1>9, <1>10, <1>11, <1>12

-----------------------------------------------------------------------------

LEMMA SafeStep == Safe /\ [ClientNext]_allVars => Safe'
<1> SUFFICES ASSUME Safe, [ClientNext]_allVars PROVE Safe'
  OBVIOUS
<1>1. CASE UNCHANGED allVars
  BY <1>1 DEF allVars, sessionVars, clientVars, Safe, ClientTypeOK,
              SessionTypeOK, KindsAgree, PromiseAlive, Protected, Idle, Own
<1>2. CASE Around
  BY <1>2, AroundStep
<1>3. ASSUME NEW c \in Call, Continue(c)
      PROVE  Safe'
  BY <1>3, StartRefreshStep, RetryStep, EndStep DEF Continue
<1>4. ASSUME NEW c \in Call, NEW t \in Tab,
             \/ Query(c, t) \/ SignIn(c, t) \/ ProtectedRefresh(c, t)
             \/ Logout(c, t) \/ ResetPassword(c, t)
      PROVE  Safe'
  BY <1>4, BeginStep
<1>5. ASSUME NEW t \in Tab, Mount(t)
      PROVE  Safe'
  BY <1>5, MountStep
<1> QED BY <1>1, <1>2, <1>3, <1>4, <1>5 DEF ClientNext, OpenPageNext

\* The variables keep their types: one request per slot, one pair of tokens
\* in the store, whatever tabs do and whatever fails.
THEOREM ClientTypeCorrect == ClientSpec => []ClientTypeOK
<1>1. Safe => ClientTypeOK
  BY DEF Safe
<1> QED BY <1>1, SafeInit, SafeStep, PTL DEF ClientSpec

\* No flag outlives its refresh, with any number of tabs and of calls at the
\* same time: a tab is never kept from refreshing by a refresh that ended.
THEOREM PromisesAlive == ClientSpec => []PromiseAlive
<1>1. Safe => PromiseAlive
  BY DEF Safe
<1> QED BY <1>1, SafeInit, SafeStep, PTL DEF ClientSpec

-----------------------------------------------------------------------------
(* The queries of one open page.                                           *)

OneTab == \A s, t \in Tab : s = t

Refreshing(c) == call[c].stage = "refreshing"

\* A slot of a query is answered by the SELECT of its user; the other one is
\* used by a refresh only.
QueryOnly(c) ==
    /\ call[c].kind = "query"
    /\ ~ Idle(c) => call[c].tab \in Tab
    /\ req[Own(c)].kind = "query"
    /\ req[Own(c)].pc \in {"free", "arrived", "answered"}
    /\ ~ Refreshing(c) => req[Refresh(c)].pc = "free"

QueriesOnly == \A c \in Call : QueryOnly(c)

\* isRefreshing is a lock.
OneRefresh ==
    \A c, d \in Call :
      Refreshing(c) => /\ isRefreshing[call[c].tab]
                       /\ Refreshing(d) => c = d

\* The server has the token it gave to the user.
TokensOwn ==
    \A u \in User : refreshToken[u] # NoToken => refreshToken[u].user = u

\* How far the refresh of c is.  It presents the token of the store, and only
\* this refresh replaces the server's copy.
Exchange(c) ==
    /\ store # NoToken
    /\ req[Refresh(c)].kind = "refresh"
    /\ req[Refresh(c)].token = store
    /\ \/ /\ req[Refresh(c)].pc = "arrived"
          /\ refreshToken[store.user] = store
       \/ /\ req[Refresh(c)].pc = "found"
          /\ req[Refresh(c)].user = store.user
          /\ refreshToken[store.user] = store
       \/ /\ req[Refresh(c)].pc = "issued"
          /\ req[Refresh(c)].user = store.user
          /\ req[Refresh(c)].issued # NoToken
          /\ req[Refresh(c)].issued.user = store.user
          /\ refreshToken[store.user] = store
       \/ /\ req[Refresh(c)].pc = "answered"
          /\ req[Refresh(c)].answer = "ok"
          /\ req[Refresh(c)].issued # NoToken
          /\ req[Refresh(c)].issued.user = store.user
          /\ refreshToken[store.user] = req[Refresh(c)].issued
       \/ /\ req[Refresh(c)].pc = "answered"
          /\ req[Refresh(c)].answer # "ok"
          /\ Faults = {} => ~ Valid(store, RefreshLife)
          /\ refreshToken[store.user] \in {store, req[Refresh(c)].issued}

\* At rest both sides have the same token.
AtRest ==
    (\A c \in Call : ~ Refreshing(c)) /\ store # NoToken
      => refreshToken[store.user] = store

Kept ==
    /\ QueriesOnly
    /\ OneRefresh
    /\ TokensOwn
    /\ \A c \in Call : Refreshing(c) => Exchange(c)
    /\ AtRest

-----------------------------------------------------------------------------

LEMMA KeptInit == ClientInit => Kept
<1> SUFFICES ASSUME ClientInit PROVE Kept
  OBVIOUS
<1>1. \A c \in Call : call[c] = NoCall /\ ~ Refreshing(c) /\ Idle(c)
  BY DEF ClientInit, Refreshing, Idle, NoCall
<1>2. QueriesOnly
  BY <1>1, FreeRequest, Slots DEF ClientInit, QueriesOnly, QueryOnly, NoCall
<1>3. TokensOwn
  BY DEF ClientInit, TokensOwn
<1>4. AtRest
  BY DEF ClientInit, AtRest, Token
<1> QED BY <1>1, <1>2, <1>3, <1>4 DEF Kept, OneRefresh

\* Every slot is the one or the other of a call.
LEMMA WhoseSlot ==
  ASSUME NEW r \in Req
  PROVE  \E c \in Call : r = Own(c) \/ r = Refresh(c)
  BY SlotAssumption DEF Own, Refresh

LEMMA Responded ==
  ASSUME ClientTypeOK, NEW r \in Req, NEW answer \in Answer, Respond(r, answer)
  PROVE  /\ req'[r].pc = "answered" /\ req'[r].answer = answer
         /\ req'[r].kind = req[r].kind /\ req'[r].user = req[r].user
         /\ req'[r].token = req[r].token /\ req'[r].issued = req[r].issued
         /\ \A q \in Req \ {r} : req'[q] = req[q]
<1>1. req[r] \in Request /\ req \in [Req -> Request]
  BY DEF ClientTypeOK, SessionTypeOK
<1>2. req' = [req EXCEPT ![r] = [req[r] EXCEPT !.pc = "answered", !.answer = answer]]
  BY DEF Respond
<1> QED BY <1>1, <1>2 DEF Request

\* A query is answered and nothing else happens.
LEMMA QueryAnswered ==
  ASSUME Safe, Kept, NEW c \in Call, NEW answer \in Answer,
         Respond(Own(c), answer), UNCHANGED <<refreshToken, clientVars>>,
         now' = now
  PROVE  Kept'
<1>1. /\ ClientTypeOK /\ Own(c) \in Req
      /\ QueriesOnly /\ OneRefresh /\ TokensOwn /\ AtRest
  BY Slots DEF Safe, Kept
<1>2. /\ req'[Own(c)].pc = "answered" /\ req'[Own(c)].kind = req[Own(c)].kind
      /\ \A q \in Req \ {Own(c)} : req'[q] = req[q]
  BY <1>1, Responded
<1>3. \A d \in Call : req'[Refresh(d)] = req[Refresh(d)]
  BY <1>2, Slots
<1>4. UNCHANGED <<store, call, isRefreshing, refreshToken, now>>
  BY DEF clientVars
<1>5. \A d \in Call : req'[Own(d)].kind = "query"
                      /\ req'[Own(d)].pc \in {"free", "arrived", "answered"}
  <2> SUFFICES ASSUME NEW d \in Call
               PROVE  req'[Own(d)].kind = "query"
                      /\ req'[Own(d)].pc \in {"free", "arrived", "answered"}
    OBVIOUS
  <2>1. /\ req[Own(d)].kind = "query"
        /\ req[Own(d)].pc \in {"free", "arrived", "answered"}
    BY <1>1 DEF QueriesOnly, QueryOnly
  <2>2. CASE Own(d) = Own(c)
    BY <1>2, <2>1, <2>2
  <2>3. CASE Own(d) # Own(c)
    BY <1>2, <2>1, <2>3, Slots
  <2> QED BY <2>2, <2>3
<1>6. QueriesOnly'
  <2> SUFFICES ASSUME NEW d \in Call PROVE QueryOnly(d)'
    BY DEF QueriesOnly
  <2>1. QueryOnly(d) /\ (Refreshing(d)' <=> Refreshing(d)) /\ (Idle(d)' <=> Idle(d))
    BY <1>1, <1>4 DEF QueriesOnly, Refreshing, Idle
  <2> QED BY <1>3, <1>4, <1>5, <2>1 DEF QueryOnly, Own, Refresh
<1>7. OneRefresh' /\ TokensOwn' /\ AtRest'
  BY <1>1, <1>4 DEF OneRefresh, TokensOwn, AtRest, Refreshing
<1>8. ASSUME NEW d \in Call, Refreshing(d)'
      PROVE  Exchange(d)'
  <2>1. Exchange(d)
    BY <1>4, <1>8 DEF Kept, Refreshing
  <2> QED BY <1>3, <1>4, <2>1 DEF Exchange, Valid, Refresh
<1> QED BY <1>6, <1>7, <1>8 DEF Kept

\* The refresh under way gets on, at the server.
LEMMA ExchangeMoves ==
  ASSUME Safe, Kept, NEW c \in Call, Refreshing(c),
         UNCHANGED clientVars,
         \A q \in Req \ {Refresh(c)} : req'[q] = req[q],
         TokensOwn', Exchange(c)'
  PROVE  Kept'
<1>1. /\ ClientTypeOK /\ QueriesOnly /\ OneRefresh
  BY DEF Safe, Kept
<1>2. UNCHANGED <<store, call, isRefreshing>>
  BY DEF clientVars
<1>3. ASSUME NEW d \in Call
      PROVE  /\ Own(d) \in Req /\ req'[Own(d)] = req[Own(d)]
             /\ d # c => req'[Refresh(d)] = req[Refresh(d)]
  <2>1. /\ Own(d) \in Req \ {Refresh(c)}
        /\ d # c => Refresh(d) \in Req \ {Refresh(c)}
    BY Slots
  <2> QED BY <2>1
<1>4. QueriesOnly'
  <2> SUFFICES ASSUME NEW d \in Call PROVE QueryOnly(d)'
    BY DEF QueriesOnly
  <2>1. QueryOnly(d) /\ (Refreshing(d)' <=> Refreshing(d)) /\ (Idle(d)' <=> Idle(d))
    BY <1>1, <1>2 DEF QueriesOnly, Refreshing, Idle
  <2>2. /\ req'[Own(d)] = req[Own(d)]
        /\ ~ Refreshing(d) => req'[Refresh(d)] = req[Refresh(d)]
    BY <1>3
  <2> QED BY <1>2, <2>1, <2>2 DEF QueryOnly, Own, Refresh
<1>5. OneRefresh'
  BY <1>1, <1>2 DEF OneRefresh, Refreshing
<1>6. AtRest'
  BY <1>2 DEF AtRest, Refreshing
<1>7. \A d \in Call : Refreshing(d)' => Exchange(d)'
  BY <1>1, <1>2 DEF OneRefresh, Refreshing
<1> QED BY <1>4, <1>5, <1>6, <1>7 DEF Kept

LEMMA ServerKept ==
  ASSUME Safe, Kept, Server, UNCHANGED clientVars
  PROVE  Kept'
<1>1. PICK r \in Req : Serve(r) \/ QueryFails(r) \/ Lose(r)
  BY DEF Server
<1>2. PICK c \in Call : r = Own(c) \/ r = Refresh(c)
  BY WhoseSlot
<1>3. /\ ClientTypeOK /\ KindsAgree /\ QueriesOnly /\ OneRefresh /\ TokensOwn
  BY DEF Safe, Kept
<1>4. UNCHANGED <<store, call, isRefreshing>>
  BY DEF clientVars
<1>a. "ok" \in Answer /\ "unauthorized" \in Answer /\ "failed" \in Answer
  BY DEF Answer
<1>5. CASE r = Own(c)
  <2>1. req[r].kind = "query" /\ req[r].pc \in {"free", "arrived", "answered"}
    BY <1>3, <1>5 DEF QueriesOnly, QueryOnly
  <2>2. CASE FindUser(r)
    BY <1>5, <1>a, <2>1, <2>2, QueryAnswered DEF FindUser
  <2>3. CASE Refuse(r)
    BY <1>5, <1>a, <2>1, <2>3, QueryAnswered DEF Refuse, Protected
  <2>4. CASE QueryFails(r)
    BY <1>5, <1>a, <2>1, <2>4, QueryAnswered DEF QueryFails
  <2>5. CASE Lose(r)
    BY <1>5, <1>a, <2>1, <2>5, QueryAnswered DEF Lose
  <2> QED BY <1>1, <2>1, <2>2, <2>3, <2>4, <2>5 DEF Serve, Issue, Store, Revoke
<1>6. CASE r = Refresh(c)
  <2>1. req[r].pc # "free"
    BY <1>1, <1>3 DEF Serve, FindUser, Refuse, Issue, Store, Revoke, QueryFails, Lose
  <2>2. Refreshing(c)
    BY <1>3, <1>6, <2>1 DEF QueriesOnly, QueryOnly
  <2>3. Exchange(c) /\ req[r].kind = "refresh" /\ req[r].token = store
        /\ store \in Token
    BY <1>3, <1>6, <2>2 DEF Kept, Exchange, ClientTypeOK
  <2>4. store.user \in User /\ store # NoToken
    BY <2>3 DEF Token, Exchange
  <2>5. /\ req \in [Req -> Request] /\ req[r] \in Request
        /\ refreshToken \in [User -> Token \cup {NoToken}]
    BY <1>3 DEF ClientTypeOK, SessionTypeOK
  <2>0. Owner(r) = {u \in User : Valid(store, RefreshLife) /\ refreshToken[u] = store}
    BY <2>3 DEF Owner, Protected
  <2>6. (\A q \in Req \ {r} : req'[q] = req[q]) /\ TokensOwn' /\ Exchange(c)' => Kept'
    BY <1>6, <2>2, ExchangeMoves
  <2>7. CASE FindUser(r)
    <3>1. PICK u \in Owner(r) :
            req' = [req EXCEPT ![r].pc = "found", ![r].user = u]
      BY <2>3, <2>7 DEF FindUser
    <3>2. u \in User /\ refreshToken[u] = store
      BY <2>0, <3>1
    <3>3. u = store.user
      BY <1>3, <2>4, <3>2 DEF TokensOwn
    <3>4. req' = [req EXCEPT ![r] = [req[r] EXCEPT !.pc = "found", !.user = u]]
      BY <3>1
    <3>5. /\ req'[r].pc = "found" /\ req'[r].user = u
          /\ req'[r].kind = "refresh" /\ req'[r].token = store
          /\ \A q \in Req \ {r} : req'[q] = req[q]
      BY <2>3, <2>5, <3>4 DEF Request
    <3>6. UNCHANGED <<refreshToken, now>>
      BY <2>7 DEF FindUser
    <3>7. TokensOwn' /\ Exchange(c)'
      BY <1>3, <1>4, <1>6, <2>4, <3>2, <3>3, <3>5, <3>6 DEF TokensOwn, Exchange, Refresh
    <3> QED BY <2>6, <3>5, <3>7
  <2>8. CASE Refuse(r)
    <3>1. Respond(r, "failed") /\ UNCHANGED <<refreshToken, now>>
      BY <2>3, <2>8 DEF Refuse, Protected
    <3>2. refreshToken[store.user] = store
      BY <1>6, <2>3, <2>8 DEF Exchange, Refuse
    <3>3. ~ Valid(store, RefreshLife)
      BY <2>0, <2>4, <2>8, <3>2 DEF Refuse
    <3>4. /\ req'[r].pc = "answered" /\ req'[r].answer = "failed"
          /\ req'[r].kind = "refresh" /\ req'[r].token = store
          /\ \A q \in Req \ {r} : req'[q] = req[q]
      BY <1>3, <1>a, <2>3, <3>1, Responded
    <3>5. TokensOwn' /\ Exchange(c)'
      BY <1>3, <1>4, <1>6, <2>4, <3>1, <3>2, <3>3, <3>4
         DEF TokensOwn, Exchange, Refresh, Valid
    <3> QED BY <2>6, <3>4, <3>5
  <2>9. CASE Issue(r)
    <3> DEFINE pair == [user |-> req[r].user, iat |-> now]
    <3>1. req[r].user = store.user /\ refreshToken[store.user] = store
      BY <1>6, <2>3, <2>9 DEF Exchange, Issue
    <3>2. /\ pair \in Token /\ pair.user = store.user
      BY <1>3, <2>4, <3>1 DEF Token, ClientTypeOK, SessionTypeOK
    <3>3. pair # NoToken
      BY <3>2
    <3>4. req' = [req EXCEPT ![r] = [req[r] EXCEPT !.pc = "issued", !.issued = pair]]
      BY <2>9 DEF Issue
    <3> HIDE DEF pair
    <3>5. /\ req'[r].pc = "issued" /\ req'[r].issued = pair
          /\ req'[r].kind = "refresh" /\ req'[r].token = store
          /\ req'[r].user = req[r].user
          /\ \A q \in Req \ {r} : req'[q] = req[q]
      BY <2>3, <2>5, <3>4 DEF Request
    <3>6. UNCHANGED <<refreshToken, now>>
      BY <2>9 DEF Issue
    <3>7. TokensOwn' /\ Exchange(c)'
      BY <1>3, <1>4, <1>6, <2>4, <3>1, <3>2, <3>3, <3>5, <3>6
         DEF TokensOwn, Exchange, Refresh
    <3> QED BY <2>6, <3>5, <3>7
  <2>10. CASE Store(r)
    <3>1. /\ req[r].user = store.user /\ req[r].issued # NoToken
          /\ req[r].issued.user = store.user
      BY <1>6, <2>3, <2>10 DEF Exchange, Store
    <3>2. /\ refreshToken' = [refreshToken EXCEPT ![store.user] = req[r].issued]
          /\ Respond(r, "ok") /\ now' = now
      BY <2>10, <3>1 DEF Store
    <3>3. /\ req'[r].pc = "answered" /\ req'[r].answer = "ok"
          /\ req'[r].kind = "refresh" /\ req'[r].token = store
          /\ req'[r].issued = req[r].issued
          /\ \A q \in Req \ {r} : req'[q] = req[q]
      BY <1>3, <1>a, <2>3, <3>2, Responded
    <3>4. refreshToken'[store.user] = req[r].issued
      BY <2>4, <2>5, <3>2
    <3>5. TokensOwn'
      BY <1>3, <2>5, <3>1, <3>2 DEF TokensOwn
    <3>6. Exchange(c)'
      BY <1>4, <1>6, <2>4, <3>1, <3>3, <3>4 DEF Exchange, Refresh
    <3> QED BY <2>6, <3>3, <3>5, <3>6
  <2>11. CASE QueryFails(r) \/ Lose(r)
    <3>1. /\ Respond(r, "failed") /\ UNCHANGED <<refreshToken, now>>
          /\ Faults # {}
      BY <2>3, <2>11 DEF QueryFails, Lose, Protected
    <3>2. refreshToken[store.user] \in {store, req[r].issued}
      BY <1>6, <2>3 DEF Exchange
    <3>3. /\ req'[r].pc = "answered" /\ req'[r].answer = "failed"
          /\ req'[r].kind = "refresh" /\ req'[r].token = store
          /\ req'[r].issued = req[r].issued
          /\ \A q \in Req \ {r} : req'[q] = req[q]
      BY <1>3, <1>a, <2>3, <3>1, Responded
    <3>4. TokensOwn' /\ Exchange(c)'
      BY <1>3, <1>4, <1>6, <2>4, <3>1, <3>2, <3>3 DEF TokensOwn, Exchange, Refresh
    <3> QED BY <2>6, <3>3, <3>4
  <2> QED BY <1>1, <2>3, <2>7, <2>8, <2>9, <2>10, <2>11 DEF Serve, Revoke
<1> QED BY <1>2, <1>5, <1>6

LEMMA ClockKept ==
  ASSUME Safe, Kept, Clock, UNCHANGED clientVars
  PROVE  Kept'
<1>1. UNCHANGED <<store, call, isRefreshing, refreshToken, req>> /\ now' = now + 1
  BY DEF Clock, clientVars
<1>2. QueriesOnly' /\ OneRefresh' /\ TokensOwn' /\ AtRest'
  BY <1>1 DEF Kept, QueriesOnly, QueryOnly, OneRefresh, TokensOwn, AtRest, Idle, Refreshing,
              Own, Refresh
<1>3. ASSUME NEW c \in Call, Refreshing(c)'
      PROVE  Exchange(c)'
  <2>1. Exchange(c)
    BY <1>1, <1>3 DEF Kept, Refreshing
  <2>2. ~ Valid(store, RefreshLife) => ~ Valid(store, RefreshLife)'
    BY <1>1, <1>3, <2>1 DEF Valid, Safe, ClientTypeOK, SessionTypeOK, Token, Exchange
  <2> QED BY <1>1, <2>1, <2>2 DEF Exchange, Refresh
<1> QED BY <1>2, <1>3 DEF Kept

\* A call that is intercepted finds no refresh under way in the one tab.
LEMMA NobodyRefreshes ==
  ASSUME Kept, OneTab, NEW c \in Call, Intercepted(c), NEW d \in Call
  PROVE  ~ Refreshing(d)
<1>1. call[c].tab \in Tab /\ ~ isRefreshing[call[c].tab]
  BY DEF Kept, QueriesOnly, QueryOnly, Intercepted, Idle
<1>2. Refreshing(d) => call[d].tab \in Tab /\ isRefreshing[call[d].tab]
  BY DEF Kept, QueriesOnly, QueryOnly, OneRefresh, Refreshing, Idle
<1> QED BY <1>1, <1>2 DEF OneTab

\* What a call that does not refresh does leaves the others' requests, and
\* what Kept says of them.
LEMMA QuietCall ==
  ASSUME Safe, Kept, NEW c \in Call, ~ Refreshing(c),
         UNCHANGED <<refreshToken, now, isRefreshing>>,
         \A d \in Call \ {c} : call'[d] = call[d],
         \A q \in Req \ {Own(c), Refresh(c)} : req'[q] = req[q],
         call'[c].kind = "query", call'[c].stage # "refreshing",
         call'[c].stage # "free" => call'[c].tab \in Tab,
         req'[Own(c)].kind = "query", req'[Own(c)].pc \in {"free", "arrived"},
         req'[Refresh(c)].pc = "free",
         \/ store' = store
         \/ store' = NoToken /\ \A d \in Call : ~ Refreshing(d)
  PROVE  Kept'
<1>1. QueriesOnly /\ OneRefresh /\ TokensOwn /\ AtRest
  BY DEF Kept
<1>2. \A d \in Call \ {c} : /\ req'[Own(d)] = req[Own(d)]
                            /\ req'[Refresh(d)] = req[Refresh(d)]
  BY Slots
<1>3. ASSUME NEW d \in Call
      PROVE  QueryOnly(d)'
  <2>1. CASE d = c
    BY <2>1 DEF QueryOnly, Idle, Refreshing, Own, Refresh
  <2>2. CASE d # c
    BY <1>1, <1>2, <2>2 DEF QueriesOnly, QueryOnly, Idle, Refreshing, Own, Refresh
  <2> QED BY <2>1, <2>2
<1>4. \A d \in Call : Refreshing(d)' <=> Refreshing(d)
  BY DEF Refreshing
<1>5. OneRefresh' /\ TokensOwn'
  BY <1>1, <1>4 DEF OneRefresh, TokensOwn, Refreshing
<1>6. AtRest'
  BY <1>1, <1>4 DEF AtRest
<1>7. ASSUME NEW d \in Call, Refreshing(d)'
      PROVE  Exchange(d)'
  <2>1. Refreshing(d) /\ d # c /\ store' = store
    BY <1>4, <1>7
  <2> QED BY <1>2, <2>1 DEF Kept, Exchange, Refresh, Valid
<1> QED BY <1>3, <1>5, <1>6, <1>7 DEF Kept, QueriesOnly

LEMMA QueryKept ==
  ASSUME Safe, Kept, NEW c \in Call, NEW t \in Tab, Query(c, t)
  PROVE  Kept'
<1> DEFINE new == Arrived("query", NoUser, store)
<1>1. /\ req \in [Req -> Request] /\ call \in [Call -> CallRecord]
      /\ store \in Token \cup {NoToken} /\ QueriesOnly /\ Idle(c)
  BY DEF Safe, Kept, ClientTypeOK, SessionTypeOK, Query
<1>2. /\ call' = [call EXCEPT ![c] = [tab |-> t, kind |-> "query", stage |-> "sent"]]
      /\ req' = [req EXCEPT ![Own(c)] = new]
      /\ UNCHANGED <<refreshToken, now, store, isRefreshing>>
  BY DEF Query, Send, Asked
<1>3. new.kind = "query" /\ new.pc = "arrived"
  BY <1>1, NewRequest DEF Kind
<1> HIDE DEF new
<1>4. /\ req'[Own(c)] = new
      /\ \A q \in Req \ {Own(c)} : req'[q] = req[q]
  BY <1>1, <1>2, Slots
<1>5. ~ Refreshing(c) /\ req'[Refresh(c)].pc = "free"
  BY <1>1, <1>4, Slots DEF QueriesOnly, QueryOnly, Idle, Refreshing
<1> QED BY <1>1, <1>2, <1>3, <1>4, <1>5, QuietCall

\* A call that is done leaves both its slots.
LEMMA DoneKept ==
  ASSUME Safe, Kept, NEW c \in Call, ~ Refreshing(c), Done(c),
         isRefreshing' = isRefreshing,
         \/ store' = store
         \/ store' = NoToken /\ \A d \in Call : ~ Refreshing(d)
  PROVE  Kept'
<1>1. req \in [Req -> Request] /\ call \in [Call -> CallRecord]
  BY DEF Safe, ClientTypeOK, SessionTypeOK
<1>2. /\ req'[Own(c)] = Free /\ req'[Refresh(c)] = Free
      /\ \A q \in Req \ {Own(c), Refresh(c)} : req'[q] = req[q]
  BY <1>1, Slots DEF Done
<1>3. /\ call'[c] = NoCall
      /\ \A d \in Call \ {c} : call'[d] = call[d]
  BY <1>1 DEF Done
<1>4. UNCHANGED <<refreshToken, now>>
  BY DEF Done
<1>5. NoCall.kind = "query" /\ NoCall.stage = "free"
  BY DEF NoCall
<1> QED BY <1>2, <1>3, <1>4, <1>5, FreeRequest, QuietCall

LEMMA StartRefreshKept ==
  ASSUME Safe, Kept, OneTab, NEW c \in Call, StartRefresh(c)
  PROVE  Kept'
<1>1. /\ req \in [Req -> Request] /\ call \in [Call -> CallRecord]
      /\ isRefreshing \in [Tab -> BOOLEAN]
      /\ store \in Token \cup {NoToken}
      /\ QueriesOnly /\ TokensOwn /\ AtRest /\ Intercepted(c)
  BY DEF Safe, Kept, ClientTypeOK, SessionTypeOK, StartRefresh
<1>2. \A d \in Call : ~ Refreshing(d)
  BY <1>1, NobodyRefreshes
<1>3. CASE store = NoToken
  BY <1>2, <1>3, DoneKept DEF StartRefresh, Clear
<1>4. CASE store # NoToken
  <2> DEFINE new == Arrived("refresh", NoUser, store)
  <2>1. /\ isRefreshing' = [isRefreshing EXCEPT ![call[c].tab] = TRUE]
        /\ call' = [call EXCEPT ![c] = [call[c] EXCEPT !.stage = "refreshing"]]
        /\ req' = [req EXCEPT ![Refresh(c)] = new]
        /\ UNCHANGED <<refreshToken, now, store>>
    BY <1>4 DEF StartRefresh
  <2>2. new.kind = "refresh" /\ new.pc = "arrived" /\ new.token = store
    BY <1>1 DEF Arrived, Free
  <2> HIDE DEF new
  <2>3. /\ req'[Refresh(c)] = new
        /\ \A d \in Call : req'[Own(d)] = req[Own(d)]
        /\ \A d \in Call \ {c} : req'[Refresh(d)] = req[Refresh(d)]
    BY <1>1, <2>1, Slots
  <2>4. /\ call'[c].tab = call[c].tab /\ call'[c].kind = call[c].kind
        /\ call'[c].stage = "refreshing"
        /\ \A d \in Call \ {c} : call'[d] = call[d]
    BY <1>1, <2>1 DEF CallRecord
  <2>5. call[c].tab \in Tab /\ call[c].kind = "query"
    BY <1>1 DEF QueriesOnly, QueryOnly, Intercepted, Idle
  <2>6. isRefreshing'[call[c].tab]
    BY <1>1, <2>1, <2>5
  <2>7. ASSUME NEW d \in Call
        PROVE  QueryOnly(d)'
    <3>1. QueryOnly(d)
      BY <1>1 DEF QueriesOnly
    <3>2. CASE d = c
      BY <2>3, <2>4, <2>5, <3>1, <3>2 DEF QueryOnly, Idle, Refreshing, Own, Refresh
    <3>3. CASE d # c
      BY <2>3, <2>4, <3>1, <3>3 DEF QueryOnly, Idle, Refreshing, Own, Refresh
    <3> QED BY <3>2, <3>3
  <2>8. \A d \in Call : Refreshing(d)' => d = c
    BY <1>2, <2>4 DEF Refreshing
  <2>9. OneRefresh'
    BY <2>4, <2>6, <2>8 DEF OneRefresh, Refreshing
  <2>10. TokensOwn'
    BY <1>1, <2>1 DEF TokensOwn
  <2>11. refreshToken[store.user] = store
    BY <1>1, <1>2, <1>4 DEF AtRest
  <2>12. Exchange(c)'
    BY <1>4, <2>1, <2>2, <2>3, <2>11 DEF Exchange, Refresh
  <2>13. AtRest'
    BY <2>4 DEF AtRest, Refreshing
  <2> QED BY <2>7, <2>8, <2>9, <2>10, <2>12, <2>13 DEF Kept, QueriesOnly
<1> QED BY <1>3, <1>4

\* The end of a refresh: both sides have what the store is given.
LEMMA ExchangeEnds ==
  ASSUME Safe, Kept, NEW c \in Call, Refreshing(c),
         UNCHANGED <<refreshToken, now>>,
         isRefreshing' = [isRefreshing EXCEPT ![call[c].tab] = FALSE],
         \A d \in Call \ {c} : call'[d] = call[d],
         \A q \in Req \ {Own(c), Refresh(c)} : req'[q] = req[q],
         call'[c].kind = "query", call'[c].stage # "refreshing",
         call'[c].stage # "free" => call'[c].tab \in Tab,
         req'[Own(c)].kind = "query", req'[Own(c)].pc \in {"free", "arrived"},
         req'[Refresh(c)].pc = "free",
         store' # NoToken => refreshToken[store'.user] = store'
  PROVE  Kept'
<1>1. QueriesOnly /\ OneRefresh /\ TokensOwn
  BY DEF Kept
<1>2. \A d \in Call \ {c} : /\ req'[Own(d)] = req[Own(d)]
                            /\ req'[Refresh(d)] = req[Refresh(d)]
  BY Slots
<1>3. ASSUME NEW d \in Call
      PROVE  QueryOnly(d)'
  <2>1. CASE d = c
    BY <2>1 DEF QueryOnly, Idle, Refreshing, Own, Refresh
  <2>2. CASE d # c
    BY <1>1, <1>2, <2>2 DEF QueriesOnly, QueryOnly, Idle, Refreshing, Own, Refresh
  <2> QED BY <2>1, <2>2
<1>4. \A d \in Call : ~ Refreshing(d)'
  BY <1>1 DEF Refreshing, OneRefresh
<1>5. OneRefresh' /\ TokensOwn'
  BY <1>1, <1>4 DEF OneRefresh, TokensOwn
<1>6. AtRest'
  BY DEF AtRest
<1> QED BY <1>3, <1>4, <1>5, <1>6 DEF Kept, QueriesOnly

LEMMA RetryKept ==
  ASSUME Safe, Kept, NEW c \in Call, Retry(c)
  PROVE  Kept'
<1> DEFINE new == Arrived("query", NoUser, store')
<1>1. /\ req \in [Req -> Request] /\ call \in [Call -> CallRecord]
      /\ QueriesOnly /\ Refreshing(c)
      /\ req[Refresh(c)].pc = "answered" /\ req[Refresh(c)].answer = "ok"
  BY DEF Safe, Kept, ClientTypeOK, SessionTypeOK, Retry, RefreshAnswered, Refreshing
<1>2. Exchange(c) /\ call[c].kind = "query" /\ call[c].tab \in Tab
  BY <1>1 DEF Kept, QueriesOnly, QueryOnly, Refreshing, Idle
<1>3. /\ store' = req[Refresh(c)].issued
      /\ call' = [call EXCEPT ![c] = [call[c] EXCEPT !.stage = "retried"]]
      /\ req' = [req EXCEPT ![Refresh(c)] = Free, ![Own(c)] = new]
      /\ isRefreshing' = [isRefreshing EXCEPT ![call[c].tab] = FALSE]
      /\ UNCHANGED <<refreshToken, now>>
  BY <1>2 DEF Retry, Asked
<1>4. refreshToken[store'.user] = store'
  BY <1>1, <1>2, <1>3 DEF Exchange
<1>5. new.kind = "query" /\ new.pc = "arrived"
  BY DEF Arrived, Free
<1> HIDE DEF new
<1>6. /\ req'[Own(c)] = new /\ req'[Refresh(c)] = Free
      /\ \A q \in Req \ {Own(c), Refresh(c)} : req'[q] = req[q]
  BY <1>1, <1>3, Slots
<1>7. /\ call'[c].kind = "query" /\ call'[c].stage = "retried"
      /\ call'[c].tab \in Tab
      /\ \A d \in Call \ {c} : call'[d] = call[d]
  BY <1>1, <1>2, <1>3 DEF CallRecord
<1>8. /\ req'[Own(c)].kind = "query" /\ req'[Own(c)].pc = "arrived"
      /\ req'[Refresh(c)].pc = "free"
  BY <1>5, <1>6, FreeRequest
<1> QED BY <1>1, <1>3, <1>4, <1>6, <1>7, <1>8, ExchangeEnds

LEMMA GiveUpKept ==
  ASSUME Safe, Kept, NEW c \in Call, GiveUp(c)
  PROVE  Kept'
<1>1. req \in [Req -> Request] /\ call \in [Call -> CallRecord] /\ Refreshing(c)
  BY DEF Safe, ClientTypeOK, SessionTypeOK, GiveUp, RefreshAnswered, Refreshing
<1>2. /\ Done(c) /\ store' = NoToken
      /\ isRefreshing' = [isRefreshing EXCEPT ![call[c].tab] = FALSE]
  BY DEF GiveUp, Clear
<1>3. /\ req'[Own(c)] = Free /\ req'[Refresh(c)] = Free
      /\ \A q \in Req \ {Own(c), Refresh(c)} : req'[q] = req[q]
  BY <1>1, <1>2, Slots DEF Done
<1>4. /\ call'[c] = NoCall
      /\ \A d \in Call \ {c} : call'[d] = call[d]
  BY <1>1, <1>2 DEF Done
<1>5. UNCHANGED <<refreshToken, now>>
  BY <1>2 DEF Done
<1>6. NoCall.kind = "query" /\ NoCall.stage = "free"
  BY DEF NoCall
<1> QED BY <1>1, <1>2, <1>3, <1>4, <1>5, <1>6, FreeRequest, ExchangeEnds

\* Of what an answer can cause, the calls of the page cause these.
LEMMA QueryContinues ==
  ASSUME Kept, NEW c \in Call, Continue(c)
  PROVE  StartRefresh(c) \/ Retry(c) \/ GiveUp(c) \/ EndQuietly(c)
  BY DEF Kept, QueriesOnly, QueryOnly, Continue, Final, EndSignIn, EndProfile, EndRefresh,
         FailRefresh, EndLogout

LEMMA KeptStep ==
  ASSUME OneTab, Safe, Kept, [OpenPageNext]_allVars
  PROVE  Kept'
<1>1. CASE UNCHANGED allVars
  <2>1. UNCHANGED <<refreshToken, req, now, store, isRefreshing, call>>
    BY <1>1 DEF allVars, sessionVars, clientVars
  <2>2. QueriesOnly' /\ OneRefresh' /\ TokensOwn' /\ AtRest'
    BY <2>1 DEF Kept, QueriesOnly, QueryOnly, OneRefresh, TokensOwn, AtRest, Idle, Refreshing,
                Own, Refresh
  <2>3. \A c \in Call : Refreshing(c)' => Exchange(c)'
    BY <2>1 DEF Kept, Refreshing, Exchange, Refresh, Valid
  <2> QED BY <2>2, <2>3 DEF Kept
<1>2. CASE Around
  BY <1>2, ServerKept, ClockKept DEF Around
<1>3. ASSUME NEW c \in Call, Continue(c)
      PROVE  Kept'
  <2>1. CASE EndQuietly(c)
    <3>1. ~ Refreshing(c) /\ Done(c) /\ UNCHANGED <<store, isRefreshing>>
      BY <2>1 DEF EndQuietly, Final, Answered, Refreshing
    <3> QED BY <3>1, DoneKept
  <2> QED
    BY <1>3, <2>1, QueryContinues, StartRefreshKept, RetryKept, GiveUpKept
<1>4. ASSUME NEW c \in Call, NEW t \in Tab, Query(c, t)
      PROVE  Kept'
  BY <1>4, QueryKept
<1> QED BY <1>1, <1>2, <1>3, <1>4 DEF OpenPageNext

LEMMA OpenPageInvariant ==
  OneTab => (OpenPageSpec => [](Safe /\ Kept))
<1> SUFFICES ASSUME OneTab
             PROVE  OpenPageSpec => [](Safe /\ Kept)
  OBVIOUS
<1>1. Safe /\ Kept /\ [OpenPageNext]_allVars => (Safe /\ Kept)'
  BY KeptStep, SafeStep DEF ClientNext
<1> QED BY <1>1, SafeInit, KeptInit, PTL DEF OpenPageSpec

\* One open page keeps its session: whatever number of queries it sends,
\* however their 401s, refreshes and retries overlap and whatever fails, the
\* token in the store is the server's, or the server's is on its way.
THEOREM SessionsKept ==
  OneTab => (OpenPageSpec => []SessionKept)
<1> SUFFICES ASSUME OneTab
             PROVE  OpenPageSpec => []SessionKept
  OBVIOUS
<1>1. Safe /\ Kept => SessionKept
  <2> SUFFICES ASSUME Kept, store # NoToken
               PROVE  \/ refreshToken[store.user] = store
                      \/ \E c \in Call : /\ call[c].stage = "refreshing"
                                         /\ req[Refresh(c)].issued = refreshToken[store.user]
    BY DEF SessionKept
  <2>1. CASE \A c \in Call : ~ Refreshing(c)
    BY <2>1 DEF Kept, AtRest
  <2>2. ASSUME NEW c \in Call, Refreshing(c)
        PROVE  refreshToken[store.user] \in {store, req[Refresh(c)].issued}
    BY <2>2 DEF Kept, Exchange
  <2> QED BY <2>1, <2>2 DEF Refreshing
<1> QED BY <1>1, OpenPageInvariant, PTL

\* While nothing fails it is signed out only when its refresh token is too old, never
\* because a second 401 presented a token that a first one had replaced.
THEOREM SignOutsByAge ==
  Faults = {} /\ OneTab => (OpenPageSpec => SignedOutByAge)
<1> SUFFICES ASSUME Faults = {}, OneTab
             PROVE  OpenPageSpec => SignedOutByAge
  OBVIOUS
<1> DEFINE ByAge ==
      \A t \in Tab : signedIn[t] /\ ~ signedIn'[t] =>
        store = NoToken \/ ~ Valid(store, RefreshLife)
<1>1. ASSUME Safe, Kept, [OpenPageNext]_allVars
      PROVE  [ByAge]_allVars
  <2>1. CASE signedIn' = signedIn
    BY <2>1
  <2>2. ASSUME NEW c \in Call, StartRefresh(c), signedIn' # signedIn
        PROVE  ByAge
    BY <2>2 DEF StartRefresh
  <2>3. ASSUME NEW c \in Call, GiveUp(c)
        PROVE  ByAge
    BY <1>1, <2>3 DEF Kept, GiveUp, RefreshAnswered, Refreshing, Exchange
  <2> QED
    BY <1>1, <2>1, <2>2, <2>3, QueryContinues
       DEF OpenPageNext, Around, clientVars, allVars, Query, Retry, EndQuietly
<1> QED BY <1>1, OpenPageInvariant, PTL DEF OpenPageSpec, SignedOutByAge

=============================================================================
