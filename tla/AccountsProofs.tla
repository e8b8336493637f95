---------------------------- MODULE AccountsProofs ----------------------------
(***************************************************************************)
(* Theorems about Accounts, for any sets of accounts, addresses, Google    *)
(* identities and requests and any bounds.                                 *)
(*                                                                         *)
(* ConfirmedAddresses is not inductive: a request holds an address that it *)
(* found or confirmed some awaits ago, and writes a verified account with  *)
(* it.  Confirmed says what each request still knows when it does, and     *)
(* lemma Kept that no other request's step takes that knowledge away.      *)
(***************************************************************************)
EXTENDS Accounts, TLAPS

\* A link mailed to address e still belongs to the account, or is of no use.
GoesTo(u, e) ==
    /\ Exists(u)
    /\ u \in excused \/ account[u].verified \/ account[u].email = e

\* The account's own address is confirmed.
Sure(u) == Exists(u) /\ (u \in excused \/ account[u].email \in confirmed)

\* The fields of a request that its next step uses.
LocalsOK(r) ==
    /\ req[r].pc \notin {"idle", "byEmail", "create"} =>
          req[r].user \in User /\ Exists(req[r].user)
    /\ req[r].pc \notin {"idle", "verify"} => req[r].to \in Email
    /\ req[r].pc \in {"store", "mail"} => req[r].token \in Token
    /\ req[r].pc \in {"byEmail", "link", "create"} => req[r].google \in Google

RequestOK(r) ==
    /\ req[r].pc \in {"store", "mail"} /\ req[r].token.purpose = "link" =>
          req[r].token.user = req[r].user /\ GoesTo(req[r].user, req[r].to)
    /\ req[r].pc \in {"check", "apply"} =>
          req[r].user \in excused \/ req[r].to \in confirmed
    /\ req[r].pc \in {"verify", "link"} => Sure(req[r].user)
    /\ req[r].pc \in {"byEmail", "link", "create"} => req[r].to \in confirmed

MailOK(m) == m.token.purpose = "link" => GoesTo(m.token.user, m.to)

\* The token of an e-mail change keeps within its life.
InLife(t) == t.purpose = "change" => t.exp <= t.iat + CodeLife /\ t.iat <= now

RowOK(u) ==
    /\ account[u].verified => Sure(u)
    /\ account[u].token # NoToken => InLife(account[u].token)

LateOK(r) ==
    late[r] # NoWrite => late[r].token.purpose = "change" /\ InLife(late[r].token)

SentOK(r) == req[r].pc = "store" => InLife(req[r].token)

Typed == AccountsTypeOK /\ \A r \in Request : LocalsOK(r)

Confirmed ==
    /\ Typed
    /\ \A r \in Request : RequestOK(r) /\ LateOK(r) /\ SentOK(r)
    /\ \A m \in mails : MailOK(m)
    /\ \A u \in User : RowOK(u)

\* What a step leaves of an existing account: the same address, or another
\* one that is confirmed or excused; and it stays verified.
KeepsAccount(u) ==
    Exists(u) =>
        /\ Exists(u)'
        /\ \/ u \in excused'
           \/ account'[u].verified /\ account'[u].email \in confirmed'
           \/ /\ account'[u].email = account[u].email
              /\ account[u].verified => account'[u].verified

Monotonic ==
    /\ confirmed \subseteq confirmed' /\ excused \subseteq excused'
    /\ now' \in {now, now + 1}
    /\ \A u \in User : KeepsAccount(u)

\* What a request knows of its account survives the steps of the others.
LEMMA KeptSure ==
    ASSUME Monotonic, NEW u \in User
    PROVE  /\ Sure(u) => Sure(u)'
           /\ \A e \in Email : GoesTo(u, e) => GoesTo(u, e)'
           /\ Exists(u) => Exists(u)'
  BY DEF Monotonic, KeepsAccount, Sure, GoesTo, Exists

LEMMA Kept ==
    ASSUME Monotonic, NEW r \in Request, req'[r] = req[r], LocalsOK(r), RequestOK(r)
    PROVE  LocalsOK(r)' /\ RequestOK(r)'
  <1>1. LocalsOK(r)'
    BY KeptSure DEF LocalsOK
  <1>2. CASE req[r].pc \in {"store", "mail", "verify", "link", "check", "apply"}
    <2>1. req[r].user \in User
      BY <1>2 DEF LocalsOK
    <2>2. /\ Sure(req[r].user) => Sure(req[r].user)'
          /\ \A e \in Email : GoesTo(req[r].user, e) => GoesTo(req[r].user, e)'
      BY <2>1, KeptSure
    <2>3. req[r].pc # "verify" => req[r].to \in Email
      BY <1>2 DEF LocalsOK
    <2>4. confirmed \subseteq confirmed' /\ excused \subseteq excused'
      BY DEF Monotonic
    <2> QED
      BY <1>1, <2>2, <2>3, <2>4 DEF RequestOK, Sure, GoesTo, Exists
  <1>3. CASE req[r].pc \notin {"store", "mail", "verify", "link", "check", "apply"}
    BY <1>1, <1>3 DEF RequestOK, Monotonic
  <1> QED
    BY <1>2, <1>3

LEMMA KeptMail ==
    ASSUME Monotonic, Typed, NEW m \in mails, MailOK(m)
    PROVE  MailOK(m)'
  <1>1. m.to \in Email /\ m.token.user \in User
    BY DEF Typed, AccountsTypeOK, Token, TokenOf
  <1>2. GoesTo(m.token.user, m.to) => GoesTo(m.token.user, m.to)'
    BY <1>1, KeptSure
  <1> QED
    BY <1>2 DEF MailOK, GoesTo, Exists

LEMMA KeptLife ==
    ASSUME Monotonic, now \in Nat, NEW t \in Token, InLife(t)
    PROVE  InLife(t)'
  <1>1. t.iat \in Nat
    BY DEF Token, TokenOf
  <1> QED
    BY <1>1 DEF Monotonic, InLife

LEMMA KeptRow ==
    ASSUME Monotonic, Typed, NEW u \in User, account'[u] = account[u], RowOK(u)
    PROVE  RowOK(u)'
  <1>1. Sure(u) => Sure(u)'
    BY KeptSure
  <1>2. now \in Nat /\ account[u].token \in Token \cup {NoToken}
    BY DEF Typed, AccountsTypeOK, Row
  <1>3. account[u].token # NoToken => InLife(account[u].token)'
    BY <1>2, KeptLife DEF RowOK
  <1> QED
    BY <1>1, <1>3 DEF RowOK, InLife

LEMMA SameAccounts ==
    ASSUME account' = account, now' = now,
           confirmed \subseteq confirmed', excused \subseteq excused'
    PROVE  Monotonic
  BY DEF Monotonic, KeepsAccount, Exists

\* A step of one request preserves Confirmed if it leaves that request, the
\* mail it sends and the row it writes in order.
LEMMA OneRequest ==
    ASSUME Confirmed, Monotonic, AccountsTypeOK',
           NEW r \in Request,
           \A q \in Request \ {r} : req'[q] = req[q] /\ late'[q] = late[q],
           LocalsOK(r)', RequestOK(r)', LateOK(r)', SentOK(r)',
           \A m \in mails' : m \in mails \/ MailOK(m)',
           \A u \in User : account'[u] = account[u] \/ RowOK(u)'
    PROVE  Confirmed'
  <1>1. ASSUME NEW q \in Request
        PROVE  LocalsOK(q)' /\ RequestOK(q)' /\ LateOK(q)' /\ SentOK(q)'
    <2>1. CASE q = r
      BY <2>1
    <2>2. CASE q # r
      <3>1. req'[q] = req[q] /\ late'[q] = late[q]
        BY <2>2
      <3>2. LocalsOK(q) /\ RequestOK(q) /\ LateOK(q) /\ SentOK(q)
        BY DEF Confirmed, Typed
      <3>3. LocalsOK(q)' /\ RequestOK(q)'
        BY <3>1, <3>2, Kept
      <3>4. now \in Nat /\ late[q] \in [user : User, token : Token, stored : BOOLEAN] \cup {NoWrite}
        BY DEF Confirmed, Typed, AccountsTypeOK
      <3>5. LateOK(q)'
        BY <3>1, <3>2, <3>4, KeptLife DEF LateOK, InLife
      <3>6. SentOK(q)'
        BY <3>1, <3>2, <3>4, KeptLife DEF SentOK, LocalsOK, InLife
      <3> QED
        BY <3>3, <3>5, <3>6
    <2> QED
      BY <2>1, <2>2
  <1>2. ASSUME NEW m \in mails'  PROVE MailOK(m)'
    BY KeptMail DEF Confirmed
  <1>3. ASSUME NEW u \in User  PROVE RowOK(u)'
    BY KeptRow DEF Confirmed
  <1> QED
    BY <1>1, <1>2, <1>3 DEF Confirmed, Typed

-----------------------------------------------------------------------------
(* One lemma per action.                                                   *)

LEMMA IdleOK ==
    /\ Idle \in Locals /\ Idle.pc = "idle" /\ Idle.user = NoUser
    /\ Idle.to = NoEmail /\ Idle.google = NoGoogle /\ Idle.token = NoToken
  BY DEF Idle, Locals, PC

\* A step that only reads the accounts.
LEMMA ReadStep ==
    ASSUME Confirmed, NEW r \in Request, NEW new \in Locals,
           req' = [req EXCEPT ![r] = new],
           UNCHANGED <<account, late, mails, excused, now>>,
           drawn' \in 0 .. MaxCodes,
           confirmed \subseteq confirmed', confirmed' \subseteq Email,
           new.user # NoUser => Exists(new.user),
           LocalsOK(r)', RequestOK(r)', SentOK(r)'
    PROVE  Confirmed'
  <1>1. Monotonic
    BY SameAccounts
  <1>2. req' \in [Request -> Locals]
    BY DEF Confirmed, Typed, AccountsTypeOK
  <1>3. \A q \in Request \ {r} : req'[q] = req[q] /\ late'[q] = late[q]
    BY DEF Confirmed, Typed, AccountsTypeOK
  <1>4. req'[r] = new
    BY DEF Confirmed, Typed, AccountsTypeOK
  <1>5. AccountsTypeOK'
    BY <1>2, <1>3, <1>4 DEF Confirmed, Typed, AccountsTypeOK, Exists
  <1>6. LateOK(r)'
    BY DEF Confirmed, LateOK, InLife
  <1> QED
    BY <1>1, <1>3, <1>5, <1>6, OneRequest

LEMMA AnsweredStep ==
    ASSUME Confirmed, NEW r \in Request, Answered(r)
    PROVE  Confirmed'
  <1>1. req'[r] = Idle
    BY DEF Confirmed, Typed, AccountsTypeOK, Answered, Answer
  <1>2. LocalsOK(r)' /\ RequestOK(r)' /\ SentOK(r)'
    BY <1>1, IdleOK DEF LocalsOK, RequestOK, SentOK
  <1> QED
    BY <1>2, IdleOK, ReadStep DEF Answered, Answer, Confirmed, Typed, AccountsTypeOK

LEMMA LinkTokenOK ==
    ASSUME Typed, NEW u \in User
    PROVE  /\ LinkToken(u) \in Token
           /\ LinkToken(u).purpose = "link" /\ LinkToken(u).user = u
  BY AccountsAssumption DEF Typed, AccountsTypeOK, LinkToken, Token, TokenOf

LEMMA ResendStep ==
    ASSUME Confirmed, NEW r \in Request, NEW u \in User, Resend(r, u)
    PROVE  Confirmed'
  <1> DEFINE new == [Idle EXCEPT !.pc = "store", !.user = u, !.to = account[u].email,
                                 !.token = LinkToken(u)]
  <1>1. account[u].email \in Email
    BY DEF Confirmed, Typed, AccountsTypeOK, Row, Resend, Exists
  <1>2. /\ new \in Locals /\ new.pc = "store" /\ new.user = u
        /\ new.to = account[u].email /\ new.token = LinkToken(u)
    BY <1>1, LinkTokenOK DEF Idle, Locals, PC, Confirmed
  <1>3. req' = [req EXCEPT ![r] = new]
    BY DEF Resend
  <1> HIDE DEF new
  <1>4. req'[r] = new
    BY <1>3 DEF Confirmed, Typed, AccountsTypeOK
  <1>5. LocalsOK(r)'
    BY <1>1, <1>2, <1>4, LinkTokenOK DEF LocalsOK, Resend, Exists, Confirmed
  <1>6. RequestOK(r)' /\ SentOK(r)'
    BY <1>2, <1>4, LinkTokenOK DEF RequestOK, SentOK, InLife, Resend, GoesTo, Exists, Confirmed
  <1> QED
    BY <1>2, <1>3, <1>5, <1>6, ReadStep
       DEF Resend, Confirmed, Typed, AccountsTypeOK

LEMMA OpenLinkStep ==
    ASSUME Confirmed, NEW r \in Request, NEW m \in mails, OpenLink(r, m)
    PROVE  Confirmed'
  <1> DEFINE u == m.token.user
             new == [Idle EXCEPT !.pc = "verify", !.user = u]
  <1>1. u \in User /\ m.to \in Email
    BY DEF Confirmed, Typed, AccountsTypeOK, Token, TokenOf
  <1>2. new \in Locals /\ new.pc = "verify" /\ new.user = u
    BY <1>1 DEF Idle, Locals, PC
  <1>3. req' = [req EXCEPT ![r] = new]
    BY DEF OpenLink
  <1>4. Sure(u)'
    BY DEF OpenLink, Confirmed, MailOK, GoesTo, Sure, Exists
  <1>5. Exists(u)
    BY DEF OpenLink
  <1> HIDE DEF new, u
  <1>6. req'[r] = new
    BY <1>3 DEF Confirmed, Typed, AccountsTypeOK
  <1>7. LocalsOK(r)' /\ RequestOK(r)' /\ SentOK(r)'
    BY <1>1, <1>2, <1>4, <1>6 DEF LocalsOK, RequestOK, SentOK, Sure
  <1> QED
    BY <1>1, <1>2, <1>3, <1>5, <1>7, ReadStep
       DEF OpenLink, Confirmed, Typed, AccountsTypeOK

LEMMA GoogleSignInStep ==
    ASSUME Confirmed, NEW r \in Request, NEW g \in Google, GoogleSignIn(r, g)
    PROVE  Confirmed'
  <1> DEFINE new == [Idle EXCEPT !.pc = "byEmail", !.google = g, !.to = GoogleEmail[g]]
  <1>1. GoogleEmail[g] \in Email
    BY AccountsAssumption
  <1>2. /\ new \in Locals /\ new.pc = "byEmail" /\ new.google = g
        /\ new.to = GoogleEmail[g] /\ new.user = NoUser
    BY <1>1 DEF Idle, Locals, PC
  <1>3. req' = [req EXCEPT ![r] = new]
    BY DEF GoogleSignIn
  <1> HIDE DEF new
  <1>4. req'[r] = new
    BY <1>3 DEF Confirmed, Typed, AccountsTypeOK
  <1>5. LocalsOK(r)' /\ RequestOK(r)' /\ SentOK(r)'
    BY <1>1, <1>2, <1>4 DEF LocalsOK, RequestOK, SentOK, GoogleSignIn
  <1>6. /\ UNCHANGED <<account, late, mails, excused, now, drawn>>
        /\ confirmed \subseteq confirmed' /\ confirmed' \subseteq Email
        /\ drawn \in 0 .. MaxCodes
    BY <1>1 DEF GoogleSignIn, Confirmed, Typed, AccountsTypeOK
  <1> QED
    BY <1>2, <1>3, <1>5, <1>6, ReadStep

LEMMA RequestChangeStep ==
    ASSUME Confirmed, NEW r \in Request, NEW u \in User, NEW e \in Email, RequestChange(r, u, e)
    PROVE  Confirmed'
  <1> DEFINE new == [Idle EXCEPT !.pc = "available", !.user = u, !.to = e]
  <1>1. new \in Locals /\ new.pc = "available" /\ new.user = u /\ new.to = e
    BY DEF Idle, Locals, PC
  <1>2. req' = [req EXCEPT ![r] = new]
    BY DEF RequestChange
  <1> HIDE DEF new
  <1>3. req'[r] = new
    BY <1>2 DEF Confirmed, Typed, AccountsTypeOK
  <1>4. LocalsOK(r)' /\ RequestOK(r)' /\ SentOK(r)'
    BY <1>1, <1>3 DEF LocalsOK, RequestOK, SentOK, RequestChange, Exists
  <1> QED
    BY <1>1, <1>2, <1>4, ReadStep
       DEF RequestChange, Confirmed, Typed, AccountsTypeOK

LEMMA FindByEmailStep ==
    ASSUME Confirmed, NEW r \in Request, FindByEmail(r)
    PROVE  Confirmed'
  <1>1. req[r] \in Locals /\ LocalsOK(r) /\ RequestOK(r)
    BY DEF Confirmed, Typed, AccountsTypeOK
  <1>2. ASSUME NEW u \in User, account[u].email = req[r].to,
               req' = [req EXCEPT ![r].pc = "link", ![r].user = u]
        PROVE  Confirmed'
    <2> DEFINE new == [req[r] EXCEPT !.pc = "link", !.user = u]
    <2>1. /\ new \in Locals /\ new.pc = "link" /\ new.user = u
          /\ new.to = req[r].to /\ new.google = req[r].google
      BY <1>1 DEF Locals, PC
    <2>2. req' = [req EXCEPT ![r] = new]
      BY <1>1, <1>2 DEF Confirmed, Typed, AccountsTypeOK, Locals
    <2> HIDE DEF new
    <2>3. req'[r] = new
      BY <2>2 DEF Confirmed, Typed, AccountsTypeOK
    <2>4. account[u].email \in Email /\ req[r].google \in Google /\ req[r].to \in confirmed
      BY <1>1, <1>2 DEF FindByEmail, LocalsOK, RequestOK
    <2>5. Exists(u)
      BY <2>4, AccountsNullAssumption DEF Exists
    <2>6. LocalsOK(r)' /\ RequestOK(r)' /\ SentOK(r)'
      BY <1>2, <2>1, <2>3, <2>4, <2>5
         DEF LocalsOK, RequestOK, SentOK, FindByEmail, Exists, Sure
    <2> QED
      BY <2>1, <2>2, <2>5, <2>6, ReadStep
         DEF FindByEmail, Confirmed, Typed, AccountsTypeOK
  <1>3. ASSUME req' = [req EXCEPT ![r].pc = "create"]
        PROVE  Confirmed'
    <2> DEFINE new == [req[r] EXCEPT !.pc = "create"]
    <2>1. /\ new \in Locals /\ new.pc = "create" /\ new.user = req[r].user
          /\ new.to = req[r].to /\ new.google = req[r].google
      BY <1>1 DEF Locals, PC
    <2>2. req' = [req EXCEPT ![r] = new]
      BY <1>3
    <2> HIDE DEF new
    <2>3. req'[r] = new
      BY <2>2 DEF Confirmed, Typed, AccountsTypeOK
    <2>4. LocalsOK(r)' /\ RequestOK(r)' /\ SentOK(r)'
      BY <1>1, <2>1, <2>3 DEF LocalsOK, RequestOK, SentOK, FindByEmail
    <2> QED
      BY <2>1, <2>2, <2>4, ReadStep DEF FindByEmail, Confirmed, Typed, AccountsTypeOK
  <1> QED
    BY <1>2, <1>3 DEF FindByEmail

LEMMA DrawCodeStep ==
    ASSUME Confirmed, NEW r \in Request, DrawCode(r)
    PROVE  Confirmed'
  <1>1. req[r] \in Locals /\ LocalsOK(r) /\ RequestOK(r)
    BY DEF Confirmed, Typed, AccountsTypeOK
  <1> DEFINE new == [req[r] EXCEPT !.pc = "store",
                                   !.token = ChangeToken(req[r].user, req[r].to)]
  <1>2. req[r].user \in User /\ Exists(req[r].user) /\ req[r].to \in Email
    BY <1>1 DEF LocalsOK, DrawCode
  <1>3. /\ drawn' \in 0 .. MaxCodes
        /\ ChangeToken(req[r].user, req[r].to) \in Token
    BY <1>2, AccountsAssumption
       DEF DrawCode, ChangeToken, Token, TokenOf, Confirmed, Typed, AccountsTypeOK
  <1>4. /\ new \in Locals /\ new.pc = "store" /\ new.user = req[r].user
        /\ new.to = req[r].to /\ new.token = ChangeToken(req[r].user, req[r].to)
    BY <1>1, <1>3 DEF Locals, PC
  <1>5. req' = [req EXCEPT ![r] = new]
    BY <1>1 DEF DrawCode, Confirmed, Typed, AccountsTypeOK
  <1> HIDE DEF new
  <1>6. req'[r] = new
    BY <1>5 DEF Confirmed, Typed, AccountsTypeOK
  <1>7. /\ new.token.purpose = "change"
        /\ new.token.exp = new.token.iat + CodeLife /\ new.token.exp \in Nat
        /\ new.token.iat = now /\ now \in Nat /\ now' = now
    BY <1>4, AccountsAssumption DEF DrawCode, ChangeToken, Confirmed, Typed, AccountsTypeOK
  <1>8. LocalsOK(r)' /\ RequestOK(r)' /\ SentOK(r)'
    BY <1>2, <1>3, <1>4, <1>6, <1>7
       DEF LocalsOK, RequestOK, SentOK, InLife, DrawCode, Exists
  <1> QED
    BY <1>2, <1>3, <1>4, <1>5, <1>8, ReadStep
       DEF DrawCode, Confirmed, Typed, AccountsTypeOK

LEMMA StillFreeStep ==
    ASSUME Confirmed, NEW r \in Request, StillFree(r)
    PROVE  Confirmed'
  <1>1. req[r] \in Locals /\ LocalsOK(r) /\ RequestOK(r)
    BY DEF Confirmed, Typed, AccountsTypeOK
  <1> DEFINE new == [req[r] EXCEPT !.pc = "apply"]
  <1>2. /\ new \in Locals /\ new.pc = "apply" /\ new.user = req[r].user
        /\ new.to = req[r].to
    BY <1>1 DEF Locals, PC
  <1>3. req' = [req EXCEPT ![r] = new]
    BY DEF StillFree
  <1> HIDE DEF new
  <1>4. req'[r] = new
    BY <1>3 DEF Confirmed, Typed, AccountsTypeOK
  <1>5. LocalsOK(r)' /\ RequestOK(r)' /\ SentOK(r)'
    BY <1>1, <1>2, <1>4 DEF LocalsOK, RequestOK, SentOK, StillFree, Exists
  <1> QED
    BY <1>1, <1>2, <1>3, <1>5, ReadStep
       DEF StillFree, Confirmed, Typed, AccountsTypeOK

LEMMA PendingOK ==
    ASSUME Typed, NEW u \in User, Pending(account[u].token)
    PROVE  /\ account[u].token \in TokenOf("change", Email)
           /\ account[u].token.newEmail \in Email
  BY DEF Typed, AccountsTypeOK, Row, Pending, Token, TokenOf

\* verifyEmailChange goes on with the address of the token it read.
LEMMA CheckLocals ==
    ASSUME Confirmed, NEW r \in Request, NEW u \in User, Check(r, u)
    PROVE  \E new \in Locals :
              /\ req' = [req EXCEPT ![r] = new] /\ req'[r] = new
              /\ new.pc = "check" /\ new.user = u
              /\ new.to = account[u].token.newEmail
  <1> DEFINE new == [Idle EXCEPT !.pc = "check", !.user = u,
                                 !.to = account[u].token.newEmail]
  <1>1. account[u].token.newEmail \in Email
    BY PendingOK DEF Check, Confirmed
  <1>2. /\ new \in Locals /\ new.pc = "check" /\ new.user = u
        /\ new.to = account[u].token.newEmail
    BY <1>1 DEF Idle, Locals, PC
  <1>3. req' = [req EXCEPT ![r] = new]
    BY DEF Check
  <1> HIDE DEF new
  <1>4. req'[r] = new
    BY <1>3 DEF Confirmed, Typed, AccountsTypeOK
  <1> QED
    BY <1>2, <1>3, <1>4

LEMMA RightCodeStep ==
    ASSUME Confirmed, NEW r \in Request, NEW u \in User, RightCode(r, u)
    PROVE  Confirmed'
  <1>1. Check(r, u)
    BY DEF RightCode
  <1>2. PICK new \in Locals :
              /\ req' = [req EXCEPT ![r] = new] /\ req'[r] = new
              /\ new.pc = "check" /\ new.user = u
              /\ new.to = account[u].token.newEmail
    BY <1>1, CheckLocals
  <1>3. account[u].token.newEmail \in Email
    BY <1>1, PendingOK DEF Check, Confirmed
  <1>4. new.to \in confirmed' /\ confirmed \subseteq confirmed' /\ confirmed' \subseteq Email
    BY <1>2, <1>3 DEF RightCode, Confirmed, Typed, AccountsTypeOK
  <1>5. LocalsOK(r)' /\ RequestOK(r)' /\ SentOK(r)'
    BY <1>1, <1>2, <1>3, <1>4 DEF LocalsOK, RequestOK, SentOK, Check, Exists
  <1>6. UNCHANGED <<account, late, mails, excused, now>> /\ drawn' \in 0 .. MaxCodes
    BY <1>1 DEF RightCode, Check, Confirmed, Typed, AccountsTypeOK
  <1>7. new.user # NoUser => Exists(new.user)
    BY <1>1, <1>2 DEF Check
  <1> QED
    BY <1>2, <1>4, <1>5, <1>6, <1>7, ReadStep

\* Signed again after a wrong code, a token keeps within its life, because
\* no more than CodeLife can remain.
LEMMA CountedOK ==
    ASSUME now \in 0 .. MaxTime, NEW t \in TokenOf("change", Email), Pending(t), InLife(t)
    PROVE  /\ Counted(t) \in TokenOf("change", Email)
           /\ Counted(t).purpose = "change" /\ InLife(Counted(t))
  <1> DEFINE remaining == IF t.exp - now > 1 THEN t.exp - now ELSE 1
  <1>1. /\ t.exp \in Nat /\ t.iat \in Nat /\ now \in Nat /\ CodeLife \in Nat \ {0}
        /\ t.attempts \in Nat /\ MaxAttempts \in Nat /\ t.purpose = "change"
    BY AccountsAssumption DEF TokenOf
  <1>2. t.attempts < MaxAttempts /\ t.exp <= t.iat + CodeLife /\ t.iat <= now
    BY <1>1 DEF Pending, InLife
  <1>3. remaining \in Nat /\ remaining <= CodeLife /\ t.attempts + 1 \in 0 .. MaxAttempts
    BY <1>1, <1>2
  <1>4. Counted(t) = [t EXCEPT !.attempts = t.attempts + 1, !.exp = t.iat + remaining]
    BY DEF Counted
  <1> HIDE DEF remaining
  <1>5. t.iat + remaining \in Nat
    BY <1>1, <1>3
  <1>6. /\ Counted(t) \in TokenOf("change", Email)
        /\ Counted(t).exp = t.iat + remaining /\ Counted(t).iat = t.iat
        /\ Counted(t).purpose = "change"
    BY <1>3, <1>4, <1>5 DEF TokenOf
  <1> QED
    BY <1>1, <1>2, <1>3, <1>6 DEF InLife

LEMMA WrongCodeStep ==
    ASSUME Confirmed, NEW r \in Request, NEW u \in User, WrongCode(r, u)
    PROVE  Confirmed'
  <1> DEFINE t == account[u].token
             write == [user |-> u, token |-> Counted(t), stored |-> FALSE]
  <1>1. Check(r, u)
    BY DEF WrongCode
  <1>2. PICK new \in Locals :
              /\ req' = [req EXCEPT ![r] = new] /\ req'[r] = new
              /\ new.pc = "check" /\ new.user = u
              /\ new.to = t.newEmail
    BY <1>1, CheckLocals
  <1>3. t \in TokenOf("change", Email) /\ t.newEmail \in Email
    BY <1>1, PendingOK DEF Check, Confirmed
  <1>4. InLife(t) /\ Pending(t) /\ now \in 0 .. MaxTime
    BY <1>1 DEF Check, Pending, Confirmed, RowOK, Typed, AccountsTypeOK
  <1>5. Counted(t) \in Token /\ Counted(t).purpose = "change" /\ InLife(Counted(t))
    BY <1>3, <1>4, CountedOK DEF Token
  <1>6. /\ late' = [late EXCEPT ![r] = write] /\ excused' = excused \cup {u}
        /\ UNCHANGED <<account, mails, drawn, now, confirmed>> /\ Exists(u)
    BY DEF WrongCode, Check
  <1>7. write \in [user : User, token : Token, stored : BOOLEAN] /\ write.token = Counted(t)
    BY <1>5
  <1> HIDE DEF write, t
  <1>8. Monotonic
    BY <1>6, SameAccounts
  <1>9. /\ late' \in [Request -> [user : User, token : Token, stored : BOOLEAN] \cup {NoWrite}]
        /\ late'[r] = write
        /\ \A q \in Request \ {r} : req'[q] = req[q] /\ late'[q] = late[q]
    BY <1>2, <1>6, <1>7 DEF Confirmed, Typed, AccountsTypeOK
  <1>10. req' \in [Request -> Locals]
    BY <1>2 DEF Confirmed, Typed, AccountsTypeOK
  <1>11. AccountsTypeOK'
    BY <1>2, <1>6, <1>9, <1>10 DEF Confirmed, Typed, AccountsTypeOK, Exists
  <1>12. LocalsOK(r)' /\ RequestOK(r)' /\ SentOK(r)'
    BY <1>2, <1>3, <1>6 DEF LocalsOK, RequestOK, SentOK, Exists
  <1>13. LateOK(r)'
    BY <1>5, <1>6, <1>7, <1>9 DEF LateOK, InLife
  <1> QED
    BY <1>6, <1>8, <1>9, <1>11, <1>12, <1>13, OneRequest

LEMMA SendMailStep ==
    ASSUME Confirmed, NEW r \in Request, SendMail(r)
    PROVE  Confirmed'
  <1>0. PICK mail : mail = [to |-> req[r].to, token |-> req[r].token]
    OBVIOUS
  <1>1. /\ req[r].to \in Email /\ req[r].token \in Token
        /\ req[r].token.purpose = "link" =>
             req[r].token.user = req[r].user /\ GoesTo(req[r].user, req[r].to)
    BY DEF SendMail, Confirmed, Typed, LocalsOK, RequestOK
  <1>2. mail.to = req[r].to /\ mail.token = req[r].token
    BY <1>0
  <1>3. mail \in [to : Email, token : Token] /\ MailOK(mail)
    BY <1>0, <1>1, <1>2 DEF MailOK
  <1>4. /\ mails' = mails \cup {mail} /\ req' = [req EXCEPT ![r] = Idle]
        /\ UNCHANGED <<account, late, drawn, now, confirmed, excused>>
    BY <1>0 DEF SendMail, Answer
  <1>5. Monotonic
    BY <1>4, SameAccounts
  <1>6. /\ req'[r] = Idle /\ req' \in [Request -> Locals]
        /\ \A q \in Request \ {r} : req'[q] = req[q] /\ late'[q] = late[q]
    BY <1>4, IdleOK DEF Confirmed, Typed, AccountsTypeOK
  <1>7. AccountsTypeOK'
    BY <1>3, <1>4, <1>6, IdleOK DEF Confirmed, Typed, AccountsTypeOK, Exists
  <1>8. LocalsOK(r)' /\ RequestOK(r)' /\ SentOK(r)'
    BY <1>6, IdleOK DEF LocalsOK, RequestOK, SentOK
  <1>9. LateOK(r)'
    BY <1>4 DEF Confirmed, LateOK, InLife
  <1>10. MailOK(mail)'
    BY <1>3, <1>4 DEF MailOK, GoesTo, Exists
  <1> QED
    BY <1>4, <1>5, <1>6, <1>7, <1>8, <1>9, <1>10, OneRequest

\* A step that writes one row and answers, or goes on as new.
LEMMA WriteStep ==
    ASSUME Confirmed, NEW r \in Request, NEW new \in Locals,
           NEW u \in User, NEW row \in Row,
           req' = [req EXCEPT ![r] = new],
           account' = [account EXCEPT ![u] = row],
           UNCHANGED <<late, mails, drawn, now, confirmed, excused>>,
           row.email # NoEmail, new.user \in {u, NoUser}, KeepsAccount(u),
           LocalsOK(r)', RequestOK(r)', SentOK(r)', RowOK(u)'
    PROVE  Confirmed'
  <1>1. /\ account' \in [User -> Row] /\ account'[u] = row
        /\ \A v \in User \ {u} : account'[v] = account[v]
    BY DEF Confirmed, Typed, AccountsTypeOK
  <1>2. Monotonic
    BY <1>1 DEF Monotonic, KeepsAccount, Exists
  <1>3. /\ req' \in [Request -> Locals] /\ req'[r] = new
        /\ \A q \in Request \ {r} : req'[q] = req[q] /\ late'[q] = late[q]
    BY DEF Confirmed, Typed, AccountsTypeOK
  <1>4. \A v \in User : Exists(v) => Exists(v)'
    BY <1>1 DEF Exists
  <1>5. \A q \in Request : req'[q].user # NoUser => Exists(req[q].user)'
    <2>1. ASSUME NEW q \in Request, req'[q].user # NoUser
          PROVE  Exists(req[q].user)'
      <3>1. CASE q = r
        <4>1. req'[q].user = u
          BY <1>3, <2>1, <3>1
        <4> QED
          BY <1>1, <4>1 DEF Exists
      <3>2. CASE q # r
        <4>1. req'[q] = req[q] /\ req[q].user \in User
          BY <1>3, <2>1, <3>2 DEF Confirmed, Typed, AccountsTypeOK, Locals
        <4> QED
          BY <1>4, <2>1, <4>1 DEF Confirmed, Typed, AccountsTypeOK
      <3> QED
        BY <3>1, <3>2
    <2> QED
      BY <2>1
  <1>6. AccountsTypeOK'
    BY <1>1, <1>3, <1>5 DEF Confirmed, Typed, AccountsTypeOK, Exists
  <1>7. LateOK(r)'
    BY DEF Confirmed, LateOK, InLife
  <1> QED
    BY <1>1, <1>2, <1>3, <1>6, <1>7, OneRequest

LEMMA SignUpStep ==
    ASSUME Confirmed, NEW r \in Request, NEW u \in User, NEW e \in Email, SignUp(r, u, e)
    PROVE  Confirmed'
  <1>1. PICK row : row = [account[u] EXCEPT !.email = e]
    OBVIOUS
  <1>2. PICK new : new = [Idle EXCEPT !.pc = "store", !.user = u, !.to = e,
                                      !.token = LinkToken(u)]
    OBVIOUS
  <1>3. account[u] \in Row /\ RowOK(u) /\ ~Exists(u) /\ e # NoEmail
    BY AccountsNullAssumption DEF Confirmed, Typed, AccountsTypeOK, SignUp
  <1>4. /\ row \in Row /\ row.email = e /\ row.token = account[u].token
        /\ row.verified = account[u].verified
    BY <1>1, <1>3 DEF Row
  <1>5. /\ new \in Locals /\ new.pc = "store" /\ new.user = u /\ new.to = e
        /\ new.token = LinkToken(u)
    BY <1>2, LinkTokenOK DEF Idle, Locals, PC, Confirmed
  <1>6. /\ account' = [account EXCEPT ![u] = row] /\ req' = [req EXCEPT ![r] = new]
        /\ UNCHANGED <<late, mails, drawn, now, confirmed, excused>>
    BY <1>1, <1>2 DEF SignUp
  <1>7. account'[u] = row /\ req'[r] = new
    BY <1>6 DEF Confirmed, Typed, AccountsTypeOK
  <1>8. KeepsAccount(u)
    BY <1>3 DEF KeepsAccount
  <1>9. LocalsOK(r)' /\ RequestOK(r)' /\ SentOK(r)'
    BY <1>3, <1>4, <1>5, <1>7, LinkTokenOK
       DEF LocalsOK, RequestOK, SentOK, InLife, GoesTo, Exists, Confirmed
  <1>10. RowOK(u)'
    BY <1>3, <1>4, <1>6, <1>7 DEF RowOK, InLife, Sure, Exists
  <1> QED
    BY <1>3, <1>4, <1>5, <1>6, <1>8, <1>9, <1>10, WriteStep

LEMMA StoreTokenStep ==
    ASSUME Confirmed, NEW r \in Request, StoreToken(r)
    PROVE  Confirmed'
  <1>1. PICK u : u = req[r].user
    OBVIOUS
  <1>2. PICK row : row = [account[u] EXCEPT !.token = req[r].token]
    OBVIOUS
  <1>3. PICK new : new = [req[r] EXCEPT !.pc = "mail"]
    OBVIOUS
  <1>4. /\ req[r] \in Locals /\ LocalsOK(r) /\ RequestOK(r) /\ SentOK(r)
        /\ req[r].pc = "store"
    BY DEF Confirmed, Typed, AccountsTypeOK, StoreToken
  <1>5. /\ u \in User /\ Exists(u) /\ req[r].to \in Email /\ req[r].token \in Token
        /\ InLife(req[r].token)
    BY <1>1, <1>4 DEF LocalsOK, SentOK
  <1>6. account[u] \in Row /\ RowOK(u)
    BY <1>5 DEF Confirmed, Typed, AccountsTypeOK
  <1>7. /\ row \in Row /\ row.email = account[u].email /\ row.token = req[r].token
        /\ row.verified = account[u].verified
    BY <1>2, <1>5, <1>6 DEF Row
  <1>8. /\ new \in Locals /\ new.pc = "mail" /\ new.user = u /\ new.to = req[r].to
        /\ new.token = req[r].token
    BY <1>1, <1>3, <1>4 DEF Locals, PC
  <1>9. /\ account' = [account EXCEPT ![u] = row] /\ req' = [req EXCEPT ![r] = new]
        /\ UNCHANGED <<late, mails, drawn, now, confirmed, excused>>
    BY <1>1, <1>2, <1>3 DEF StoreToken
  <1>10. account'[u] = row /\ req'[r] = new
    BY <1>5, <1>9 DEF Confirmed, Typed, AccountsTypeOK
  <1>11. KeepsAccount(u)
    BY <1>7, <1>10 DEF KeepsAccount, Exists
  <1>12. LocalsOK(r)' /\ RequestOK(r)' /\ SentOK(r)'
    BY <1>1, <1>4, <1>5, <1>7, <1>8, <1>9, <1>10
       DEF LocalsOK, RequestOK, SentOK, GoesTo, Exists
  <1>13. RowOK(u)'
    BY <1>5, <1>6, <1>7, <1>9, <1>10 DEF RowOK, InLife, Sure, Exists
  <1> QED
    BY <1>5, <1>7, <1>8, <1>9, <1>11, <1>12, <1>13, WriteStep DEF Exists

\* A step that writes a row which is then surely confirmed, and answers.
LEMMA VerifiedStep ==
    ASSUME Confirmed, NEW r \in Request, NEW u \in User, NEW row \in Row,
           account' = [account EXCEPT ![u] = row], Answer(r),
           UNCHANGED <<late, mails, drawn, now, confirmed, excused>>,
           row.verified, row.email # NoEmail,
           u \in excused \/ row.email \in confirmed,
           row.token \in {account[u].token, NoToken}
    PROVE  Confirmed'
  <1>1. account'[u] = row /\ RowOK(u)
    BY DEF Confirmed, Typed, AccountsTypeOK
  <1>2. req' = [req EXCEPT ![r] = Idle] /\ req'[r] = Idle
    BY DEF Answer, Confirmed, Typed, AccountsTypeOK
  <1>3. KeepsAccount(u)
    BY <1>1 DEF KeepsAccount, Exists
  <1>4. LocalsOK(r)' /\ RequestOK(r)' /\ SentOK(r)'
    BY <1>2, IdleOK DEF LocalsOK, RequestOK, SentOK
  <1>5. RowOK(u)'
    BY <1>1 DEF RowOK, InLife, Sure, Exists
  <1> QED
    BY <1>2, <1>3, <1>4, <1>5, IdleOK, WriteStep

LEMMA MarkVerifiedStep ==
    ASSUME Confirmed, NEW r \in Request, MarkVerified(r)
    PROVE  Confirmed'
  <1>1. PICK u : u = req[r].user
    OBVIOUS
  <1>2. PICK row : row = [account[u] EXCEPT !.verified = TRUE]
    OBVIOUS
  <1>3. LocalsOK(r) /\ RequestOK(r)
    BY DEF Confirmed, Typed
  <1>4. u \in User /\ account[u].email # NoEmail
        /\ (u \in excused \/ account[u].email \in confirmed)
    BY <1>1, <1>3 DEF MarkVerified, LocalsOK, RequestOK, Sure, Exists
  <1>5. account[u] \in Row
    BY <1>4 DEF Confirmed, Typed, AccountsTypeOK
  <1>6. row \in Row /\ row.verified /\ row.email = account[u].email /\ row.token = account[u].token
    BY <1>2, <1>4, <1>5 DEF Row
  <1>7. /\ account' = [account EXCEPT ![u] = row] /\ Answer(r)
        /\ UNCHANGED <<late, mails, drawn, now, confirmed, excused>>
    BY <1>1, <1>2, <1>4, <1>5 DEF MarkVerified, Confirmed, Typed, AccountsTypeOK, Row
  <1> QED
    BY <1>4, <1>6, <1>7, AccountsNullAssumption, VerifiedStep

LEMMA LinkGoogleStep ==
    ASSUME Confirmed, NEW r \in Request, LinkGoogle(r)
    PROVE  Confirmed'
  <1>1. PICK u : u = req[r].user
    OBVIOUS
  <1>2. PICK row : row = [account[u] EXCEPT !.googleId = req[r].google, !.verified = TRUE]
    OBVIOUS
  <1>3. LocalsOK(r) /\ RequestOK(r)
    BY DEF Confirmed, Typed
  <1>4. u \in User /\ account[u].email # NoEmail /\ req[r].google \in Google
        /\ (u \in excused \/ account[u].email \in confirmed)
    BY <1>1, <1>3 DEF LinkGoogle, LocalsOK, RequestOK, Sure, Exists
  <1>5. account[u] \in Row
    BY <1>4 DEF Confirmed, Typed, AccountsTypeOK
  <1>6. row \in Row /\ row.verified /\ row.email = account[u].email /\ row.token = account[u].token
    BY <1>2, <1>4, <1>5 DEF Row
  <1>7. /\ account' = [account EXCEPT ![u] = row] /\ Answer(r)
        /\ UNCHANGED <<late, mails, drawn, now, confirmed, excused>>
    BY <1>1, <1>2, <1>4, <1>5 DEF LinkGoogle, Confirmed, Typed, AccountsTypeOK, Row
  <1> QED
    BY <1>4, <1>6, <1>7, AccountsNullAssumption, VerifiedStep

LEMMA ApplyChangeStep ==
    ASSUME Confirmed, NEW r \in Request, ApplyChange(r)
    PROVE  Confirmed'
  <1>1. PICK u : u = req[r].user
    OBVIOUS
  <1>2. PICK row : row = [email |-> req[r].to, googleId |-> NoGoogle,
                           verified |-> TRUE, token |-> NoToken]
    OBVIOUS
  <1>3. LocalsOK(r) /\ RequestOK(r)
    BY DEF Confirmed, Typed
  <1>4. u \in User /\ req[r].to \in Email /\ (u \in excused \/ req[r].to \in confirmed)
    BY <1>1, <1>3 DEF ApplyChange, LocalsOK, RequestOK, Sure, Exists
  <1>5. account[u] \in Row
    BY <1>4 DEF Confirmed, Typed, AccountsTypeOK
  <1>6. row \in Row /\ row.verified /\ row.email = req[r].to /\ row.token = NoToken
    BY <1>2, <1>4, <1>5 DEF Row
  <1>7. /\ account' = [account EXCEPT ![u] = row] /\ Answer(r)
        /\ UNCHANGED <<late, mails, drawn, now, confirmed, excused>>
    BY <1>1, <1>2, <1>4, <1>5 DEF ApplyChange, Confirmed, Typed, AccountsTypeOK, Row
  <1> QED
    BY <1>4, <1>6, <1>7, AccountsNullAssumption, VerifiedStep

LEMMA CreateFromGoogleStep ==
    ASSUME Confirmed, NEW r \in Request, NEW v \in User, CreateFromGoogle(r, v)
    PROVE  Confirmed'
  <1>1. PICK u : u = v
    OBVIOUS
  <1>2. PICK row : row = [email |-> req[r].to, googleId |-> req[r].google,
                           verified |-> TRUE, token |-> NoToken]
    OBVIOUS
  <1>3. LocalsOK(r) /\ RequestOK(r)
    BY DEF Confirmed, Typed
  <1>4. u \in User /\ req[r].to \in Email /\ req[r].to \in confirmed /\ req[r].google \in Google
    BY <1>1, <1>3 DEF CreateFromGoogle, LocalsOK, RequestOK, Sure, Exists
  <1>5. account[u] \in Row
    BY <1>4 DEF Confirmed, Typed, AccountsTypeOK
  <1>6. row \in Row /\ row.verified /\ row.email = req[r].to /\ row.token = NoToken
    BY <1>2, <1>4, <1>5 DEF Row
  <1>7. /\ account' = [account EXCEPT ![u] = row] /\ Answer(r)
        /\ UNCHANGED <<late, mails, drawn, now, confirmed, excused>>
    BY <1>1, <1>2, <1>4, <1>5 DEF CreateFromGoogle, Confirmed, Typed, AccountsTypeOK, Row
  <1> QED
    BY <1>4, <1>6, <1>7, AccountsNullAssumption, VerifiedStep

LEMMA UsersExist ==
    ASSUME Typed, req' = req, \A v \in User : Exists(v) => Exists(v)',
           NEW q \in Request, req[q].user # NoUser
    PROVE  Exists(req[q].user)'
  <1>1. req[q].user \in User /\ Exists(req[q].user)
    BY DEF Typed, AccountsTypeOK, Locals
  <1> QED
    BY <1>1 DEF Exists

LEMMA LateWriteStep ==
    ASSUME Confirmed, NEW r \in Request, LateWrite(r)
    PROVE  Confirmed'
  <1>1. PICK w : w = late[r]
    OBVIOUS
  <1>2. PICK row : row = [account[w.user] EXCEPT !.token = w.token]
    OBVIOUS
  <1>3. /\ w \in [user : User, token : Token, stored : BOOLEAN]
        /\ w.token.purpose = "change" /\ InLife(w.token)
    BY <1>1 DEF LateWrite, LateOK, Confirmed, Typed, AccountsTypeOK
  <1>4. account[w.user] \in Row /\ RowOK(w.user)
    BY <1>3 DEF Confirmed, Typed, AccountsTypeOK
  <1>5. /\ row \in Row /\ row.email = account[w.user].email
        /\ row.verified = account[w.user].verified /\ row.token = w.token
    BY <1>2, <1>3, <1>4 DEF Row
  <1>6. /\ account' = [account EXCEPT ![w.user] = row]
        /\ late' = [late EXCEPT ![r].stored = TRUE]
        /\ UNCHANGED <<req, mails, drawn, now, confirmed, excused>>
    BY <1>1, <1>2 DEF LateWrite
  <1>7. /\ account' \in [User -> Row] /\ account'[w.user] = row
        /\ \A v \in User \ {w.user} : account'[v] = account[v]
    BY <1>3, <1>5, <1>6 DEF Confirmed, Typed, AccountsTypeOK
  <1>8. Monotonic /\ \A v \in User : Exists(v) => Exists(v)'
    BY <1>5, <1>6, <1>7 DEF Monotonic, KeepsAccount, Exists
  <1>9. PICK stored : stored = [w EXCEPT !.stored = TRUE]
    OBVIOUS
  <1>10. /\ stored \in [user : User, token : Token, stored : BOOLEAN]
         /\ stored.token = w.token
    BY <1>3, <1>9
  <1>11. /\ late' \in [Request -> [user : User, token : Token, stored : BOOLEAN] \cup {NoWrite}]
         /\ late'[r] = stored
         /\ \A q \in Request \ {r} : req'[q] = req[q] /\ late'[q] = late[q]
    BY <1>1, <1>6, <1>9, <1>10 DEF Confirmed, Typed, AccountsTypeOK
  <1>12. \A q \in Request : req[q].user # NoUser => Exists(req[q].user)'
    BY <1>6, <1>8, UsersExist DEF Confirmed
  <1>13. AccountsTypeOK'
    BY <1>6, <1>7, <1>11, <1>12 DEF Confirmed, Typed, AccountsTypeOK, Exists
  <1>14. LocalsOK(r)' /\ RequestOK(r)' /\ SentOK(r)'
    <2>1. LocalsOK(r) /\ RequestOK(r) /\ SentOK(r) /\ req'[r] = req[r]
      BY <1>6 DEF Confirmed, Typed
    <2> QED
      BY <1>6, <1>8, <2>1, Kept DEF SentOK, InLife
  <1>15. LateOK(r)'
    BY <1>3, <1>6, <1>10, <1>11 DEF LateOK, InLife
  <1>16. RowOK(w.user)'
    BY <1>3, <1>4, <1>5, <1>6, <1>7 DEF RowOK, InLife, Sure, Exists
  <1> QED
    BY <1>6, <1>7, <1>8, <1>11, <1>13, <1>14, <1>15, <1>16, OneRequest

\* A step outside every request.
LEMMA NoRequestStep ==
    ASSUME Confirmed, Monotonic, AccountsTypeOK', UNCHANGED <<req, late, mails>>,
           \A u \in User : account'[u] = account[u] \/ RowOK(u)'
    PROVE  Confirmed'
  <1>1. ASSUME NEW q \in Request
        PROVE  LocalsOK(q)' /\ RequestOK(q)' /\ LateOK(q)' /\ SentOK(q)'
    <2>1. LocalsOK(q) /\ RequestOK(q) /\ LateOK(q) /\ SentOK(q)
      BY DEF Confirmed, Typed
    <2>2. LocalsOK(q)' /\ RequestOK(q)'
      BY <2>1, Kept
    <2>3. /\ now \in Nat
          /\ late[q] \in [user : User, token : Token, stored : BOOLEAN] \cup {NoWrite}
      BY DEF Confirmed, Typed, AccountsTypeOK
    <2>4. LateOK(q)'
      BY <2>1, <2>3, KeptLife DEF LateOK, InLife
    <2>5. SentOK(q)'
      BY <2>1, <2>3, KeptLife DEF SentOK, LocalsOK, InLife
    <2> QED
      BY <2>2, <2>4, <2>5
  <1>2. ASSUME NEW m \in mails'  PROVE MailOK(m)'
    BY KeptMail DEF Confirmed
  <1>3. ASSUME NEW u \in User  PROVE RowOK(u)'
    BY KeptRow DEF Confirmed
  <1> QED
    BY <1>1, <1>2, <1>3 DEF Confirmed, Typed

LEMMA UpdateProfileStep ==
    ASSUME Confirmed, NEW u \in User, NEW e \in ProfileEmail, UpdateProfile(u, e)
    PROVE  Confirmed'
  <1>1. PICK row : row = [account[u] EXCEPT !.email = e]
    OBVIOUS
  <1>2. account[u] \in Row /\ RowOK(u) /\ e \in Email /\ e # NoEmail
    BY AccountsAssumption, AccountsNullAssumption DEF Confirmed, Typed, AccountsTypeOK
  <1>3. row \in Row /\ row.email = e /\ row.token = account[u].token
    BY <1>1, <1>2 DEF Row
  <1>4. /\ account' = [account EXCEPT ![u] = row] /\ excused' = excused \cup {u}
        /\ UNCHANGED <<req, late, mails, drawn, now, confirmed>>
    BY <1>1 DEF UpdateProfile
  <1>5. /\ account' \in [User -> Row] /\ account'[u] = row
        /\ \A v \in User \ {u} : account'[v] = account[v]
    BY <1>3, <1>4 DEF Confirmed, Typed, AccountsTypeOK
  <1>6. Monotonic /\ \A v \in User : Exists(v) => Exists(v)'
    BY <1>2, <1>3, <1>4, <1>5 DEF Monotonic, KeepsAccount, Exists
  <1>7. \A q \in Request : req[q].user # NoUser => Exists(req[q].user)'
    BY <1>4, <1>6, UsersExist DEF Confirmed
  <1>8. AccountsTypeOK'
    BY <1>4, <1>5, <1>7 DEF Confirmed, Typed, AccountsTypeOK, Exists
  <1>9. RowOK(u)'
    BY <1>2, <1>3, <1>4, <1>5 DEF RowOK, InLife, Sure, Exists
  <1> QED
    BY <1>4, <1>5, <1>6, <1>8, <1>9, NoRequestStep

LEMMA TickStep ==
    ASSUME Confirmed, Tick
    PROVE  Confirmed'
  <1>1. Monotonic
    BY DEF Tick, Monotonic, KeepsAccount, Exists
  <1>2. now' \in 0 .. MaxTime
    BY AccountsAssumption DEF Tick, Confirmed, Typed, AccountsTypeOK
  <1>3. AccountsTypeOK'
    BY <1>2 DEF Tick, Confirmed, Typed, AccountsTypeOK, Exists
  <1> QED
    BY <1>1, <1>3, NoRequestStep DEF Tick

LEMMA RestartStep ==
    ASSUME Confirmed, Restart
    PROVE  Confirmed'
  <1>1. \A r \in Request : req'[r] = Idle /\ late'[r] = NoWrite
    BY DEF Restart
  <1>2. AccountsTypeOK'
    BY <1>1, IdleOK DEF Restart, Confirmed, Typed, AccountsTypeOK, Exists
  <1>3. ASSUME NEW r \in Request
        PROVE  LocalsOK(r)' /\ RequestOK(r)' /\ LateOK(r)' /\ SentOK(r)'
    BY <1>1, IdleOK DEF LocalsOK, RequestOK, LateOK, SentOK
  <1>4. ASSUME NEW m \in mails'  PROVE MailOK(m)'
    BY DEF Restart, Confirmed, MailOK, GoesTo, Exists
  <1>5. ASSUME NEW u \in User  PROVE RowOK(u)'
    BY DEF Restart, Confirmed, RowOK, Sure, Exists, InLife
  <1> QED
    BY <1>2, <1>3, <1>4, <1>5 DEF Confirmed, Typed

LEMMA StutterStep ==
    ASSUME Confirmed, UNCHANGED vars
    PROVE  Confirmed'
  <1>1. AccountsTypeOK'
    BY DEF vars, Confirmed, Typed, AccountsTypeOK, Exists
  <1>2. Monotonic
    BY SameAccounts DEF vars
  <1> QED
    BY <1>1, <1>2, NoRequestStep DEF vars

LEMMA ConfirmedInit == Init => Confirmed
  <1> SUFFICES ASSUME Init PROVE Confirmed
    OBVIOUS
  <1>1. \A r \in Request : req[r] = Idle /\ late[r] = NoWrite
    BY DEF Init
  <1>2. \A u \in User : account[u] = [email |-> NoEmail, googleId |-> NoGoogle,
                                      verified |-> FALSE, token |-> NoToken]
    BY DEF Init
  <1>3. account \in [User -> Row]
    BY DEF Init, Row
  <1>4. AccountsTypeOK
    <2>1. req \in [Request -> Locals]
      BY IdleOK DEF Init
    <2>2. \A r \in Request : req[r].user = NoUser
      BY <1>1, IdleOK
    <2>3. late \in [Request -> [user : User, token : Token, stored : BOOLEAN] \cup {NoWrite}]
      BY DEF Init
    <2>4. drawn \in 0 .. MaxCodes /\ now \in 0 .. MaxTime
      BY AccountsAssumption DEF Init
    <2>5. mails = {} /\ confirmed = {} /\ excused = {}
      BY DEF Init
    <2> QED
      BY <1>3, <2>1, <2>2, <2>3, <2>4, <2>5 DEF AccountsTypeOK
  <1>5. \A r \in Request : LocalsOK(r) /\ RequestOK(r) /\ LateOK(r) /\ SentOK(r)
    BY <1>1, IdleOK DEF LocalsOK, RequestOK, LateOK, SentOK
  <1>6. \A u \in User : RowOK(u)
    BY <1>2 DEF RowOK
  <1>7. \A m \in mails : MailOK(m)
    BY DEF Init
  <1> QED
    BY <1>4, <1>5, <1>6, <1>7 DEF Confirmed, Typed

LEMMA ConfirmedStep == Confirmed /\ [Next]_vars => Confirmed'
  <1> SUFFICES ASSUME Confirmed, [Next]_vars PROVE Confirmed'
    OBVIOUS
  <1>1. ASSUME NEW r \in Request, Begin(r)  PROVE Confirmed'
    BY <1>1, OpenLinkStep, GoogleSignInStep, ResendStep, RightCodeStep, WrongCodeStep,
       SignUpStep, RequestChangeStep
       DEF Begin
  <1>2. ASSUME NEW r \in Request, Continue(r)  PROVE Confirmed'
    <2>1. CASE MailFails(r) \/ GoogleConflict(r) \/ Taken(r) \/ ChangeConflict(r)
      BY <2>1, AnsweredStep DEF MailFails, GoogleConflict, Taken, ChangeConflict
    <2>2. CASE LateRejection(r)
      BY <2>2, RestartStep DEF LateRejection
    <2> QED
      BY <1>2, <2>1, <2>2, StoreTokenStep, SendMailStep, MarkVerifiedStep, FindByEmailStep,
         LinkGoogleStep, CreateFromGoogleStep, DrawCodeStep, StillFreeStep,
         ApplyChangeStep, LateWriteStep
         DEF Continue
  <1> QED
    BY <1>1, <1>2, UpdateProfileStep, TickStep, RestartStep, StutterStep DEF Next, Crash

-----------------------------------------------------------------------------
(* Theorems.                                                               *)

\* Rows, requests and mails are typed, and whatever request is under way has an
\* existing account in hand between the awaits of its service function.
THEOREM AccountsTypeCorrect == Spec => []AccountsTypeOK
  <1>1. Confirmed => AccountsTypeOK
    BY DEF Confirmed, Typed
  <1> QED
    BY <1>1, ConfirmedInit, ConfirmedStep, PTL DEF Spec

\* However many wrong codes and late UPDATEs interleave, a stored code has had at
\* most MAX_VERIFICATION_ATTEMPTS counted attempts and expires within 15 minutes
\* of its request.
THEOREM CodesBounded == Spec => []CodeBounded
  <1>1. Confirmed => CodeBounded
    <2> SUFFICES ASSUME Confirmed, NEW u \in User, account[u].token # NoToken,
                        account[u].token.purpose = "change"
                 PROVE  /\ account[u].token.attempts <= MaxAttempts
                        /\ account[u].token.exp <= account[u].token.iat + CodeLife
      BY DEF CodeBounded
    <2>1. account[u].token \in Token /\ RowOK(u)
      BY DEF Confirmed, Typed, AccountsTypeOK, Row
    <2>2. account[u].token.attempts \in 0 .. MaxAttempts
      BY <2>1 DEF Token, TokenOf
    <2> QED
      BY <2>1, <2>2, AccountsAssumption DEF RowOK, InLife
  <1> QED
    BY <1>1, ConfirmedInit, ConfirmedStep, PTL DEF Spec

\* A verified account's address was confirmed by its owner's answer to a mail or by
\* Google, unless a wrong code was typed for the account or the profile set its
\* address: no interleaving of resends, changes and sign-ins breaks this.
THEOREM AddressesConfirmed == Spec => []ConfirmedAddresses
  <1>1. Confirmed => ConfirmedAddresses
    BY DEF Confirmed, RowOK, Sure, ConfirmedAddresses
  <1> QED
    BY <1>1, ConfirmedInit, ConfirmedStep, PTL DEF Spec

=============================================================================
