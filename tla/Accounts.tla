------------------------------- MODULE Accounts -------------------------------
(***************************************************************************)
(* Who an account belongs to: the columns email, google_id, email_verified *)
(* and email_verification_token of users, and the requests that change     *)
(* them: sign-up, Google sign-in, the link of the verification e-mail, a   *)
(* profile update, and the e-mail change with its six-digit code.          *)
(*                                                                         *)
(* Every request is cut at its awaits, as in Billing.  One column holds     *)
(* the sign-up verification and the pending e-mail change, so each          *)
(* overwrites the other; verifyEmailChange does not await the function      *)
(* that compares the code, so the answer to a wrong code runs beside the    *)
(* request it was to stop.                                                 *)
(***************************************************************************)
EXTENDS Naturals, FiniteSets

CONSTANTS
    User,               \* ids of accounts, present and future
    Email, Google,      \* addresses, Google identities
    GoogleEmail,        \* the address of each Google identity
    Request,            \* slots for requests
    MaxTime,            \* bound on the clock, in seconds
    MaxCodes,           \* bound on the codes drawn
    MaxMails,           \* bound on the mails sent
    ProfileEmail,       \* addresses that API clients set with the profile
    CodeLife, LinkLife, \* '15m' and '30m'
    MaxAttempts,        \* MAX_VERIFICATION_ATTEMPTS
    NoEmail, NoGoogle, NoUser, NoToken, NoWrite

ASSUME AccountsAssumption ==
    /\ MaxTime \in Nat /\ MaxCodes \in Nat /\ MaxMails \in Nat
    /\ CodeLife \in Nat \ {0} /\ LinkLife \in Nat \ {0} /\ MaxAttempts \in Nat \ {0}
    /\ ProfileEmail \subseteq Email
    /\ GoogleEmail \in [Google -> Email]

\* The payload of a token.  Codes are numbered as they are drawn: that two
\* requests draw the same six digits is left out.
TokenOf(purpose, address) ==
    [purpose : {purpose}, user : User, newEmail : address, code : 0 .. MaxCodes,
     attempts : 0 .. MaxAttempts, iat : 0 .. MaxTime, exp : Nat]

Token == TokenOf("change", Email) \cup TokenOf("link", {NoEmail})

ASSUME AccountsNullAssumption ==
    /\ NoEmail \notin Email /\ NoGoogle \notin Google /\ NoUser \notin User
    /\ NoToken \notin Token
    /\ NoWrite \notin [user : User, token : Token, stored : BOOLEAN]

VARIABLES
    account,    \* the rows of users; one with NoEmail is yet to be inserted
    req,        \* the requests
    late,       \* the un-awaited UPDATE that a wrong code leaves behind
    mails,      \* the mails sent
    drawn,      \* how many codes have been drawn
    now,
    \* History, for ConfirmedAddresses.
    confirmed,  \* addresses whose owner answered a mail or came from Google
    excused     \* accounts with a wrong code or an e-mail set by profile

vars == <<account, req, late, mails, drawn, now, confirmed, excused>>

Row == [email : Email \cup {NoEmail},
        googleId : Google \cup {NoGoogle},
        verified : BOOLEAN,
        token : Token \cup {NoToken}]

\* Each name is what the request does next.
PC == {"idle", "available", "store", "mail", "check", "apply", "verify",
       "byEmail", "link", "create"}

Locals == [pc : PC,
           user : User \cup {NoUser},
           google : Google \cup {NoGoogle},
           to : Email \cup {NoEmail},
           token : Token \cup {NoToken}]

Idle == [pc |-> "idle", user |-> NoUser, google |-> NoGoogle, to |-> NoEmail,
         token |-> NoToken]

Exists(u) == account[u].email # NoEmail

\* The unique indexes of users.
EmailFree(e, u) == \A v \in User \ {u} : account[v].email # e
GoogleFree(g, u) == \A v \in User \ {u} : account[v].googleId # g

LinkToken(u) == [purpose |-> "link", user |-> u, newEmail |-> NoEmail, code |-> 0,
                 attempts |-> 0, iat |-> now, exp |-> now + LinkLife]

ChangeToken(u, e) == [purpose |-> "change", user |-> u, newEmail |-> e,
                      code |-> drawn + 1, attempts |-> 0,
                      iat |-> now, exp |-> now + CodeLife]

Init ==
    /\ account = [u \in User |-> [email |-> NoEmail, googleId |-> NoGoogle,
                                  verified |-> FALSE, token |-> NoToken]]
    /\ req = [r \in Request |-> Idle]
    /\ late = [r \in Request |-> NoWrite]
    /\ mails = {} /\ drawn = 0 /\ now = 0
    /\ confirmed = {} /\ excused = {}

Tick ==
    /\ now < MaxTime
    /\ now' = now + 1
    /\ UNCHANGED <<account, req, late, mails, drawn, confirmed, excused>>

FreeSlot(r) == req[r] = Idle /\ late[r] = NoWrite

Answer(r) == req' = [req EXCEPT ![r] = Idle]

Answered(r) ==
    /\ Answer(r)
    /\ UNCHANGED <<account, late, mails, drawn, now, confirmed, excused>>

(***************************************************************************)
(* Sign-up and the verification e-mail.                                    *)
(***************************************************************************)
\* The unique index is the only check of the address.
SignUp(r, u, e) ==
    /\ FreeSlot(r) /\ ~Exists(u) /\ EmailFree(e, u)
    /\ account' = [account EXCEPT ![u].email = e]
    /\ req' = [req EXCEPT ![r] = [Idle EXCEPT !.pc = "store", !.user = u, !.to = e,
                                              !.token = LinkToken(u)]]
    /\ UNCHANGED <<late, mails, drawn, now, confirmed, excused>>

Resend(r, u) ==
    /\ FreeSlot(r) /\ Exists(u) /\ ~account[u].verified
    /\ req' = [req EXCEPT ![r] = [Idle EXCEPT !.pc = "store", !.user = u,
                                              !.to = account[u].email,
                                              !.token = LinkToken(u)]]
    /\ UNCHANGED <<account, late, mails, drawn, now, confirmed, excused>>

\* Mutant: the new address is written when it is asked for.
StoreTokenAndEmail(r) ==
    /\ req[r].pc = "store"
    /\ account' = [account EXCEPT ![req[r].user].token = req[r].token,
                                  ![req[r].user].email = req[r].to]
    /\ req' = [req EXCEPT ![r].pc = "mail"]
    /\ UNCHANGED <<late, mails, drawn, now, confirmed, excused>>

\* The UPDATE of the column, for sign-up, resend and e-mail change.
StoreToken(r) ==
    /\ req[r].pc = "store"
    /\ account' = [account EXCEPT ![req[r].user].token = req[r].token]
    /\ req' = [req EXCEPT ![r].pc = "mail"]
    /\ UNCHANGED <<late, mails, drawn, now, confirmed, excused>>

SendMail(r) ==
    /\ req[r].pc = "mail" /\ Cardinality(mails) < MaxMails
    /\ mails' = mails \cup {[to |-> req[r].to, token |-> req[r].token]}
    /\ Answer(r)
    /\ UNCHANGED <<account, late, drawn, now, confirmed, excused>>

\* Whatever the caller makes of the error, nothing else changes.
MailFails(r) == req[r].pc = "mail" /\ Answered(r)

\* The owner of the address opens the link of mail m.
OpenLink(r, m) ==
    /\ FreeSlot(r)
    /\ m.token.purpose = "link" /\ now < m.token.exp
    /\ Exists(m.token.user)
    /\ account[m.token.user].token = m.token
    /\ ~account[m.token.user].verified
    /\ req' = [req EXCEPT ![r] = [Idle EXCEPT !.pc = "verify", !.user = m.token.user]]
    /\ confirmed' = confirmed \cup {m.to}
    /\ UNCHANGED <<account, late, mails, drawn, now, excused>>

\* emailVerificationToken: undefined is dropped: the column keeps its token.
MarkVerified(r) ==
    /\ req[r].pc = "verify"
    /\ account' = [account EXCEPT ![req[r].user].verified = TRUE]
    /\ Answer(r)
    /\ UNCHANGED <<late, mails, drawn, now, confirmed, excused>>

(***************************************************************************)
(* Google sign-in, up to the tokens.                                       *)
(***************************************************************************)
\* Somebody found by the identity signs in, which changes nothing here.
GoogleSignIn(r, g) ==
    /\ FreeSlot(r) /\ \A u \in User : account[u].googleId # g
    /\ req' = [req EXCEPT ![r] = [Idle EXCEPT !.pc = "byEmail", !.google = g,
                                              !.to = GoogleEmail[g]]]
    /\ confirmed' = confirmed \cup {GoogleEmail[g]}
    /\ UNCHANGED <<account, late, mails, drawn, now, excused>>

FindByEmail(r) ==
    /\ req[r].pc = "byEmail"
    /\ \/ \E u \in User :
            /\ account[u].email = req[r].to
            /\ req' = [req EXCEPT ![r].pc = "link", ![r].user = u]
       \/ /\ \A u \in User : account[u].email # req[r].to
          /\ req' = [req EXCEPT ![r].pc = "create"]
    /\ UNCHANGED <<account, late, mails, drawn, now, confirmed, excused>>

LinkGoogle(r) ==
    /\ req[r].pc = "link" /\ GoogleFree(req[r].google, req[r].user)
    /\ account' = [account EXCEPT ![req[r].user].googleId = req[r].google,
                                  ![req[r].user].verified = TRUE]
    /\ Answer(r)
    /\ UNCHANGED <<late, mails, drawn, now, confirmed, excused>>

CreateFromGoogle(r, u) ==
    /\ req[r].pc = "create" /\ ~Exists(u)
    /\ EmailFree(req[r].to, u) /\ GoogleFree(req[r].google, u)
    /\ account' = [account EXCEPT ![u] = [email |-> req[r].to, googleId |-> req[r].google,
                                          verified |-> TRUE, token |-> NoToken]]
    /\ Answer(r)
    /\ UNCHANGED <<late, mails, drawn, now, confirmed, excused>>

\* Another sign-in of the same person came first: the index refuses.
GoogleConflict(r) ==
    /\ \/ req[r].pc = "link" /\ ~GoogleFree(req[r].google, req[r].user)
       \/ req[r].pc = "create" /\ ~(EmailFree(req[r].to, NoUser)
                                    /\ GoogleFree(req[r].google, NoUser))
    /\ Answered(r)

(***************************************************************************)
(* E-mail change.                                                          *)
(***************************************************************************)
RequestChange(r, u, e) ==
    /\ FreeSlot(r) /\ Exists(u) /\ account[u].email # e
    /\ req' = [req EXCEPT ![r] = [Idle EXCEPT !.pc = "available", !.user = u, !.to = e]]
    /\ UNCHANGED <<account, late, mails, drawn, now, confirmed, excused>>

\* The cooldown is no guard: its error is thrown into the catch around it.
DrawCode(r) ==
    /\ req[r].pc = "available" /\ drawn < MaxCodes
    /\ EmailFree(req[r].to, NoUser)
    /\ req' = [req EXCEPT ![r].pc = "store",
                          ![r].token = ChangeToken(req[r].user, req[r].to)]
    /\ drawn' = drawn + 1
    /\ UNCHANGED <<account, late, mails, now, confirmed, excused>>

Taken(r) == req[r].pc = "available" /\ ~EmailFree(req[r].to, NoUser) /\ Answered(r)

\* Mutant: the last attempt is allowed twice.
PendingOnceMore(t) ==
    /\ t # NoToken
    /\ now < t.exp
    /\ t.purpose = "change"
    /\ t.attempts <= MaxAttempts

\* What verifyEmailChange asks of the token before it looks at the code.
Pending(t) ==
    /\ t # NoToken
    /\ now < t.exp
    /\ t.purpose = "change"
    /\ t.attempts < MaxAttempts

\* Mutant: the token is signed again with its full life.
CountedAnew(t) == [t EXCEPT !.attempts = t.attempts + 1, !.exp = now + CodeLife]

\* The token that a wrong code leaves: one more attempt, signed with the iat
\* of the old one, to which jwt.sign adds the seconds that remain.
Counted(t) ==
    LET remaining == IF t.exp - now > 1 THEN t.exp - now ELSE 1
    IN  [t EXCEPT !.attempts = t.attempts + 1, !.exp = t.iat + remaining]

Check(r, u) ==
    /\ FreeSlot(r) /\ Exists(u) /\ Pending(account[u].token)
    /\ req' = [req EXCEPT ![r] = [Idle EXCEPT !.pc = "check", !.user = u,
                                              !.to = account[u].token.newEmail]]
    /\ UNCHANGED <<account, mails, drawn, now>>

\* Whoever types the right code has read it in the mail.
RightCode(r, u) ==
    /\ Check(r, u)
    /\ \E m \in mails : m.token.purpose = "change" /\ m.token.code = account[u].token.code
    /\ confirmed' = confirmed \cup {account[u].token.newEmail}
    /\ UNCHANGED <<late, excused>>

WrongCode(r, u) ==
    /\ Check(r, u)
    /\ late' = [late EXCEPT ![r] = [user |-> u, token |-> Counted(account[u].token),
                                    stored |-> FALSE]]
    /\ excused' = excused \cup {u}
    /\ UNCHANGED confirmed

StillFree(r) ==
    /\ req[r].pc = "check" /\ EmailFree(req[r].to, req[r].user)
    /\ req' = [req EXCEPT ![r].pc = "apply"]
    /\ UNCHANGED <<account, late, mails, drawn, now, confirmed, excused>>

ApplyChange(r) ==
    /\ req[r].pc = "apply" /\ EmailFree(req[r].to, req[r].user)
    /\ account' = [account EXCEPT ![req[r].user] =
                     [email |-> req[r].to, googleId |-> NoGoogle,
                      verified |-> TRUE, token |-> NoToken]]
    /\ Answer(r)
    /\ UNCHANGED <<late, mails, drawn, now, confirmed, excused>>

\* Refused by the SELECT, or after it by the index.
ChangeConflict(r) ==
    /\ req[r].pc \in {"check", "apply"}
    /\ ~EmailFree(req[r].to, req[r].user)
    /\ Answered(r)

(***************************************************************************)
(* The UPDATE that nobody awaits, and the rejection after it, which nobody *)
(* catches: the process ends and every request of it is lost.              *)
(***************************************************************************)
LateWrite(r) ==
    /\ late[r] # NoWrite /\ ~late[r].stored
    /\ account' = [account EXCEPT ![late[r].user].token = late[r].token]
    /\ late' = [late EXCEPT ![r].stored = TRUE]
    /\ UNCHANGED <<req, mails, drawn, now, confirmed, excused>>

Restart ==
    /\ req' = [r \in Request |-> Idle]
    /\ late' = [r \in Request |-> NoWrite]
    /\ UNCHANGED <<account, mails, drawn, now, confirmed, excused>>

\* Also when the late UPDATE itself fails, and for any other reason.
Crash == Restart

LateRejection(r) == late[r] # NoWrite /\ late[r].stored /\ Restart

\* user.updateUserById takes an e-mail and keeps email_verified; the pages of
\* the front-end do not send one.
UpdateProfile(u, e) ==
    /\ Exists(u) /\ EmailFree(e, u)
    /\ account' = [account EXCEPT ![u].email = e]
    /\ excused' = excused \cup {u}
    /\ UNCHANGED <<req, late, mails, drawn, now, confirmed>>

Begin(r) ==
    \/ \E m \in mails : OpenLink(r, m)
    \/ \E g \in Google : GoogleSignIn(r, g)
    \/ \E u \in User : \/ Resend(r, u) \/ RightCode(r, u) \/ WrongCode(r, u)
                       \/ \E e \in Email : SignUp(r, u, e) \/ RequestChange(r, u, e)

Continue(r) ==
    \/ StoreToken(r) \/ SendMail(r) \/ MailFails(r) \/ MarkVerified(r)
    \/ FindByEmail(r) \/ LinkGoogle(r) \/ GoogleConflict(r)
    \/ \E u \in User : CreateFromGoogle(r, u)
    \/ DrawCode(r) \/ Taken(r) \/ StillFree(r) \/ ApplyChange(r) \/ ChangeConflict(r)
    \/ LateWrite(r) \/ LateRejection(r)

Next ==
    \/ \E r \in Request : Begin(r) \/ Continue(r)
    \/ \E u \in User, e \in ProfileEmail : UpdateProfile(u, e)
    \/ Tick
    \/ Crash

Spec == Init /\ [][Next]_vars

-----------------------------------------------------------------------------
(***************************************************************************)
(* Properties.                                                             *)
(***************************************************************************)
\* Rows, requests and mails are typed, and a request between two awaits of
\* auth.service.ts or email.service.ts has an existing account in hand.
AccountsTypeOK ==
    /\ account \in [User -> Row]
    /\ req \in [Request -> Locals]
    /\ late \in [Request -> [user : User, token : Token, stored : BOOLEAN] \cup {NoWrite}]
    /\ mails \subseteq [to : Email, token : Token]
    /\ drawn \in 0 .. MaxCodes /\ now \in 0 .. MaxTime
    /\ confirmed \subseteq Email /\ excused \subseteq User
    /\ \A r \in Request : req[r].user # NoUser => Exists(req[r].user)

\* However wrong codes and their un-awaited UPDATEs interleave, a code never
\* gets more than MAX_VERIFICATION_ATTEMPTS counted attempts nor a life beyond
\* the 15 minutes from its request (verifyEmailChangeCode signs it again).
CodeBounded ==
    \A u \in User :
        LET t == account[u].token
        IN  t # NoToken /\ t.purpose = "change" =>
                /\ t.attempts <= MaxAttempts
                /\ t.exp <= t.iat + CodeLife

\* The address of a verified account has been confirmed: somebody read a mail
\* sent to it or Google vouched for it, whatever resends, e-mail changes and
\* Google sign-ins were under way together.  Accounts are excused for which a
\* wrong code was typed, or whose e-mail was set with the profile.
ConfirmedAddresses ==
    \A u \in User \ excused :
        account[u].verified => account[u].email \in confirmed

\* email.service.ts:160 "Code is valid - check email still available": a
\* request with a wrong code does not get from there to its UPDATE.
WrongCodeRefused ==
    \A r \in Request : late[r] # NoWrite => req[r].pc # "apply"
=============================================================================
