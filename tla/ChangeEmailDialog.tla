-------------------------- MODULE ChangeEmailDialog --------------------------
(***************************************************************************)
(* The dialog that changes the e-mail of the profile page, with the timer  *)
(* that allows another code and the server's two procedures behind it.     *)
(*                                                                         *)
(* The dialog stays mounted: closing it resets its state but neither stops *)
(* its requests nor the timeout that closes it after a success, and what   *)
(* they do when they come is done to whatever the dialog shows by then.    *)
(* Its buttons are disabled while it loads, but Escape is not.             *)
(*                                                                         *)
(* A procedure of the server is one step here: Accounts takes them apart.  *)
(***************************************************************************)
EXTENDS ReactQuery

CONSTANTS
    Email, NoEmail,
    Name,               \* what else a profile holds
    NoProfile,
    InitialSeconds,     \* of the timer
    MaxTimeouts         \* bound on the successes waiting for their setTimeout

ASSUME DialogAssumption ==
    /\ InitialSeconds \in Nat \ {0} /\ MaxTimeouts \in Nat
    /\ NoEmail \notin Email

VARIABLES
    row,        \* the user's row: e-mail, email_verified and the rest
    pending,    \* the address of the token in email_verification_token
    dialog,
    timeouts,   \* successes whose setTimeout has not come yet
    dismissed   \* the dialog was closed over something still under way

dialogVars == <<row, pending, dialog, timeouts, dismissed>>

Profile == [email : Email, name : Name, verified : BOOLEAN]

\* useState and useResendTimer; code: six digits are typed.
Dialog == [open : BOOLEAN,
           newEmail : Email \cup {NoEmail},
           code : BOOLEAN,
           isLoading : BOOLEAN,
           showCodeInput : BOOLEAN,
           showSuccess : BOOLEAN,
           secondsRemaining : 0 .. InitialSeconds,
           canResend : BOOLEAN]

\* resetDialog.
Reset(open) ==
    [open |-> open, newEmail |-> NoEmail, code |-> FALSE, isLoading |-> FALSE,
     showCodeInput |-> FALSE, showSuccess |-> FALSE,
     secondsRemaining |-> InitialSeconds, canResend |-> FALSE]

DialogInit ==
    /\ row \in Profile
    /\ pending \in {NoEmail} \cup Email
    /\ dialog = Reset(FALSE)
    /\ timeouts = 0
    /\ dismissed = FALSE

-----------------------------------------------------------------------------
(* The server.                                                             *)

\* requestEmailChange.  The mail may fail after the token is stored.
ServeRequest(c) ==
    /\ Arrives(c, "request") \/ Arrives(c, "resend")
    /\ call[c].arg \in Email /\ call[c].arg # row.email
    /\ pending' = call[c].arg
    /\ Respond(c, NoProfile)
    /\ UNCHANGED <<row, dialog, timeouts, dismissed>>

\* verifyEmailChange.  A wrong code changes the address like a right one, but
\* puts the token back.
ServeVerify(c) ==
    /\ Arrives(c, "verify")
    /\ pending # NoEmail
    /\ row' = [row EXCEPT !.email = pending, !.verified = TRUE]
    /\ pending' \in {NoEmail, pending}
    /\ Respond(c, NoProfile)
    /\ UNCHANGED <<dialog, timeouts, dismissed>>

\* Refused (the address is taken or one's own, the code has expired or had
\* its attempts, nothing is pending), or lost before it came.
Unserved(c) ==
    /\ ~ Idle(c) /\ call[c].stage = "sent"
    /\ Fail(c)
    /\ UNCHANGED dialogVars

-----------------------------------------------------------------------------
(* What is on the screen decides what can be done.                         *)

AddressForm == dialog.open /\ ~ dialog.showSuccess /\ ~ dialog.showCodeInput
CodeForm == dialog.open /\ ~ dialog.showSuccess /\ dialog.showCodeInput

\* Nothing of an earlier opening is left.
Clean == Quiet /\ timeouts = 0 /\ dialog = Reset(FALSE)

Open ==
    /\ ~ dialog.open
    /\ dialog' = [dialog EXCEPT !.open = TRUE]
    /\ dismissed' = (dismissed /\ ~ Clean)
    /\ UNCHANGED <<call, row, pending, timeouts>>

\* handleClose by Cancel, Escape or a click outside.
Close ==
    /\ dialog.open
    /\ dialog' = Reset(FALSE)
    /\ dismissed' = (dismissed \/ timeouts > 0
                     \/ ~ NoneOf({"request", "resend", "verify"}))
    /\ UNCHANGED <<call, row, pending, timeouts>>

\* Fault: the field is not disabled while the request is under way.
TypeEmailAnytime(m) ==
    /\ AddressForm /\ dialog.newEmail # m
    /\ dialog' = [dialog EXCEPT !.newEmail = m]
    /\ UNCHANGED <<call, row, pending, timeouts, dismissed>>

TypeEmail(m) ==
    /\ AddressForm /\ ~ dialog.isLoading /\ dialog.newEmail # m
    /\ dialog' = [dialog EXCEPT !.newEmail = m]
    /\ UNCHANGED <<call, row, pending, timeouts, dismissed>>

TypeCode ==
    /\ CodeForm /\ ~ dialog.isLoading /\ ~ dialog.code
    /\ dialog' = [dialog EXCEPT !.code = TRUE]
    /\ UNCHANGED <<call, row, pending, timeouts, dismissed>>

Send(c, kind) ==
    /\ ~ dialog.isLoading
    /\ dialog' = [dialog EXCEPT !.isLoading = TRUE]
    /\ Start(c, kind, dialog.newEmail, MutationRetries, NoProfile)
    /\ UNCHANGED <<row, pending, timeouts, dismissed>>

RequestEmailChange(c, currentEmail) ==
    /\ AddressForm
    /\ dialog.newEmail \in Email \ {currentEmail}
    /\ Send(c, "request")

VerifyCode(c) ==
    /\ CodeForm /\ dialog.code
    /\ Send(c, "verify")

ResendCode(c) ==
    /\ CodeForm /\ dialog.canResend
    /\ Send(c, "resend")

-----------------------------------------------------------------------------
(* The answers, whatever the dialog shows when they come.                  *)

\* isLoading is reset in every finally.
Ended(changes) == dialog' = [changes EXCEPT !.isLoading = FALSE]

Retimed == [dialog EXCEPT !.secondsRemaining = InitialSeconds,
                          !.canResend = FALSE]

EndRequest(c) ==
    /\ Succeeded(c, "request")
    /\ Ended([Retimed EXCEPT !.showCodeInput = TRUE])
    /\ UNCHANGED <<row, pending, timeouts, dismissed>>

EndResend(c) ==
    /\ Succeeded(c, "resend")
    /\ Ended([Retimed EXCEPT !.code = FALSE])
    /\ UNCHANGED <<row, pending, timeouts, dismissed>>

EndVerify(c) ==
    /\ Succeeded(c, "verify")
    /\ Ended([dialog EXCEPT !.showSuccess = TRUE])
    /\ timeouts < MaxTimeouts /\ timeouts' = timeouts + 1
    /\ UNCHANGED <<row, pending, dismissed>>

\* Fault: setIsLoading(false) only after a success.
EndInErrorLoading(c) ==
    /\ Failed(c, "request") \/ Failed(c, "resend") \/ Failed(c, "verify")
    /\ UNCHANGED <<row, pending, dialog, timeouts, dismissed>>

\* The error is shown.
EndInError(c) ==
    /\ Failed(c, "request") \/ Failed(c, "resend") \/ Failed(c, "verify")
    /\ Ended(dialog)
    /\ UNCHANGED <<row, pending, timeouts, dismissed>>

\* Fault: the interval is not cleared.
TickOn ==
    /\ dialog.showCodeInput
    /\ dialog' = [dialog EXCEPT
                    !.secondsRemaining = dialog.secondsRemaining - 1,
                    !.canResend = dialog.secondsRemaining = 1]
    /\ UNCHANGED <<call, row, pending, timeouts, dismissed>>

\* A second of useResendTimer's interval.
Tick ==
    /\ dialog.showCodeInput /\ ~ dialog.canResend
    /\ dialog.secondsRemaining > 0
    /\ dialog' = [dialog EXCEPT
                    !.secondsRemaining = dialog.secondsRemaining - 1,
                    !.canResend = dialog.secondsRemaining = 1]
    /\ UNCHANGED <<call, row, pending, timeouts, dismissed>>

\* The timeout after a success; the page's onSuccess comes with it.
CloseAfterSuccess ==
    /\ timeouts > 0 /\ timeouts' = timeouts - 1
    /\ dialog' = Reset(FALSE)
    /\ UNCHANGED <<row, pending, dismissed>>

=============================================================================
