---------------------------- MODULE ProfilePage ----------------------------
(***************************************************************************)
(* The profile page: the profile it loads, the form that edits it, the     *)
(* button that mails a verification link again and the dialog that changes *)
(* the e-mail, in one tab over one user's row.                             *)
(*                                                                         *)
(* The page shows a copy of the row.  Loading and saving are single        *)
(* attempts of trpcClient that share one isLoading and one error; the link *)
(* and the dialog's calls are mutations that React Query tries again.      *)
(***************************************************************************)
EXTENDS ChangeEmailDialog

VARIABLES
    profile,    \* what the page shows
    mode,
    form,       \* the name in the form
    submitting, \* useFormValidation's isSubmitting
    unseen      \* a change of the row may have escaped the page: a call failed
                \* that the server may have carried out, or a load overlapped
                \* another load or a save

pageVars == <<profile, mode, form, submitting, unseen>>
vars == <<call, dialogVars, pageVars>>

\* A request is sent with an address or a name, or with nothing.
ProfileCall ==
    CallOf({"load", "save", "link", "request", "resend", "verify"},
           {NoEmail} \cup Email \cup Name, {NoProfile} \cup Profile)

ASSUME NoCallAssumption == NoCall \notin ProfileCall

ProfileTypeOK ==
    /\ call \in [Call -> {NoCall} \cup ProfileCall]
    /\ row \in Profile
    /\ pending \in {NoEmail} \cup Email
    /\ dialog \in Dialog
    /\ timeouts \in 0 .. MaxTimeouts
    /\ dismissed \in BOOLEAN
    /\ profile \in {NoProfile} \cup Profile
    /\ mode \in {"view", "edit"}
    /\ form \in Name
    /\ submitting \in BOOLEAN /\ unseen \in BOOLEAN

\* The effect on mount has called loadProfile.
Init ==
    /\ DialogInit
    /\ \E c \in Call :
          call = [d \in Call |->
                    IF d = c THEN [kind |-> "load", arg |-> NoEmail, left |-> 0,
                                   stage |-> "sent", ok |-> FALSE,
                                   value |-> NoProfile]
                    ELSE NoCall]
    /\ profile = NoProfile /\ mode = "view" /\ form \in Name
    /\ submitting = FALSE /\ unseen = FALSE

-----------------------------------------------------------------------------
(* Loading.                                                                *)

StartLoad(c) ==
    /\ Start(c, "load", NoEmail, 0, NoProfile)
    /\ unseen' = IF Quiet THEN FALSE
                 ELSE unseen \/ ~ NoneOf({"load", "save"})

ServeLoad(c) ==
    /\ Arrives(c, "load")
    /\ Respond(c, row)
    /\ UNCHANGED <<dialogVars, pageVars>>

EndLoad(c) ==
    /\ Succeeded(c, "load")
    /\ profile' = call[c].value /\ form' = call[c].value.name
    /\ UNCHANGED <<dialogVars, mode, submitting, unseen>>

FailLoad(c) ==
    /\ Failed(c, "load")
    /\ unseen' = TRUE
    /\ UNCHANGED <<dialogVars, profile, mode, form, submitting>>

\* "Retry", which a failed load shows in place of the page, loads it anew.
Reload(c) ==
    /\ profile = NoProfile /\ Quiet
    /\ StartLoad(c)
    /\ UNCHANGED <<dialogVars, profile, mode, form, submitting>>

-----------------------------------------------------------------------------
(* Editing.  The open dialog is modal.                                     *)

Page == profile # NoProfile /\ ~ dialog.open

EditClick ==
    /\ Page /\ mode = "view"
    /\ mode' = "edit"
    /\ UNCHANGED <<call, dialogVars, profile, form, submitting, unseen>>

CancelClick ==
    /\ Page /\ mode = "edit" /\ ~ submitting
    /\ mode' = "view" /\ form' = profile.name
    /\ UNCHANGED <<call, dialogVars, profile, submitting, unseen>>

\* The fields are not disabled while the form is submitted.
TypeName(n) ==
    /\ Page /\ mode = "edit" /\ form # n
    /\ form' = n
    /\ UNCHANGED <<call, dialogVars, profile, mode, submitting, unseen>>

\* With no difference there is nothing to save.
Submit(c) ==
    /\ Page /\ mode = "edit" /\ ~ submitting
    /\ form # profile.name
    /\ Start(c, "save", form, 0, NoProfile)
    /\ submitting' = TRUE
    /\ unseen' = (unseen \/ ~ NoneOf({"load"}))
    /\ UNCHANGED <<dialogVars, profile, mode, form>>

\* updateUser, which returns the row it wrote.
ServeSave(c) ==
    /\ Arrives(c, "save")
    /\ row' = [row EXCEPT !.name = call[c].arg]
    /\ Respond(c, row')
    /\ UNCHANGED <<pending, dialog, timeouts, dismissed, pageVars>>

EndSave(c) ==
    /\ Succeeded(c, "save")
    /\ profile' = call[c].value /\ mode' = "view" /\ submitting' = FALSE
    /\ UNCHANGED <<dialogVars, form, unseen>>

FailSave(c) ==
    /\ Failed(c, "save")
    /\ submitting' = FALSE /\ unseen' = TRUE
    /\ UNCHANGED <<dialogVars, profile, mode, form>>

-----------------------------------------------------------------------------
(* The verification link, offered while the copy says it is needed.        *)

ResendLink(c) ==
    /\ Page /\ ~ profile.verified /\ NoneOf({"link"})
    /\ Start(c, "link", NoEmail, MutationRetries, NoProfile)
    /\ UNCHANGED <<dialogVars, pageVars>>

\* resendVerificationEmail: the link's token takes the place of a pending
\* change's.  A verified user is refused.
ServeLink(c) ==
    /\ Arrives(c, "link") /\ ~ row.verified
    /\ pending' = NoEmail
    /\ Respond(c, NoProfile)
    /\ UNCHANGED <<row, dialog, timeouts, dismissed, pageVars>>

\* An alert.
EndLink(c) ==
    /\ Take(c, "link")
    /\ UNCHANGED <<dialogVars, pageVars>>

-----------------------------------------------------------------------------
(* The dialog on the page.                                                 *)

ChangeEmail ==
    /\ Page /\ mode = "view"
    /\ Open
    /\ UNCHANGED pageVars

DialogClick ==
    /\ \/ Close \/ TypeCode
       \/ \E m \in Email : TypeEmail(m)
       \/ \E c \in Call : \/ RequestEmailChange(c, profile.email)
                          \/ VerifyCode(c) \/ ResendCode(c)
    /\ UNCHANGED pageVars

\* Fault: onSuccess loads nothing.
EmailChangedUnloaded(c) ==
    /\ CloseAfterSuccess
    /\ UNCHANGED <<call, pageVars>>

\* The timeout calls onSuccess: handleEmailChangeSuccess loads the profile.
EmailChanged(c) ==
    /\ CloseAfterSuccess
    /\ StartLoad(c)
    /\ UNCHANGED <<profile, mode, form, submitting>>

DialogAnswer(c) ==
    \/ (EndRequest(c) \/ EndResend(c) \/ EndVerify(c)) /\ UNCHANGED pageVars
    \/ /\ EndInError(c)
       /\ unseen' = (unseen \/ call[c].kind = "verify")
       /\ UNCHANGED <<profile, mode, form, submitting>>

-----------------------------------------------------------------------------
Serve(c) ==
    \/ ServeLoad(c) \/ ServeSave(c) \/ ServeLink(c)
    \/ (ServeRequest(c) \/ ServeVerify(c) \/ Unserved(c)) /\ UNCHANGED pageVars

Handle(c) ==
    \/ EndLoad(c) \/ FailLoad(c) \/ EndSave(c) \/ FailSave(c) \/ EndLink(c)
    \/ DialogAnswer(c)

User ==
    \/ EditClick \/ CancelClick \/ ChangeEmail \/ DialogClick
    \/ \E n \in Name : TypeName(n)
    \/ \E c \in Call : Reload(c) \/ Submit(c) \/ ResendLink(c)

Next ==
    \/ User
    \/ \E c \in Call : Serve(c) \/ Handle(c) \/ EmailChanged(c)
    \/ Tick /\ UNCHANGED pageVars

Spec == Init /\ [][Next]_vars

-----------------------------------------------------------------------------
(* Properties.                                                             *)

\* "Your email has been successfully changed to": unless the dialog was closed
\* over something still under way, the row then has the address shown, even if
\* the verification was sent twice or a code was asked for several times.
SuccessIsTrue ==
    dialog.showSuccess /\ ~ dismissed =>
        row.email = dialog.newEmail /\ row.verified

\* When nothing is under way any more the page shows the user's row, changed by
\* the form or by the dialog, unless a call failed or a load was overtaken.
AtRestFresh ==
    Quiet /\ timeouts = 0 /\ profile # NoProfile /\ ~ unseen => profile = row

\* Whatever is lost and however the dialog is closed and opened again, nothing
\* is left disabled for good: while the form or the dialog is disabled a call
\* that will free it is under way, and a code form that does not offer another
\* code is counting down to it.
NeverStuck ==
    /\ dialog.isLoading => ~ NoneOf({"request", "resend", "verify"})
    /\ submitting => ~ NoneOf({"save"})
    /\ ~ dialog.canResend => dialog.secondsRemaining > 0

=============================================================================
