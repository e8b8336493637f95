-------------------------- MODULE ProfilePageProofs --------------------------
(***************************************************************************)
(* Proofs about ProfilePage, for any addresses and names, any number of    *)
(* requests and of retries.                                                *)
(***************************************************************************)
EXTENDS ProfilePage, TLAPS

DialogKinds == {"request", "resend", "verify"}

\* A call of the dialog, of whichever opening.
Ours(c) == ~ Idle(c) /\ call[c].kind \in DialogKinds

\* What the answers carry; an attempt that has not ended has none.
Answers ==
    \A c \in Call : ~ Idle(c) =>
      /\ call[c].stage = "sent" => ~ call[c].ok
      /\ call[c].kind = "save" => call[c].arg \in Name
      /\ call[c].kind \in {"load", "save"} /\ call[c].ok
           => call[c].value \in Profile

Typed == ProfileTypeOK /\ Answers

\* As long as the dialog was not dismissed over anything, its one call is that
\* of the form it shows.
OneCall ==
    /\ \A c, d \in Call : Ours(c) /\ Ours(d) => c = d
    /\ \A c \in Call : Ours(c) => /\ dialog.open /\ dialog.isLoading
                                  /\ ~ dialog.showSuccess /\ timeouts = 0
    /\ timeouts > 0 => timeouts = 1 /\ dialog.showSuccess

\* Then the code it asks for is that of the address it shows, unless a link's
\* token has taken its place.
CodeIsFor ==
    /\ dialog.showCodeInput => pending \in {NoEmail, dialog.newEmail}
    /\ \A c \in Call : Under(c, "request") =>
          /\ ~ dialog.showCodeInput /\ call[c].arg = dialog.newEmail
          /\ call[c].ok => pending \in {NoEmail, dialog.newEmail}
    /\ \A c \in Call : Under(c, "resend") =>
          dialog.showCodeInput /\ call[c].arg = dialog.newEmail
    /\ \A c \in Call : Under(c, "verify") =>
          /\ dialog.showCodeInput
          /\ call[c].ok => row.email = dialog.newEmail /\ row.verified

Attended == ~ dismissed => OneCall /\ CodeIsFor /\ SuccessIsTrue

\* Saves come one at a time.
OneSave ==
    /\ \A c \in Call : Under(c, "save") => submitting
    /\ \A c, d \in Call : Under(c, "save") /\ Under(d, "save") => c = d

\* Whatever may have changed the row is still to be heard of, or what was read
\* of the row is still the row.
Heard ==
    /\ \A c, d \in Call : Under(c, "load") /\ Under(d, "load") => c = d
    /\ \A c, d \in Call : ~ (Under(c, "load") /\ Under(d, "save"))
    /\ timeouts = 0 /\ NoneOf({"verify"}) =>
         /\ \A c \in Call : (Under(c, "load") \/ Under(c, "save")) /\ call[c].ok
                              => call[c].value = row
         /\ NoneOf({"load", "save"}) /\ profile # NoProfile => profile = row

Fresh == ~ unseen => Heard

-----------------------------------------------------------------------------
(* What each step does to the calls.                                       *)

LEMMA CallFields ==
  ASSUME ProfileTypeOK, NEW c \in Call, ~ Idle(c)
  PROVE  /\ call[c] \in ProfileCall
         /\ call[c].stage \in {"sent", "answered"} /\ call[c].ok \in BOOLEAN
         /\ call[c].left \in 0 .. MutationRetries
         /\ call[c].arg \in {NoEmail} \cup Email \cup Name
         /\ call[c].value \in {NoProfile} \cup Profile
  BY DEF ProfileTypeOK, ProfileCall, CallOf, Idle

\* Only the slots, not what is in them, matters to the others.
Others(c) == \A d \in Call \ {c} : call'[d] = call[d]

LEMMA StartStep ==
  ASSUME ProfileTypeOK, NEW c \in Call, NEW arg, NEW retries \in 0 .. MutationRetries,
         NEW kind \in {"load", "save", "link", "request", "resend", "verify"},
         arg \in {NoEmail} \cup Email \cup Name,
         Start(c, kind, arg, retries, NoProfile)
  PROVE  /\ call' \in [Call -> {NoCall} \cup ProfileCall]
         /\ Idle(c) /\ ~ Idle(c)' /\ Others(c)
         /\ call'[c].kind = kind /\ call'[c].arg = arg
         /\ call'[c].stage = "sent" /\ ~ call'[c].ok
<1> DEFINE new == [kind |-> kind, arg |-> arg, left |-> retries, stage |-> "sent",
                   ok |-> FALSE, value |-> NoProfile]
<1>1. new \in ProfileCall
  BY DEF ProfileCall, CallOf
<1>2. call' = [call EXCEPT ![c] = new] /\ Idle(c)
  BY DEF Start
<1>3. call'[c] = new
  BY <1>2 DEF ProfileTypeOK
<1> QED
  BY <1>1, <1>2, <1>3, NoCallAssumption DEF ProfileTypeOK, Others, Idle

LEMMA TakeStep ==
  ASSUME ProfileTypeOK, NEW c \in Call, NEW kind, Take(c, kind)
  PROVE  /\ call' \in [Call -> {NoCall} \cup ProfileCall]
         /\ Idle(c)' /\ ~ Idle(c) /\ Others(c)
         /\ call[c].kind = kind /\ call[c].stage = "answered"
  BY DEF ProfileTypeOK, Take, Under, Idle, Others

LEMMA FailStep ==
  ASSUME Typed, NEW c \in Call, ~ Idle(c), call[c].stage = "sent", Fail(c)
  PROVE  /\ call' \in [Call -> {NoCall} \cup ProfileCall]
         /\ ~ Idle(c)' /\ Others(c)
         /\ call'[c].kind = call[c].kind /\ call'[c].arg = call[c].arg
         /\ ~ call'[c].ok
<1> USE DEF Typed
<1>1. call[c] \in ProfileCall /\ ~ call[c].ok
  BY CallFields DEF Answers
<1>2. PICK new \in ProfileCall :
        /\ call' = [call EXCEPT ![c] = new]
        /\ new.kind = call[c].kind /\ new.arg = call[c].arg /\ new.ok = call[c].ok
  <2>1. CASE call[c].left > 0
    <3> DEFINE less == [call[c] EXCEPT !.left = call[c].left - 1]
    <3>1. less \in ProfileCall
      BY <1>1, <2>1, RetryAssumption DEF ProfileCall, CallOf
    <3>2. less.kind = call[c].kind /\ less.arg = call[c].arg /\ less.ok = call[c].ok
      BY <1>1 DEF ProfileCall, CallOf
    <3>3. call' = [call EXCEPT ![c] = less]
      BY <1>1, <2>1 DEF Fail, ProfileTypeOK, ProfileCall, CallOf
    <3> HIDE DEF less
    <3> QED BY <3>1, <3>2, <3>3
  <2>2. CASE call[c].left = 0
    <3> DEFINE last == [call[c] EXCEPT !.stage = "answered"]
    <3>1. last \in ProfileCall
      BY <1>1, <2>2 DEF ProfileCall, CallOf
    <3>2. last.kind = call[c].kind /\ last.arg = call[c].arg /\ last.ok = call[c].ok
      BY <1>1 DEF ProfileCall, CallOf
    <3>3. call' = [call EXCEPT ![c] = last]
      BY <1>1, <2>2 DEF Fail, ProfileTypeOK, ProfileCall, CallOf
    <3> HIDE DEF last
    <3> QED BY <3>1, <3>2, <3>3
  <2>3. call[c].left > 0 \/ call[c].left = 0
    BY DEF Fail
  <2> QED BY <2>1, <2>2, <2>3
<1>3. call'[c] = new
  BY <1>2 DEF ProfileTypeOK
<1> QED
  BY <1>1, <1>2, <1>3, NoCallAssumption DEF ProfileTypeOK, Others, Idle

LEMMA RespondStep ==
  ASSUME Typed, NEW c \in Call, ~ Idle(c), call[c].stage = "sent",
         NEW value \in {NoProfile} \cup Profile, Respond(c, value)
  PROVE  /\ call' \in [Call -> {NoCall} \cup ProfileCall]
         /\ ~ Idle(c)' /\ Others(c)
         /\ call'[c].kind = call[c].kind /\ call'[c].arg = call[c].arg
         /\ call'[c].ok => call'[c].value = value /\ call'[c].stage = "answered"
<1> USE DEF Typed
<1>1. CASE Fail(c)
  BY <1>1, FailStep
<1>2. CASE Answer(c, value)
  <2> DEFINE new == [call[c] EXCEPT !.stage = "answered", !.ok = TRUE, !.value = value]
  <2>1. call[c] \in ProfileCall
    BY CallFields
  <2>2. new \in ProfileCall /\ new.kind = call[c].kind /\ new.arg = call[c].arg
        /\ new.value = value /\ new.stage = "answered"
    BY <2>1 DEF ProfileCall, CallOf
  <2>3. call' = [call EXCEPT ![c] = new]
    BY <1>2, <2>1 DEF Answer, ProfileTypeOK, ProfileCall, CallOf
  <2>4. call'[c] = new
    BY <2>3 DEF ProfileTypeOK
  <2> HIDE DEF new
  <2> QED
    BY <2>2, <2>3, <2>4, NoCallAssumption DEF ProfileTypeOK, Others, Idle
<1> QED BY <1>1, <1>2 DEF Respond

-----------------------------------------------------------------------------
(* Types.                                                                  *)

\* The answers of the other calls are those they were.
LEMMA AnswersKept ==
  ASSUME Answers, NEW c \in Call, Others(c),
         ~ Idle(c)' =>
           /\ call'[c].stage = "sent" => ~ call'[c].ok
           /\ call'[c].kind = "save" => call'[c].arg \in Name
           /\ call'[c].kind \in {"load", "save"} /\ call'[c].ok
                => call'[c].value \in Profile
  PROVE  Answers'
<1> SUFFICES ASSUME NEW d \in Call, ~ Idle(d)'
             PROVE  /\ call'[d].stage = "sent" => ~ call'[d].ok
                    /\ call'[d].kind = "save" => call'[d].arg \in Name
                    /\ call'[d].kind \in {"load", "save"} /\ call'[d].ok
                         => call'[d].value \in Profile
  BY DEF Answers
<1>1. CASE d = c
  BY <1>1
<1>2. CASE d # c
  <2>1. call'[d] = call[d] /\ ~ Idle(d)
    BY <1>2 DEF Others, Idle
  <2> QED BY <2>1 DEF Answers
<1> QED BY <1>1, <1>2

LEMMA EndedShape ==
  ASSUME NEW changes \in Dialog, Ended(changes)
  PROVE  dialog' \in Dialog
  BY DEF Ended, Dialog

LEMMA DialogShapes ==
  ASSUME ProfileTypeOK
  PROVE  /\ \A open \in BOOLEAN : Reset(open) \in Dialog
         /\ Retimed \in Dialog /\ [Retimed EXCEPT !.showCodeInput = TRUE] \in Dialog
         /\ [Retimed EXCEPT !.code = FALSE] \in Dialog
<1>1. InitialSeconds \in 0 .. InitialSeconds
  BY DialogAssumption
<1>2. \A open \in BOOLEAN : Reset(open) \in Dialog
  BY <1>1 DEF Reset, Dialog
<1>3. Retimed \in Dialog
  BY <1>1 DEF Retimed, Dialog, ProfileTypeOK
<1> QED
  BY <1>2, <1>3 DEF Dialog

LEMMA TypedServe ==
  ASSUME Typed, NEW c \in Call, Serve(c)
  PROVE  Typed'
<1> USE DEF Typed
<1>1. CASE ServeLoad(c)
  <2>1. ~ Idle(c) /\ call[c].stage = "sent" /\ call[c].kind = "load" /\ Respond(c, row)
    BY <1>1 DEF ServeLoad, Arrives, Under
  <2>2. row \in Profile
    BY DEF ProfileTypeOK
  <2>3. /\ call' \in [Call -> {NoCall} \cup ProfileCall] /\ Others(c)
        /\ call'[c].kind = "load"
        /\ call'[c].ok => call'[c].value = row /\ call'[c].stage = "answered"
    BY <2>1, <2>2, RespondStep
  <2>4. Answers'
    BY <2>2, <2>3, AnswersKept
  <2> QED BY <1>1, <2>3, <2>4 DEF ServeLoad, dialogVars, pageVars, ProfileTypeOK
<1>2. CASE ServeSave(c)
  <2>1. ~ Idle(c) /\ call[c].stage = "sent" /\ call[c].kind = "save" /\ Respond(c, row')
    BY <1>2 DEF ServeSave, Arrives, Under
  <2>2. call[c].arg \in Name
    BY <2>1 DEF Answers
  <2>3. row' \in Profile
    BY <1>2, <2>2 DEF ServeSave, ProfileTypeOK, Profile
  <2>4. /\ call' \in [Call -> {NoCall} \cup ProfileCall] /\ Others(c)
        /\ call'[c].kind = "save" /\ call'[c].arg = call[c].arg
        /\ call'[c].ok => call'[c].value = row' /\ call'[c].stage = "answered"
    BY <2>1, <2>3, RespondStep
  <2>5. Answers'
    BY <2>2, <2>3, <2>4, AnswersKept
  <2> QED BY <1>2, <2>3, <2>4, <2>5 DEF ServeSave, pageVars, ProfileTypeOK
<1>3. ASSUME ServeLink(c) \/ ServeRequest(c) \/ ServeVerify(c)
      PROVE  /\ call' \in [Call -> {NoCall} \cup ProfileCall]
             /\ Answers'
  <2>1. /\ ~ Idle(c) /\ call[c].stage = "sent"
        /\ call[c].kind \in {"link", "request", "resend", "verify"}
        /\ Respond(c, NoProfile)
    BY <1>3 DEF ServeLink, ServeRequest, ServeVerify, Arrives, Under
  <2>2. /\ call' \in [Call -> {NoCall} \cup ProfileCall] /\ Others(c)
        /\ call'[c].kind = call[c].kind
        /\ call'[c].ok => call'[c].stage = "answered"
    BY <2>1, RespondStep
  <2> QED BY <2>1, <2>2, AnswersKept
<1>4. CASE ServeLink(c)
  BY <1>3, <1>4 DEF ServeLink, pageVars, ProfileTypeOK
<1>5. CASE ServeRequest(c) /\ UNCHANGED pageVars
  BY <1>3, <1>5 DEF ServeRequest, pageVars, ProfileTypeOK
<1>6. CASE ServeVerify(c) /\ UNCHANGED pageVars
  <2>1. pending \in Email
    BY <1>6 DEF ServeVerify, ProfileTypeOK
  <2>2. row' \in Profile
    BY <1>6, <2>1 DEF ServeVerify, ProfileTypeOK, Profile
  <2> QED
    BY <1>3, <1>6, <2>2 DEF ServeVerify, pageVars, ProfileTypeOK
<1>7. CASE Unserved(c) /\ UNCHANGED pageVars
  <2>1. ~ Idle(c) /\ call[c].stage = "sent" /\ Fail(c)
    BY <1>7 DEF Unserved
  <2>2. /\ call' \in [Call -> {NoCall} \cup ProfileCall] /\ Others(c)
        /\ call'[c].kind = call[c].kind /\ call'[c].arg = call[c].arg
        /\ ~ call'[c].ok
    BY <2>1, FailStep
  <2>3. Answers'
    <3>1. call[c].kind = "save" => call[c].arg \in Name
      BY <2>1 DEF Answers
    <3> QED BY <2>2, <3>1, AnswersKept
  <2> QED BY <1>7, <2>2, <2>3 DEF Unserved, dialogVars, pageVars, ProfileTypeOK
<1> QED
  BY <1>1, <1>2, <1>4, <1>5, <1>6, <1>7 DEF Serve

LEMMA TypedHandle ==
  ASSUME Typed, NEW c \in Call, Handle(c)
  PROVE  Typed'
<1> USE DEF Typed
<1>1. ASSUME NEW kind, Take(c, kind)
      PROVE  /\ call' \in [Call -> {NoCall} \cup ProfileCall] /\ Answers'
             /\ ~ Idle(c) /\ call[c].kind = kind
  <2>1. call' \in [Call -> {NoCall} \cup ProfileCall] /\ Idle(c)' /\ Others(c)
        /\ ~ Idle(c) /\ call[c].kind = kind
    BY <1>1, TakeStep
  <2> QED BY <2>1, AnswersKept
<1>2. CASE EndLoad(c)
  <2>1. Take(c, "load") /\ call[c].ok
    BY <1>2 DEF EndLoad, Succeeded
  <2>2. call[c].value \in Profile
    BY <1>1, <2>1 DEF Answers
  <2>3. call[c].value.name \in Name
    BY <2>2 DEF Profile
  <2> QED BY <1>1, <1>2, <2>1, <2>2, <2>3 DEF EndLoad, dialogVars, ProfileTypeOK
<1>3. CASE FailLoad(c)
  BY <1>1, <1>3 DEF FailLoad, Failed, dialogVars, ProfileTypeOK
<1>4. CASE EndSave(c)
  <2>1. Take(c, "save") /\ call[c].ok
    BY <1>4 DEF EndSave, Succeeded
  <2>2. call[c].value \in Profile
    BY <1>1, <2>1 DEF Answers
  <2> QED BY <1>1, <1>4, <2>1, <2>2 DEF EndSave, dialogVars, ProfileTypeOK
<1>5. CASE FailSave(c)
  BY <1>1, <1>5 DEF FailSave, Failed, dialogVars, ProfileTypeOK
<1>6. CASE EndLink(c)
  BY <1>1, <1>6 DEF EndLink, dialogVars, pageVars, ProfileTypeOK
<1>7. CASE EndRequest(c) /\ UNCHANGED pageVars
  <2>1. dialog' \in Dialog
    BY <1>7, DialogShapes, EndedShape DEF EndRequest
  <2> QED BY <1>1, <1>7, <2>1 DEF EndRequest, Succeeded, pageVars, ProfileTypeOK
<1>8. CASE EndResend(c) /\ UNCHANGED pageVars
  <2>1. dialog' \in Dialog
    BY <1>8, DialogShapes, EndedShape DEF EndResend
  <2> QED BY <1>1, <1>8, <2>1 DEF EndResend, Succeeded, pageVars, ProfileTypeOK
<1>9. CASE EndVerify(c) /\ UNCHANGED pageVars
  <2>1. dialog' \in Dialog
    BY <1>9 DEF EndVerify, Ended, Dialog, ProfileTypeOK
  <2>2. timeouts' \in 0 .. MaxTimeouts
    BY <1>9, DialogAssumption DEF EndVerify, ProfileTypeOK
  <2> QED BY <1>1, <1>9, <2>1, <2>2 DEF EndVerify, Succeeded, pageVars, ProfileTypeOK
<1>10. CASE EndInError(c) /\ DialogAnswer(c) /\ unseen' \in BOOLEAN
            /\ UNCHANGED <<profile, mode, form, submitting>>
  <2>1. dialog' \in Dialog
    BY <1>10 DEF EndInError, Ended, Dialog, ProfileTypeOK
  <2>2. Take(c, "request") \/ Take(c, "resend") \/ Take(c, "verify")
    BY <1>10 DEF EndInError, Failed
  <2>3. call' \in [Call -> {NoCall} \cup ProfileCall] /\ Answers'
    BY <1>1, <2>2
  <2> QED BY <1>10, <2>1, <2>3 DEF EndInError, ProfileTypeOK
<1>11. CASE DialogAnswer(c)
  <2>1. EndInError(c) => unseen' \in BOOLEAN \/ UNCHANGED pageVars
    BY <1>11 DEF DialogAnswer, EndRequest, EndResend, EndVerify, ProfileTypeOK
  <2> QED BY <1>7, <1>8, <1>9, <1>10, <1>11, <2>1 DEF DialogAnswer, ProfileTypeOK
<1> QED
  BY <1>2, <1>3, <1>4, <1>5, <1>6, <1>11 DEF Handle

LEMMA TypedTick ==
  ASSUME Typed, Tick, UNCHANGED pageVars
  PROVE  Typed'
<1> USE DEF Typed
<1>1. dialog.secondsRemaining \in 0 .. InitialSeconds /\ dialog.secondsRemaining > 0
  BY DEF ProfileTypeOK, Dialog, Tick
<1>2. dialog.secondsRemaining - 1 \in 0 .. InitialSeconds
  BY <1>1, DialogAssumption
<1>3. dialog' \in Dialog
  BY <1>2 DEF Tick, Dialog, ProfileTypeOK
<1>4. call' = call /\ Answers'
  BY DEF Tick, Answers, Idle
<1> QED
  BY <1>3, <1>4 DEF Tick, pageVars, ProfileTypeOK

LEMMA TypedChanged ==
  ASSUME Typed, NEW c \in Call, EmailChanged(c)
  PROVE  Typed'
<1> USE DEF Typed
<1>1. dialog' \in Dialog
  BY DialogShapes DEF EmailChanged, CloseAfterSuccess
<1>2. timeouts' \in 0 .. MaxTimeouts
  BY DialogAssumption DEF EmailChanged, CloseAfterSuccess, ProfileTypeOK
<1>3. Start(c, "load", NoEmail, 0, NoProfile) /\ unseen' \in BOOLEAN
  BY DEF EmailChanged, StartLoad, ProfileTypeOK
<1>4. /\ call' \in [Call -> {NoCall} \cup ProfileCall] /\ Others(c)
      /\ call'[c].kind = "load" /\ ~ call'[c].ok
  BY <1>3, RetryAssumption, StartStep
<1>5. Answers'
  BY <1>4, AnswersKept
<1> QED
  BY <1>1, <1>2, <1>3, <1>4, <1>5
  DEF EmailChanged, CloseAfterSuccess, ProfileTypeOK

LEMMA TypedUser ==
  ASSUME Typed, User
  PROVE  Typed'
<1> USE DEF Typed
<1>1. UNCHANGED call => Answers'
  BY DEF Answers, Idle
<1>2. CASE EditClick
  BY <1>1, <1>2 DEF EditClick, dialogVars, ProfileTypeOK
<1>3. CASE CancelClick
  <2>1. profile.name \in Name
    BY <1>3 DEF CancelClick, Page, ProfileTypeOK, Profile
  <2> QED BY <1>1, <1>3, <2>1 DEF CancelClick, dialogVars, ProfileTypeOK
<1>4. CASE \E n \in Name : TypeName(n)
  BY <1>1, <1>4 DEF TypeName, dialogVars, ProfileTypeOK
<1>5. CASE ChangeEmail
  <2>1. dialog' \in Dialog
    BY <1>5 DEF ChangeEmail, Open, Dialog, ProfileTypeOK
  <2>2. dismissed' \in BOOLEAN
    BY <1>5 DEF ChangeEmail, Open, ProfileTypeOK
  <2> QED BY <1>1, <1>5, <2>1, <2>2 DEF ChangeEmail, Open, pageVars, ProfileTypeOK
<1>6. ASSUME NEW c \in Call, NEW arg \in {NoEmail} \cup Email \cup Name,
             NEW retries \in 0 .. MutationRetries,
             NEW kind \in {"load", "save", "link", "request", "resend", "verify"},
             kind = "save" => arg \in Name,
             Start(c, kind, arg, retries, NoProfile)
      PROVE  call' \in [Call -> {NoCall} \cup ProfileCall] /\ Answers'
  <2>1. /\ call' \in [Call -> {NoCall} \cup ProfileCall] /\ Others(c)
        /\ call'[c].kind = kind /\ call'[c].arg = arg /\ ~ call'[c].ok
    BY <1>6, StartStep
  <2> QED BY <1>6, <2>1, AnswersKept
<1>7. 0 \in 0 .. MutationRetries /\ MutationRetries \in 0 .. MutationRetries
  BY RetryAssumption
<1>8. ASSUME NEW c \in Call, Reload(c)
      PROVE  Typed'
  <2>1. Start(c, "load", NoEmail, 0, NoProfile) /\ unseen' \in BOOLEAN
    BY <1>8 DEF Reload, StartLoad, ProfileTypeOK
  <2>2. call' \in [Call -> {NoCall} \cup ProfileCall] /\ Answers'
    BY <1>6, <1>7, <2>1
  <2> QED BY <1>8, <2>1, <2>2 DEF Reload, dialogVars, ProfileTypeOK
<1>9. ASSUME NEW c \in Call, Submit(c)
      PROVE  Typed'
  <2>1. Start(c, "save", form, 0, NoProfile) /\ form \in Name /\ unseen' \in BOOLEAN
    BY <1>9 DEF Submit, ProfileTypeOK
  <2>2. call' \in [Call -> {NoCall} \cup ProfileCall] /\ Answers'
    BY <1>6, <1>7, <2>1
  <2> QED BY <1>9, <2>1, <2>2 DEF Submit, dialogVars, ProfileTypeOK
<1>10. ASSUME NEW c \in Call, ResendLink(c)
       PROVE  Typed'
  <2>1. Start(c, "link", NoEmail, MutationRetries, NoProfile)
    BY <1>10 DEF ResendLink
  <2>2. call' \in [Call -> {NoCall} \cup ProfileCall] /\ Answers'
    BY <1>6, <1>7, <2>1
  <2> QED BY <1>10, <2>2 DEF ResendLink, dialogVars, pageVars, ProfileTypeOK
<1>11. CASE Close /\ UNCHANGED pageVars
  <2>1. dialog' \in Dialog
    BY <1>11, DialogShapes DEF Close
  <2>2. dismissed' \in BOOLEAN
    BY <1>11 DEF Close, ProfileTypeOK
  <2> QED BY <1>1, <1>11, <2>1, <2>2 DEF Close, pageVars, ProfileTypeOK
<1>12. CASE TypeCode /\ UNCHANGED pageVars
  <2>1. dialog' \in Dialog
    BY <1>12 DEF TypeCode, Dialog, ProfileTypeOK
  <2> QED BY <1>1, <1>12, <2>1 DEF TypeCode, pageVars, ProfileTypeOK
<1>13. ASSUME NEW m \in Email, TypeEmail(m), UNCHANGED pageVars
       PROVE  Typed'
  <2>1. dialog' \in Dialog
    BY <1>13 DEF TypeEmail, Dialog, ProfileTypeOK
  <2> QED BY <1>1, <1>13, <2>1 DEF TypeEmail, pageVars, ProfileTypeOK
<1>14. ASSUME NEW c \in Call, NEW kind \in DialogKinds, Send(c, kind), UNCHANGED pageVars
       PROVE  Typed'
  <2>1. /\ Start(c, kind, dialog.newEmail, MutationRetries, NoProfile)
        /\ dialog.newEmail \in {NoEmail} \cup Email
    BY <1>14 DEF Send, ProfileTypeOK, Dialog
  <2>2. call' \in [Call -> {NoCall} \cup ProfileCall] /\ Answers'
    BY <1>6, <1>7, <2>1 DEF DialogKinds
  <2>3. dialog' \in Dialog
    BY <1>14 DEF Send, Dialog, ProfileTypeOK
  <2> QED BY <1>14, <2>2, <2>3 DEF Send, pageVars, ProfileTypeOK
<1>15. CASE DialogClick
  BY <1>11, <1>12, <1>13, <1>14, <1>15
  DEF DialogClick, RequestEmailChange, VerifyCode, ResendCode, DialogKinds
<1> QED
  BY <1>2, <1>3, <1>4, <1>5, <1>8, <1>9, <1>10, <1>15 DEF User

LEMMA TypedInit == Init => Typed
<1> SUFFICES ASSUME Init
             PROVE  Typed
  OBVIOUS
<1>1. PICK c \in Call :
        call = [d \in Call |->
                  IF d = c THEN [kind |-> "load", arg |-> NoEmail, left |-> 0,
                                 stage |-> "sent", ok |-> FALSE,
                                 value |-> NoProfile]
                  ELSE NoCall]
  BY DEF Init
<1>2. call \in [Call -> {NoCall} \cup ProfileCall] /\ Answers
  BY <1>1, RetryAssumption DEF ProfileCall, CallOf, Answers, Idle
<1>3. dialog \in Dialog
  BY DialogAssumption DEF Init, DialogInit, Reset, Dialog
<1>4. row \in Profile /\ pending \in {NoEmail} \cup Email
      /\ timeouts \in 0 .. MaxTimeouts /\ dismissed \in BOOLEAN
  <2>1. DialogInit
    BY DEF Init
  <2>2. 0 \in 0 .. MaxTimeouts
    BY DialogAssumption
  <2> QED BY <2>1, <2>2 DEF DialogInit
<1>5. /\ profile \in {NoProfile} \cup Profile /\ mode \in {"view", "edit"}
      /\ form \in Name /\ submitting \in BOOLEAN /\ unseen \in BOOLEAN
  BY DEF Init
<1> QED
  BY <1>2, <1>3, <1>4, <1>5 DEF Typed, ProfileTypeOK

LEMMA TypedStep ==
  ASSUME Typed, [Next]_vars
  PROVE  Typed'
<1>1. CASE UNCHANGED vars
  BY <1>1 DEF vars, dialogVars, pageVars, Typed, ProfileTypeOK, Answers, Idle
<1> QED
  BY <1>1, TypedUser, TypedServe, TypedHandle, TypedChanged, TypedTick DEF Next

\* The page's state is of its type in every reachable state.
THEOREM ProfileTypeCorrect == Spec => []ProfileTypeOK
<1>1. Typed => ProfileTypeOK
  BY DEF Typed
<1> QED
  BY <1>1, TypedInit, TypedStep, PTL DEF Spec

-----------------------------------------------------------------------------
(* Nothing is left disabled.                                               *)

\* A step that leaves call c its kind, or starts it, ends no call.
LEMMA NoneEnded ==
  ASSUME NEW c \in Call, Others(c), ~ Idle(c)',
         ~ Idle(c) => call'[c].kind = call[c].kind,
         NEW kinds, ~ NoneOf(kinds)
  PROVE  ~ NoneOf(kinds)'
  BY DEF NoneOf, Others, Idle

\* The end of call c ends no call of another kind.
LEMMA OneEnded ==
  ASSUME NEW c \in Call, Others(c), NEW kinds, call[c].kind \notin kinds,
         ~ NoneOf(kinds)
  PROVE  ~ NoneOf(kinds)'
  BY DEF NoneOf, Others, Idle

LEMMA StuckServe ==
  ASSUME Typed, NeverStuck, NEW c \in Call, Serve(c)
  PROVE  NeverStuck'
<1>1. /\ ~ Idle(c) /\ call[c].stage = "sent"
      /\ Fail(c) \/ \E v \in {NoProfile} \cup Profile : Respond(c, v)
  <2>1. ServeSave(c) => row' \in Profile
    BY TypedServe DEF Typed, ProfileTypeOK
  <2> QED
    BY <2>1 DEF Serve, ServeLoad, ServeSave, ServeLink, ServeRequest, ServeVerify,
                Unserved, Arrives, Under, Typed, ProfileTypeOK
<1>2. ~ Idle(c)' /\ Others(c) /\ call'[c].kind = call[c].kind
  BY <1>1, FailStep, RespondStep
<1>3. UNCHANGED <<dialog, submitting>>
  BY DEF Serve, ServeLoad, ServeSave, ServeLink, ServeRequest, ServeVerify,
         Unserved, dialogVars, pageVars
<1> QED
  BY <1>2, <1>3, NoneEnded DEF NeverStuck

LEMMA StuckHandle ==
  ASSUME Typed, NeverStuck, NEW c \in Call, Handle(c)
  PROVE  NeverStuck'
<1> USE DEF Typed
<1>1. ASSUME NEW kind, Take(c, kind), NEW kinds, kind \notin kinds, ~ NoneOf(kinds)
      PROVE  ~ NoneOf(kinds)'
  BY <1>1, TakeStep, OneEnded
<1>2. CASE EndLoad(c) \/ FailLoad(c)
  <2>1. Take(c, "load") /\ UNCHANGED <<dialog, submitting>>
    BY <1>2 DEF EndLoad, FailLoad, Succeeded, Failed, dialogVars
  <2> QED BY <1>1, <2>1 DEF NeverStuck
<1>3. CASE EndSave(c) \/ FailSave(c)
  <2>1. Take(c, "save") /\ dialog' = dialog /\ submitting' = FALSE
    BY <1>3 DEF EndSave, FailSave, Succeeded, Failed, dialogVars
  <2> QED BY <1>1, <2>1 DEF NeverStuck
<1>4. CASE EndLink(c)
  <2>1. Take(c, "link") /\ UNCHANGED <<dialog, submitting>>
    BY <1>4 DEF EndLink, dialogVars, pageVars
  <2> QED BY <1>1, <2>1 DEF NeverStuck
<1>5. CASE DialogAnswer(c)
  <2>1. Take(c, "request") \/ Take(c, "resend") \/ Take(c, "verify")
    BY <1>5 DEF DialogAnswer, EndRequest, EndResend, EndVerify, EndInError,
                Succeeded, Failed
  <2>2. submitting' = submitting
    BY <1>5 DEF DialogAnswer, pageVars
  <2>3. ~ dialog'.isLoading
    BY <1>5 DEF DialogAnswer, EndRequest, EndResend, EndVerify, EndInError, Ended,
                Retimed, Dialog, ProfileTypeOK
  <2>4. ~ dialog'.canResend => dialog'.secondsRemaining > 0
    <3>1. CASE EndRequest(c) \/ EndResend(c)
      <4>1. dialog'.secondsRemaining = InitialSeconds
        BY <3>1 DEF EndRequest, EndResend, Ended, Retimed, Dialog, ProfileTypeOK
      <4> QED BY <4>1, DialogAssumption
    <3>2. CASE EndVerify(c) \/ EndInError(c)
      <4>1. dialog'.secondsRemaining = dialog.secondsRemaining
            /\ dialog'.canResend = dialog.canResend
        BY <3>2 DEF EndVerify, EndInError, Ended, Dialog, ProfileTypeOK
      <4> QED BY <4>1 DEF NeverStuck
    <3> QED BY <1>5, <3>1, <3>2 DEF DialogAnswer
  <2> QED BY <1>1, <2>1, <2>2, <2>3, <2>4 DEF NeverStuck
<1> QED
  BY <1>2, <1>3, <1>4, <1>5 DEF Handle

LEMMA StuckUser ==
  ASSUME Typed, NeverStuck, User
  PROVE  NeverStuck'
<1> USE DEF Typed
<1>1. ASSUME NEW c \in Call, NEW arg \in {NoEmail} \cup Email \cup Name,
             NEW retries \in 0 .. MutationRetries,
             NEW kind \in {"load", "save", "link", "request", "resend", "verify"},
             Start(c, kind, arg, retries, NoProfile)
      PROVE  /\ \A kinds : ~ NoneOf(kinds) => ~ NoneOf(kinds)'
             /\ \A kinds : kind \in kinds => ~ NoneOf(kinds)'
  <2>1. Idle(c) /\ ~ Idle(c)' /\ Others(c) /\ call'[c].kind = kind
    BY <1>1, StartStep
  <2> QED BY <2>1, NoneEnded DEF NoneOf, Idle
<1>2. 0 \in 0 .. MutationRetries /\ MutationRetries \in 0 .. MutationRetries
  BY RetryAssumption
<1>3. UNCHANGED call => \A kinds : NoneOf(kinds)' = NoneOf(kinds)
  BY DEF NoneOf, Idle
<1>4. CASE EditClick \/ CancelClick \/ \E n \in Name : TypeName(n)
  BY <1>3, <1>4 DEF EditClick, CancelClick, TypeName, dialogVars, NeverStuck
<1>5. CASE ChangeEmail
  <2>1. /\ dialog'.isLoading = dialog.isLoading /\ dialog'.canResend = dialog.canResend
        /\ dialog'.secondsRemaining = dialog.secondsRemaining
    BY <1>5 DEF ChangeEmail, Open, Dialog, ProfileTypeOK
  <2> QED BY <1>3, <1>5, <2>1 DEF ChangeEmail, Open, pageVars, NeverStuck
<1>6. ASSUME NEW c \in Call, Reload(c) \/ ResendLink(c)
      PROVE  NeverStuck'
  <2>1. PICK kind \in {"load", "link"}, retries \in 0 .. MutationRetries :
          Start(c, kind, NoEmail, retries, NoProfile)
    BY <1>2, <1>6 DEF Reload, StartLoad, ResendLink
  <2>2. UNCHANGED <<dialog, submitting>>
    BY <1>6 DEF Reload, ResendLink, dialogVars, pageVars
  <2> QED BY <1>1, <2>1, <2>2 DEF NeverStuck
<1>7. ASSUME NEW c \in Call, Submit(c)
      PROVE  NeverStuck'
  <2>1. Start(c, "save", form, 0, NoProfile) /\ form \in Name /\ dialog' = dialog
    BY <1>7 DEF Submit, dialogVars, ProfileTypeOK
  <2> QED BY <1>1, <1>2, <2>1 DEF NeverStuck
<1>8. CASE Close /\ UNCHANGED pageVars
  <2>1. ~ dialog'.isLoading /\ dialog'.secondsRemaining > 0
    BY <1>8, DialogAssumption DEF Close, Reset
  <2> QED BY <1>3, <1>8, <2>1 DEF Close, pageVars, NeverStuck
<1>9. ASSUME TypeCode \/ \E m \in Email : TypeEmail(m), UNCHANGED pageVars
      PROVE  NeverStuck'
  <2>1. /\ dialog'.isLoading = dialog.isLoading /\ dialog'.canResend = dialog.canResend
        /\ dialog'.secondsRemaining = dialog.secondsRemaining
    BY <1>9 DEF TypeCode, TypeEmail, Dialog, ProfileTypeOK
  <2> QED BY <1>3, <1>9, <2>1 DEF TypeCode, TypeEmail, pageVars, NeverStuck
<1>10. ASSUME NEW c \in Call, NEW kind \in DialogKinds, Send(c, kind), UNCHANGED pageVars
       PROVE  NeverStuck'
  <2>1. /\ Start(c, kind, dialog.newEmail, MutationRetries, NoProfile)
        /\ dialog.newEmail \in {NoEmail} \cup Email
    BY <1>10 DEF Send, ProfileTypeOK, Dialog
  <2>2. dialog'.canResend = dialog.canResend
        /\ dialog'.secondsRemaining = dialog.secondsRemaining
    BY <1>10 DEF Send, Dialog, ProfileTypeOK
  <2> QED BY <1>1, <1>2, <1>10, <2>1, <2>2 DEF DialogKinds, pageVars, NeverStuck
<1>11. CASE DialogClick
  BY <1>8, <1>9, <1>10, <1>11
  DEF DialogClick, RequestEmailChange, VerifyCode, ResendCode, DialogKinds
<1> QED
  BY <1>4, <1>5, <1>6, <1>7, <1>11 DEF User

LEMMA StuckRest ==
  ASSUME Typed, NeverStuck,
         \/ Tick /\ UNCHANGED pageVars
         \/ \E c \in Call : EmailChanged(c)
  PROVE  NeverStuck'
<1> USE DEF Typed
<1>1. CASE Tick /\ UNCHANGED pageVars
  <2>1. /\ dialog'.isLoading = dialog.isLoading
        /\ ~ dialog'.canResend => dialog'.secondsRemaining > 0
    BY <1>1, DialogAssumption DEF Tick, Dialog, ProfileTypeOK
  <2>2. \A kinds : NoneOf(kinds)' = NoneOf(kinds)
    BY <1>1 DEF Tick, NoneOf, Idle
  <2> QED BY <1>1, <2>1, <2>2 DEF pageVars, NeverStuck
<1>2. ASSUME NEW c \in Call, EmailChanged(c)
      PROVE  NeverStuck'
  <2>1. ~ dialog'.isLoading /\ dialog'.secondsRemaining > 0
    BY <1>2, DialogAssumption DEF EmailChanged, CloseAfterSuccess, Reset
  <2>2. Start(c, "load", NoEmail, 0, NoProfile) /\ 0 \in 0 .. MutationRetries
    BY <1>2, RetryAssumption DEF EmailChanged, StartLoad
  <2>3. \A kinds : ~ NoneOf(kinds) => ~ NoneOf(kinds)'
    BY <2>2, StartStep, NoneEnded
  <2> QED BY <1>2, <2>1, <2>3 DEF EmailChanged, NeverStuck
<1> QED BY <1>1, <1>2

\* While the form or the dialog is disabled, a call that will free it is under
\* way, and a code form that offers no other code is counting down to it.
THEOREM ProfileNeverStuck == Spec => []NeverStuck
<1>1. Init => NeverStuck
  BY DialogAssumption DEF Init, DialogInit, Reset, NeverStuck
<1>2. ASSUME Typed, NeverStuck, [Next]_vars
      PROVE  NeverStuck'
  <2>1. CASE UNCHANGED vars
    BY <1>2, <2>1 DEF vars, dialogVars, pageVars, NeverStuck, NoneOf, Idle
  <2> QED
    BY <1>2, <2>1, StuckUser, StuckServe, StuckHandle, StuckRest DEF Next
<1> QED
  BY <1>1, <1>2, TypedInit, TypedStep, PTL DEF Spec

-----------------------------------------------------------------------------
(* The success the dialog shows.                                           *)

\* The dialog's calls are those they were.
SameOurs == \A d \in Call : /\ Ours(d)' <=> Ours(d)
                            /\ Ours(d) => call'[d] = call[d]

\* The dialog shows the same form, and the same address.
SameForm == /\ dialog'.open = dialog.open /\ dialog'.newEmail = dialog.newEmail
            /\ dialog'.isLoading = dialog.isLoading
            /\ dialog'.showCodeInput = dialog.showCodeInput
            /\ dialog'.showSuccess = dialog.showSuccess

\* A step elsewhere may change the name and take the place of the pending token.
LEMMA AttendedKept ==
  ASSUME Attended, SameOurs, SameForm, UNCHANGED <<timeouts, dismissed>>,
         row'.email = row.email, row'.verified = row.verified,
         pending' \in {NoEmail, pending}
  PROVE  Attended'
<1> SUFFICES ASSUME ~ dismissed'
             PROVE  OneCall' /\ CodeIsFor' /\ SuccessIsTrue'
  BY DEF Attended
<1>1. OneCall /\ CodeIsFor /\ SuccessIsTrue /\ ~ dismissed
  BY DEF Attended
<1>2. OneCall'
  BY <1>1 DEF OneCall, SameOurs, SameForm
<1>3. \A c \in Call, kind \in DialogKinds :
        Under(c, kind)' <=> Under(c, kind) /\ call'[c] = call[c]
  BY DEF SameOurs, Ours, Under
<1>4. CodeIsFor'
  BY <1>1, <1>3 DEF CodeIsFor, SameForm, DialogKinds
<1>5. SuccessIsTrue'
  BY <1>1 DEF SuccessIsTrue, SameForm
<1> QED BY <1>2, <1>4, <1>5

LEMMA OthersSame ==
  ASSUME NEW c \in Call, Others(c), ~ Ours(c), ~ Ours(c)'
  PROVE  SameOurs
  BY DEF Others, SameOurs, Ours, Idle

LEMMA AttendedServe ==
  ASSUME Typed, Attended, NEW c \in Call, Serve(c)
  PROVE  Attended'
<1> USE DEF Typed
<1>1. /\ ~ Idle(c) /\ call[c].stage = "sent"
      /\ Fail(c) \/ \E v \in {NoProfile} \cup Profile : Respond(c, v)
  <2>1. ServeSave(c) => row' \in Profile
    BY TypedServe DEF ProfileTypeOK
  <2> QED
    BY <2>1 DEF Serve, ServeLoad, ServeSave, ServeLink, ServeRequest, ServeVerify,
                Unserved, Arrives, Under, ProfileTypeOK
<1>2. /\ ~ Idle(c)' /\ Others(c)
      /\ call'[c].kind = call[c].kind /\ call'[c].arg = call[c].arg
  BY <1>1, FailStep, RespondStep
<1>3. UNCHANGED <<dialog, timeouts, dismissed>>
  BY DEF Serve, ServeLoad, ServeSave, ServeLink, ServeRequest, ServeVerify,
         Unserved, dialogVars, pageVars
<1>4. CASE ~ Ours(c)
  <2>1. SameOurs
    BY <1>1, <1>2, <1>4, OthersSame DEF Ours
  <2>2. /\ row'.email = row.email /\ row'.verified = row.verified
        /\ pending' \in {NoEmail, pending}
    BY <1>4 DEF Serve, ServeLoad, ServeSave, ServeLink, ServeRequest, ServeVerify,
                Unserved, Arrives, Under, Ours, DialogKinds, dialogVars,
                ProfileTypeOK, Profile
  <2> QED BY <1>3, <2>1, <2>2, AttendedKept DEF SameForm
<1>5. CASE Ours(c)
  <2> SUFFICES ASSUME ~ dismissed'
               PROVE  OneCall' /\ CodeIsFor' /\ SuccessIsTrue'
    BY DEF Attended
  <2>1. OneCall /\ CodeIsFor /\ SuccessIsTrue /\ ~ dismissed
    BY <1>3 DEF Attended
  <2>2. \A d \in Call : Ours(d)' <=> d = c
    BY <1>2, <1>5, <2>1 DEF OneCall, Ours, Others, Idle
  <2>3. OneCall'
    BY <1>3, <1>5, <2>1, <2>2 DEF OneCall
  <2>4. SuccessIsTrue'
    BY <1>3, <1>5, <2>1 DEF SuccessIsTrue, OneCall
  <2>5. \A d \in Call, kind \in DialogKinds : Under(d, kind)' <=> d = c /\ Under(c, kind)
    BY <1>1, <1>2, <2>2 DEF Under, Ours
  <2>6. CASE ServeRequest(c) /\ UNCHANGED pageVars
    <3>1. /\ call[c].kind \in {"request", "resend"} /\ row' = row
          /\ call[c].arg = dialog.newEmail /\ pending' = call[c].arg
      BY <2>1, <2>6 DEF ServeRequest, Arrives, Under, CodeIsFor
    <3> QED BY <1>2, <1>3, <2>1, <2>3, <2>4, <2>5, <3>1
            DEF CodeIsFor, DialogKinds, Under
  <2>7. CASE ServeVerify(c) /\ UNCHANGED pageVars
    <3>1. call[c].kind = "verify" /\ dialog.showCodeInput
      BY <2>1, <2>7 DEF ServeVerify, Arrives, Under, CodeIsFor
    <3>2. pending = dialog.newEmail /\ pending' \in {NoEmail, pending}
      BY <2>1, <2>7, <3>1 DEF ServeVerify, CodeIsFor
    <3>3. row'.email = dialog.newEmail /\ row'.verified
      BY <2>7, <3>2 DEF ServeVerify, ProfileTypeOK, Profile
    <3> QED BY <1>2, <1>3, <2>1, <2>3, <2>4, <2>5, <3>1, <3>2, <3>3
            DEF CodeIsFor, DialogKinds, Under
  <2>8. CASE Unserved(c) /\ UNCHANGED pageVars
    <3>1. ~ call'[c].ok /\ UNCHANGED <<row, pending>>
      BY <1>1, <2>8, FailStep DEF Unserved, dialogVars
    <3> QED BY <1>2, <1>3, <2>1, <2>3, <2>4, <2>5, <3>1
            DEF CodeIsFor, DialogKinds, Under
  <2> QED
    BY <1>5, <2>6, <2>7, <2>8 DEF Serve, ServeLoad, ServeSave, ServeLink, Arrives,
                                  Under, Ours, DialogKinds
<1> QED BY <1>4, <1>5

LEMMA AttendedHandle ==
  ASSUME Typed, Attended, NEW c \in Call, Handle(c)
  PROVE  Attended'
<1> USE DEF Typed
<1>1. CASE EndLoad(c) \/ FailLoad(c) \/ EndSave(c) \/ FailSave(c) \/ EndLink(c)
  <2>1. PICK kind \in {"load", "save", "link"} : Take(c, kind)
    BY <1>1 DEF EndLoad, FailLoad, EndSave, FailSave, EndLink, Succeeded, Failed
  <2>2. SameOurs
    BY <2>1, TakeStep, OthersSame DEF Ours, DialogKinds
  <2>3. UNCHANGED dialogVars
    BY <1>1 DEF EndLoad, FailLoad, EndSave, FailSave, EndLink
  <2> QED BY <2>2, <2>3, AttendedKept DEF dialogVars, SameForm
<1>2. CASE DialogAnswer(c)
  <2> SUFFICES ASSUME ~ dismissed'
               PROVE  OneCall' /\ CodeIsFor' /\ SuccessIsTrue'
    BY DEF Attended
  <2>1. PICK kind \in DialogKinds : Take(c, kind)
    BY <1>2 DEF DialogAnswer, EndRequest, EndResend, EndVerify, EndInError, Succeeded,
                Failed, DialogKinds
  <2>2. OneCall /\ CodeIsFor /\ SuccessIsTrue /\ ~ dismissed
        /\ UNCHANGED <<row, pending>>
    BY <1>2 DEF DialogAnswer, EndRequest, EndResend, EndVerify, EndInError, Attended
  <2>3. /\ \A d \in Call : ~ Ours(d)' /\ ~ Idle(c) /\ Ours(c)
        /\ \A d \in Call, k \in DialogKinds : ~ Under(d, k)'
    BY <2>1, <2>2, TakeStep DEF OneCall, Ours, Under, Others, Idle
  <2>4. timeouts = 0 /\ ~ dialog.showSuccess
    BY <2>2, <2>3 DEF OneCall
  <2>5. dialog'.newEmail = dialog.newEmail
    BY <1>2 DEF DialogAnswer, EndRequest, EndResend, EndVerify, EndInError, Ended,
                Retimed, Dialog, ProfileTypeOK
  <2>6. CASE EndRequest(c)
    <3>1. timeouts' = 0 /\ ~ dialog'.showSuccess
      BY <2>4, <2>6 DEF EndRequest, Ended, Retimed, Dialog, ProfileTypeOK
    <3>2. pending \in {NoEmail, dialog.newEmail}
      BY <2>2, <2>6 DEF EndRequest, Succeeded, Take, CodeIsFor
    <3> QED BY <2>2, <2>3, <2>5, <3>1, <3>2
            DEF OneCall, CodeIsFor, SuccessIsTrue, DialogKinds
  <2>7. CASE EndResend(c) \/ EndInError(c)
    <3>1. timeouts' = 0 /\ ~ dialog'.showSuccess
          /\ dialog'.showCodeInput = dialog.showCodeInput
      BY <2>4, <2>7 DEF EndResend, EndInError, Ended, Retimed, Dialog, ProfileTypeOK
    <3> QED BY <2>2, <2>3, <2>5, <3>1
            DEF OneCall, CodeIsFor, SuccessIsTrue, DialogKinds
  <2>8. CASE EndVerify(c)
    <3>1. timeouts' = 1 /\ dialog'.showSuccess
          /\ dialog'.showCodeInput = dialog.showCodeInput
      BY <2>4, <2>8 DEF EndVerify, Ended, Dialog, ProfileTypeOK
    <3>2. row.email = dialog.newEmail /\ row.verified
      BY <2>2, <2>8 DEF EndVerify, Succeeded, Take, CodeIsFor
    <3> QED BY <2>2, <2>3, <2>5, <3>1, <3>2
            DEF OneCall, CodeIsFor, SuccessIsTrue, DialogKinds
  <2> QED BY <1>2, <2>6, <2>7, <2>8 DEF DialogAnswer
<1> QED
  BY <1>1, <1>2 DEF Handle

LEMMA AttendedUser ==
  ASSUME Typed, Attended, User
  PROVE  Attended'
<1> USE DEF Typed
<1>1. UNCHANGED call => SameOurs
  BY DEF SameOurs, Ours, Idle
<1>2. CASE EditClick \/ CancelClick \/ \E n \in Name : TypeName(n)
  <2>1. UNCHANGED <<call, dialogVars>>
    BY <1>2 DEF EditClick, CancelClick, TypeName
  <2> QED BY <1>1, <2>1, AttendedKept DEF dialogVars, SameForm
<1>3. ASSUME NEW c \in Call, Reload(c) \/ Submit(c) \/ ResendLink(c)
      PROVE  Attended'
  <2>1. ASSUME NEW kind \in {"load", "save", "link"}, NEW retries \in 0 .. MutationRetries,
               NEW arg \in {NoEmail} \cup Email \cup Name,
               Start(c, kind, arg, retries, NoProfile)
        PROVE  SameOurs
    BY <2>1, StartStep, OthersSame DEF Ours, DialogKinds
  <2>2. SameOurs
    <3>1. 0 \in 0 .. MutationRetries /\ MutationRetries \in 0 .. MutationRetries
      BY RetryAssumption
    <3>2. CASE Reload(c) \/ ResendLink(c)
      BY <2>1, <3>1, <3>2 DEF Reload, StartLoad, ResendLink
    <3>3. CASE Submit(c)
      BY <2>1, <3>1, <3>3 DEF Submit, ProfileTypeOK
    <3> QED BY <1>3, <3>2, <3>3
  <2>3. UNCHANGED dialogVars
    BY <1>3 DEF Reload, Submit, ResendLink
  <2> QED BY <2>2, <2>3, AttendedKept DEF dialogVars, SameForm
<1>4. ASSUME UNCHANGED <<row, pending, timeouts>>, timeouts = 0, ~ dialog'.showSuccess,
             ~ dialog'.showCodeInput, \A d \in Call : ~ Ours(d)'
      PROVE  Attended'
  <2>1. \A d \in Call, kind \in DialogKinds : ~ Under(d, kind)'
    BY <1>4 DEF Under, Ours
  <2> QED BY <1>4, <2>1 DEF Attended, OneCall, CodeIsFor, SuccessIsTrue, DialogKinds
<1>5. NoneOf(DialogKinds) <=> \A d \in Call : ~ Ours(d)
  BY DEF NoneOf, Ours
<1>6. CASE ChangeEmail /\ ~ dismissed
  <2>1. dismissed' = FALSE /\ ~ dialog.open /\ UNCHANGED <<call, row, pending, timeouts>>
    BY <1>6 DEF ChangeEmail, Open, Clean
  <2>2. OneCall /\ CodeIsFor /\ SuccessIsTrue
    BY <1>6 DEF Attended
  <2>3. /\ dialog'.newEmail = dialog.newEmail
        /\ dialog'.showCodeInput = dialog.showCodeInput
        /\ dialog'.showSuccess = dialog.showSuccess
    BY <1>6 DEF ChangeEmail, Open, Dialog, ProfileTypeOK
  <2>4. \A d \in Call : ~ Ours(d) /\ ~ Ours(d)'
    BY <2>1, <2>2 DEF OneCall, Ours, Idle
  <2>5. \A d \in Call, kind \in DialogKinds : ~ Under(d, kind)'
    BY <2>4 DEF Under, Ours
  <2> QED BY <1>6, <2>1, <2>2, <2>3, <2>4, <2>5
          DEF Attended, OneCall, CodeIsFor, SuccessIsTrue, DialogKinds
<1>7. CASE ChangeEmail /\ dismissed
  <2>1. ~ dismissed' => Clean
    BY <1>7 DEF ChangeEmail, Open
  <2>2. CASE Clean
    <3>1. ~ dialog'.showSuccess /\ ~ dialog'.showCodeInput
      BY <1>7, <2>2 DEF ChangeEmail, Open, Clean, Reset
    <3>2. \A d \in Call : ~ Ours(d)'
      BY <1>7, <2>2 DEF ChangeEmail, Open, Clean, Quiet, Ours, Idle
    <3>3. UNCHANGED <<row, pending, timeouts>> /\ timeouts = 0
      BY <1>7, <2>2 DEF ChangeEmail, Open, Clean
    <3> QED BY <1>4, <3>1, <3>2, <3>3
  <2> QED BY <2>1, <2>2 DEF Attended
<1>8. CASE Close /\ UNCHANGED pageVars
  <2> SUFFICES ASSUME ~ dismissed'
               PROVE  Attended'
    BY DEF Attended
  <2>1. NoneOf(DialogKinds) /\ ~ (timeouts > 0)
    BY <1>8 DEF Close, DialogKinds
  <2>2. timeouts = 0
    BY <2>1, DialogAssumption DEF ProfileTypeOK
  <2>3. \A d \in Call : ~ Ours(d)'
    BY <1>5, <1>8, <2>1 DEF Close, Ours, Idle
  <2>4. ~ dialog'.showSuccess /\ ~ dialog'.showCodeInput
    BY <1>8 DEF Close, Reset
  <2> QED BY <1>4, <1>8, <2>2, <2>3, <2>4 DEF Close
<1>9. CASE TypeCode /\ UNCHANGED pageVars
  <2>1. SameForm
    BY <1>9 DEF TypeCode, SameForm, Dialog, ProfileTypeOK
  <2> QED BY <1>1, <1>9, <2>1, AttendedKept DEF TypeCode
<1>10. ASSUME NEW m \in Email, TypeEmail(m), UNCHANGED pageVars, ~ dismissed'
       PROVE  Attended'
  <2>1. OneCall /\ ~ dialog.isLoading /\ ~ dialog.showSuccess /\ ~ dialog.showCodeInput
    BY <1>10 DEF TypeEmail, AddressForm, Attended
  <2>2. timeouts = 0 /\ \A d \in Call : ~ Ours(d)
    BY <2>1, DialogAssumption DEF OneCall, ProfileTypeOK
  <2>3. ~ dialog'.showSuccess /\ ~ dialog'.showCodeInput
    BY <1>10, <2>1 DEF TypeEmail, Dialog, ProfileTypeOK
  <2>4. \A d \in Call : ~ Ours(d)'
    BY <1>10, <2>2 DEF TypeEmail, Ours, Idle
  <2> QED BY <1>4, <1>10, <2>2, <2>3, <2>4 DEF TypeEmail
<1>11. ASSUME NEW c \in Call, NEW kind \in DialogKinds, Send(c, kind),
              dialog.open, ~ dialog.showSuccess,
              kind = "request" <=> ~ dialog.showCodeInput, ~ dismissed'
       PROVE  Attended'
  <2>1. /\ OneCall /\ CodeIsFor /\ ~ dialog.isLoading
        /\ UNCHANGED <<row, pending, timeouts>>
    BY <1>11 DEF Send, Attended
  <2>2. timeouts = 0 /\ \A d \in Call : ~ Ours(d)
    BY <1>11, <2>1, DialogAssumption DEF OneCall, ProfileTypeOK
  <2>3. /\ dialog'.open /\ dialog'.isLoading /\ ~ dialog'.showSuccess
        /\ dialog'.showCodeInput = dialog.showCodeInput
        /\ dialog'.newEmail = dialog.newEmail
    BY <1>11 DEF Send, Dialog, ProfileTypeOK
  <2>4. /\ Start(c, kind, dialog.newEmail, MutationRetries, NoProfile)
        /\ dialog.newEmail \in {NoEmail} \cup Email \cup Name
        /\ MutationRetries \in 0 .. MutationRetries
    BY <1>11, RetryAssumption DEF Send, ProfileTypeOK, Dialog
  <2>5. /\ ~ Idle(c)' /\ Others(c) /\ call'[c].kind = kind
        /\ call'[c].arg = dialog.newEmail /\ ~ call'[c].ok
    BY <2>4, StartStep DEF DialogKinds
  <2>6. \A d \in Call : Ours(d)' <=> d = c
    BY <2>2, <2>5 DEF Ours, Others, Idle
  <2>7. \A d \in Call, k \in DialogKinds : Under(d, k)' <=> d = c /\ k = kind
    BY <2>5, <2>6 DEF Under, Ours
  <2>8. OneCall'
    BY <2>1, <2>2, <2>3, <2>6 DEF OneCall
  <2>9. CodeIsFor'
    BY <1>11, <2>1, <2>3, <2>5, <2>7 DEF CodeIsFor, DialogKinds
  <2> QED BY <2>3, <2>8, <2>9 DEF Attended, SuccessIsTrue
<1>12. CASE DialogClick
  <2>1. CASE Close \/ TypeCode
    BY <1>8, <1>9, <1>12, <2>1 DEF DialogClick
  <2>2. CASE \E m \in Email : TypeEmail(m)
    BY <1>10, <1>12, <2>2 DEF DialogClick, Attended
  <2>3. ASSUME NEW c \in Call,
               RequestEmailChange(c, profile.email) \/ VerifyCode(c) \/ ResendCode(c)
        PROVE  Attended'
    BY <1>11, <2>3 DEF RequestEmailChange, VerifyCode, ResendCode, AddressForm,
                       CodeForm, DialogKinds, Attended
  <2> QED BY <1>12, <2>1, <2>2, <2>3 DEF DialogClick
<1> QED
  BY <1>2, <1>3, <1>6, <1>7, <1>12 DEF User

LEMMA AttendedRest ==
  ASSUME Typed, Attended,
         \/ Tick /\ UNCHANGED pageVars
         \/ \E c \in Call : EmailChanged(c)
  PROVE  Attended'
<1> USE DEF Typed
<1>1. CASE Tick
  <2>1. SameForm
    BY <1>1 DEF Tick, SameForm, Dialog, ProfileTypeOK
  <2>2. SameOurs
    BY <1>1 DEF Tick, SameOurs, Ours, Idle
  <2> QED BY <1>1, <2>1, <2>2, AttendedKept DEF Tick
<1>2. ASSUME NEW c \in Call, EmailChanged(c), ~ dismissed'
      PROVE  Attended'
  <2>1. /\ OneCall /\ timeouts > 0 /\ timeouts' = timeouts - 1
        /\ Start(c, "load", NoEmail, 0, NoProfile) /\ 0 \in 0 .. MutationRetries
    BY <1>2, RetryAssumption DEF EmailChanged, CloseAfterSuccess, StartLoad, Attended
  <2>2. timeouts = 1 /\ \A d \in Call : ~ Ours(d)
    BY <2>1 DEF OneCall
  <2>3. timeouts' = 0
    BY <2>1, <2>2
  <2>4. SameOurs
    BY <2>1, StartStep, OthersSame DEF Ours, DialogKinds
  <2>5. \A d \in Call : ~ Ours(d)'
    BY <2>2, <2>4 DEF SameOurs
  <2>6. \A d \in Call, kind \in DialogKinds : ~ Under(d, kind)'
    BY <2>5 DEF Under, Ours
  <2>7. ~ dialog'.showSuccess /\ ~ dialog'.showCodeInput
    BY <1>2 DEF EmailChanged, CloseAfterSuccess, Reset
  <2> QED BY <2>3, <2>5, <2>6, <2>7
          DEF Attended, OneCall, CodeIsFor, SuccessIsTrue, DialogKinds
<1> QED BY <1>1, <1>2 DEF Attended

\* Unless the dialog was closed over something under way, the success it shows is
\* true of the row, even if the verification was tried twice or a code was asked
\* for several times.
THEOREM ProfileSuccessIsTrue == Spec => []SuccessIsTrue
<1>1. Init => Attended
  <2> SUFFICES ASSUME Init
               PROVE  Attended
    OBVIOUS
  <2>1. /\ timeouts = 0 /\ ~ dialog.showSuccess /\ ~ dialog.showCodeInput
    BY DEF Init, DialogInit, Reset
  <2>2. PICK c \in Call :
          call = [d \in Call |->
                    IF d = c THEN [kind |-> "load", arg |-> NoEmail, left |-> 0,
                                   stage |-> "sent", ok |-> FALSE,
                                   value |-> NoProfile]
                    ELSE NoCall]
    BY DEF Init
  <2>3. \A d \in Call : ~ Ours(d)
    BY <2>2 DEF Ours, Idle, DialogKinds
  <2>4. \A d \in Call, kind \in DialogKinds : ~ Under(d, kind)
    BY <2>3 DEF Under, Ours
  <2> QED BY <2>1, <2>3, <2>4 DEF Attended, OneCall, CodeIsFor, SuccessIsTrue, DialogKinds
<1>2. ASSUME Typed, Attended, [Next]_vars
      PROVE  Attended'
  <2>1. CASE UNCHANGED vars
    <3>1. SameOurs
      BY <2>1 DEF vars, SameOurs, Ours, Idle
    <3> QED BY <1>2, <2>1, <3>1, AttendedKept DEF vars, dialogVars, SameForm
  <2> QED
    BY <1>2, <2>1, AttendedUser, AttendedServe, AttendedHandle, AttendedRest DEF Next
<1>3. Attended => SuccessIsTrue
  BY DEF Attended, SuccessIsTrue
<1> QED
  BY <1>1, <1>2, <1>3, TypedInit, TypedStep, PTL DEF Spec

-----------------------------------------------------------------------------
(* What the page shows at rest.                                            *)

Reads == OneSave /\ Fresh

\* The loads and the saves are those they were, none newly answered.
SameReads ==
    \A d \in Call, kind \in {"load", "save"} :
        /\ Under(d, kind)' <=> Under(d, kind)
        /\ Under(d, kind) /\ call'[d].ok
             => call[d].ok /\ call'[d].value = call[d].value

LEMMA NoReads == NoneOf({"load", "save"}) <=>
                   \A d \in Call : ~ Under(d, "load") /\ ~ Under(d, "save")
  BY DEF NoneOf, Under

LEMMA ReadsKept ==
  ASSUME Reads, SameReads, UNCHANGED <<row, profile, submitting>>,
         unseen => unseen',
         ~ unseen' /\ timeouts' = 0 /\ NoneOf({"verify"})'
           => timeouts = 0 /\ NoneOf({"verify"})
  PROVE  Reads'
<1>1. \A d \in Call : /\ Under(d, "load")' <=> Under(d, "load")
                      /\ Under(d, "save")' <=> Under(d, "save")
  BY DEF SameReads
<1>2. OneSave'
  BY <1>1 DEF Reads, OneSave
<1>3. ASSUME ~ unseen'
      PROVE  Heard'
  <2>1. Heard
    BY <1>3 DEF Reads, Fresh
  <2>2. /\ \A d, e \in Call : Under(d, "load")' /\ Under(e, "load")' => d = e
        /\ \A d, e \in Call : ~ (Under(d, "load")' /\ Under(e, "save")')
    BY <1>1, <2>1 DEF Heard
  <2>3. ASSUME timeouts' = 0, NoneOf({"verify"})'
        PROVE  /\ \A d \in Call : (Under(d, "load") \/ Under(d, "save"))' /\ call'[d].ok
                                   => call'[d].value = row'
               /\ NoneOf({"load", "save"})' /\ profile' # NoProfile => profile' = row'
    <3>1. timeouts = 0 /\ NoneOf({"verify"})
      BY <1>3, <2>3
    <3>2. NoneOf({"load", "save"})' <=> NoneOf({"load", "save"})
      BY <1>1 DEF NoneOf, Under
    <3>3. \A d \in Call : (Under(d, "load") \/ Under(d, "save"))' /\ call'[d].ok
                            => call'[d].value = row'
      BY <1>1, <2>1, <3>1 DEF SameReads, Heard
    <3> QED BY <2>1, <3>1, <3>2, <3>3 DEF Heard
  <2> QED BY <2>2, <2>3 DEF Heard
<1> QED BY <1>2, <1>3 DEF Reads, Fresh

\* A step of a call that neither reads nor writes the row's copy.
LEMMA OtherReads ==
  ASSUME NEW c \in Call, Others(c),
         ~ Under(c, "load"), ~ Under(c, "save"),
         ~ Under(c, "load")', ~ Under(c, "save")'
  PROVE  SameReads
<1> SUFFICES ASSUME NEW d \in Call, NEW kind \in {"load", "save"}
             PROVE  /\ Under(d, kind)' <=> Under(d, kind)
                    /\ Under(d, kind) /\ call'[d].ok
                         => call[d].ok /\ call'[d].value = call[d].value
  BY DEF SameReads
<1>1. CASE d = c
  BY <1>1
<1>2. CASE d # c
  BY <1>2 DEF Others, Under, Idle
<1> QED BY <1>1, <1>2

\* The end of call c, of another kind than verify, ends no verification.
LEMMA VerifyKept ==
  ASSUME NEW c \in Call, Others(c), NoneOf({"verify"})', ~ Under(c, "verify")
  PROVE  NoneOf({"verify"})
  BY DEF NoneOf, Others, Under, Idle

LEMMA ReadsServe ==
  ASSUME Typed, Reads, NEW c \in Call, Serve(c)
  PROVE  Reads'
<1> USE DEF Typed
<1>1. /\ ~ Idle(c) /\ call[c].stage = "sent"
      /\ Fail(c) \/ \E v \in {NoProfile} \cup Profile : Respond(c, v)
  <2>1. ServeSave(c) => row' \in Profile
    BY TypedServe DEF ProfileTypeOK
  <2> QED
    BY <2>1 DEF Serve, ServeLoad, ServeSave, ServeLink, ServeRequest, ServeVerify,
                Unserved, Arrives, Under, ProfileTypeOK
<1>2. ~ Idle(c)' /\ Others(c) /\ call'[c].kind = call[c].kind
  BY <1>1, FailStep, RespondStep
<1>3. UNCHANGED <<profile, submitting, unseen, timeouts>>
  BY DEF Serve, ServeLoad, ServeSave, ServeLink, ServeRequest, ServeVerify,
         Unserved, dialogVars, pageVars
<1>4. \A d \in Call : \A kind : Under(d, kind)' <=> Under(d, kind)
  BY <1>1, <1>2 DEF Under, Others, Idle
<1>5. \A kinds : NoneOf(kinds)' <=> NoneOf(kinds)
  <2>1. \A d \in Call : /\ Idle(d)' <=> Idle(d)
                        /\ ~ Idle(d) => call'[d].kind = call[d].kind
    BY <1>1, <1>2 DEF Others, Idle
  <2> QED BY <2>1 DEF NoneOf
<1>6. OneSave'
  BY <1>3, <1>4 DEF Reads, OneSave
<1>7. ASSUME ~ unseen, Heard
      PROVE  /\ \A d, e \in Call : Under(d, "load")' /\ Under(e, "load")' => d = e
             /\ \A d, e \in Call : ~ (Under(d, "load")' /\ Under(e, "save")')
  BY <1>4, <1>7 DEF Heard
<1>8. CASE ServeLoad(c)
  <2>1. call[c].kind = "load" /\ Respond(c, row) /\ row \in Profile /\ row' = row
    BY <1>8 DEF ServeLoad, Arrives, Under, dialogVars, ProfileTypeOK
  <2>2. call'[c].ok => call'[c].value = row
    BY <1>1, <2>1, RespondStep
  <2>3. ASSUME ~ unseen, Heard
        PROVE  Heard'
    <3>1. \A d \in Call : Under(d, "load") \/ Under(d, "save") => d = c
      BY <1>1, <2>1, <2>3 DEF Heard, Under
    <3> QED BY <1>3, <1>4, <1>5, <1>7, <2>1, <2>2, <2>3, <3>1 DEF Heard
  <2> QED BY <1>3, <1>6, <2>3 DEF Reads, Fresh
<1>9. CASE ServeSave(c)
  <2>1. call[c].kind = "save" /\ Respond(c, row')
    BY <1>9 DEF ServeSave, Arrives, Under
  <2>2. row' \in Profile
    BY TypedServe DEF ProfileTypeOK
  <2>3. call'[c].ok => call'[c].value = row'
    BY <1>1, <2>1, <2>2, RespondStep
  <2>4. ASSUME ~ unseen, Heard
        PROVE  Heard'
    <3>1. Under(c, "save")
      BY <1>1, <2>1 DEF Under
    <3>2. \A d \in Call : Under(d, "load") \/ Under(d, "save") => d = c
      BY <2>4, <3>1 DEF Heard, Reads, OneSave
    <3>3. ~ NoneOf({"load", "save"})'
      BY <1>5, <3>1, NoReads
    <3> QED BY <1>4, <1>7, <2>3, <2>4, <3>2, <3>3 DEF Heard
  <2> QED BY <1>3, <1>6, <2>4 DEF Reads, Fresh
<1>10. CASE ServeVerify(c) /\ UNCHANGED pageVars
  <2>1. call[c].kind = "verify"
    BY <1>10 DEF ServeVerify, Arrives, Under
  <2>2. ~ NoneOf({"verify"})'
    BY <1>1, <1>5, <2>1 DEF NoneOf
  <2> QED BY <1>3, <1>6, <1>7, <2>2 DEF Reads, Fresh, Heard
<1>11. CASE (ServeLink(c) \/ ServeRequest(c)) /\ row' = row
  <2>1. call[c].kind \in {"link", "request", "resend"}
    BY <1>11 DEF ServeLink, ServeRequest, Arrives, Under
  <2>2. SameReads
    BY <1>2, <1>4, <2>1, OtherReads DEF Under
  <2> QED BY <1>3, <1>5, <1>11, <2>2, ReadsKept DEF ProfileTypeOK
<1>12. CASE Unserved(c)
  <2>1. row' = row /\ ~ call'[c].ok
    BY <1>1, <1>12, FailStep DEF Unserved, dialogVars
  <2>2. SameReads
    BY <1>2, <1>4, <2>1 DEF SameReads, Others
  <2> QED BY <1>3, <1>5, <2>1, <2>2, ReadsKept DEF ProfileTypeOK
<1> QED
  BY <1>8, <1>9, <1>10, <1>11, <1>12 DEF Serve, ServeLink, ServeRequest

LEMMA ReadsHandle ==
  ASSUME Typed, Reads, NEW c \in Call, Handle(c)
  PROVE  Reads'
<1> USE DEF Typed
<1>1. CASE EndLoad(c)
  <2>1. Take(c, "load") /\ call[c].ok
    BY <1>1 DEF EndLoad, Succeeded
  <2>2. Idle(c)' /\ ~ Idle(c) /\ Others(c) /\ Under(c, "load")
    BY <2>1, TakeStep DEF Under
  <2>3. /\ UNCHANGED <<row, timeouts, submitting, unseen>>
        /\ profile' = call[c].value
    BY <1>1 DEF EndLoad, dialogVars
  <2>4. \A d \in Call : Under(d, "save")' <=> Under(d, "save")
    BY <2>2 DEF Under, Others, Idle
  <2>5. OneSave'
    BY <2>3, <2>4 DEF Reads, OneSave
  <2>6. ASSUME ~ unseen, Heard
        PROVE  Heard'
    <3>1. \A d \in Call : ~ Under(d, "load")' /\ ~ Under(d, "save")'
      BY <2>2, <2>6 DEF Heard, Under, Others, Idle
    <3>2. NoneOf({"verify"})' => NoneOf({"verify"})
      BY <2>2, VerifyKept DEF Under
    <3> QED BY <2>1, <2>2, <2>3, <2>6, <3>1, <3>2 DEF Heard
  <2> QED BY <2>3, <2>5, <2>6 DEF Reads, Fresh
<1>2. CASE FailLoad(c)
  <2>1. unseen' = TRUE /\ submitting' = submitting /\ Take(c, "load")
    BY <1>2 DEF FailLoad, Failed
  <2>2. \A d \in Call : Under(d, "save")' <=> Under(d, "save")
    BY <2>1, TakeStep DEF Under, Others, Idle
  <2> QED BY <2>1, <2>2 DEF Reads, OneSave, Fresh
<1>3. ASSUME EndSave(c) \/ FailSave(c)
      PROVE  \A d \in Call : ~ Under(d, "save")'
  <2>1. Take(c, "save")
    BY <1>3 DEF EndSave, FailSave, Succeeded, Failed
  <2>2. Idle(c)' /\ ~ Idle(c) /\ Others(c) /\ Under(c, "save")
    BY <2>1, TakeStep DEF Under
  <2> QED BY <2>2 DEF Reads, OneSave, Under, Others, Idle
<1>4. CASE EndSave(c)
  <2>1. Take(c, "save") /\ call[c].ok
    BY <1>4 DEF EndSave, Succeeded
  <2>2. Idle(c)' /\ ~ Idle(c) /\ Others(c) /\ Under(c, "save")
    BY <2>1, TakeStep DEF Under
  <2>3. UNCHANGED <<row, timeouts, unseen>> /\ profile' = call[c].value
    BY <1>4 DEF EndSave, dialogVars
  <2>4. OneSave'
    BY <1>3, <1>4 DEF OneSave
  <2>5. ASSUME ~ unseen, Heard
        PROVE  Heard'
    <3>1. \A d \in Call : ~ Under(d, "load")' /\ ~ Under(d, "save")'
      BY <1>3, <1>4, <2>2, <2>5 DEF Heard, Under, Others, Idle
    <3>2. NoneOf({"verify"})' => NoneOf({"verify"})
      BY <2>2, VerifyKept DEF Under
    <3> QED BY <2>1, <2>2, <2>3, <2>5, <3>1, <3>2 DEF Heard
  <2> QED BY <2>3, <2>4, <2>5 DEF Reads, Fresh
<1>5. CASE FailSave(c)
  BY <1>3, <1>5 DEF FailSave, Reads, OneSave, Fresh
<1>6. ASSUME NEW kind, kind \notin {"load", "save"}, Take(c, kind)
      PROVE  SameReads /\ (kind # "verify" /\ NoneOf({"verify"})' => NoneOf({"verify"}))
  <2>1. Idle(c)' /\ ~ Idle(c) /\ Others(c) /\ call[c].kind = kind
    BY <1>6, TakeStep
  <2> QED BY <1>6, <2>1, OtherReads, VerifyKept DEF Under
<1>7. CASE EndLink(c)
  <2>1. Take(c, "link") /\ UNCHANGED <<row, profile, submitting, unseen, timeouts>>
    BY <1>7 DEF EndLink, dialogVars, pageVars
  <2> QED BY <1>6, <2>1, ReadsKept
<1>8. CASE (EndRequest(c) \/ EndResend(c)) /\ UNCHANGED pageVars
  <2>1. Take(c, "request") \/ Take(c, "resend")
    BY <1>8 DEF EndRequest, EndResend, Succeeded
  <2>2. UNCHANGED <<row, profile, submitting, unseen, timeouts>>
    BY <1>8 DEF EndRequest, EndResend, pageVars
  <2> QED BY <1>6, <2>1, <2>2, ReadsKept
<1>9. CASE EndVerify(c) /\ UNCHANGED pageVars
  <2>1. Take(c, "verify") /\ UNCHANGED <<row, profile, submitting, unseen>>
    BY <1>9 DEF EndVerify, Succeeded, pageVars
  <2>2. timeouts' # 0
    BY <1>9, DialogAssumption DEF EndVerify, ProfileTypeOK
  <2> QED BY <1>6, <2>1, <2>2, ReadsKept
<1>10. CASE /\ EndInError(c)
            /\ unseen' = (unseen \/ call[c].kind = "verify")
            /\ UNCHANGED <<profile, mode, form, submitting>>
  <2>1. PICK kind \in DialogKinds : Take(c, kind)
    BY <1>10 DEF EndInError, Failed, DialogKinds
  <2>2. SameReads /\ (kind # "verify" /\ NoneOf({"verify"})' => NoneOf({"verify"}))
    BY <1>6, <2>1 DEF DialogKinds
  <2>3. unseen => unseen'
    BY <1>10
  <2>4. kind = "verify" => unseen'
    BY <1>10, <2>1 DEF Take, Under
  <2>5. UNCHANGED <<row, profile, submitting, timeouts>>
    BY <1>10 DEF EndInError
  <2> QED BY <2>2, <2>3, <2>4, <2>5, ReadsKept
<1> QED
  BY <1>1, <1>2, <1>4, <1>5, <1>7, <1>8, <1>9, <1>10 DEF Handle, DialogAnswer

\* A load is started over nothing, or over neither a load nor a save.
LEMMA ReadsStartLoad ==
  ASSUME Typed, Reads, NEW c \in Call, StartLoad(c),
         UNCHANGED <<row, profile, submitting>>
  PROVE  Reads'
<1> USE DEF Typed
<1>1. /\ Start(c, "load", NoEmail, 0, NoProfile) /\ 0 \in 0 .. MutationRetries
      /\ unseen' = IF Quiet THEN FALSE ELSE unseen \/ ~ NoneOf({"load", "save"})
  BY RetryAssumption DEF StartLoad
<1>2. /\ Idle(c) /\ ~ Idle(c)' /\ Others(c)
      /\ call'[c].kind = "load" /\ ~ call'[c].ok
  BY <1>1, StartStep
<1>3. OneSave'
  <2>1. \A d \in Call : Under(d, "save")' <=> Under(d, "save")
    BY <1>2 DEF Under, Others, Idle
  <2> QED BY <2>1 DEF Reads, OneSave
<1>4. ASSUME ~ unseen'
      PROVE  Heard'
  <2>1. \A d \in Call : ~ Under(d, "load") /\ ~ Under(d, "save")
    <3>1. CASE Quiet
      BY <3>1 DEF Quiet, Under
    <3>2. CASE ~ Quiet
      BY <1>1, <1>4, <3>2, NoReads
    <3> QED BY <3>1, <3>2
  <2>2. /\ \A d \in Call : Under(d, "load")' <=> d = c
        /\ \A d \in Call : ~ Under(d, "save")'
    BY <1>2, <2>1 DEF Under, Others, Idle
  <2>3. ~ NoneOf({"load", "save"})'
    BY <1>2 DEF NoneOf
  <2> QED BY <1>2, <2>2, <2>3 DEF Heard
<1> QED BY <1>3, <1>4 DEF Reads, Fresh

LEMMA ReadsUser ==
  ASSUME Typed, Reads, User
  PROVE  Reads'
<1> USE DEF Typed
<1>1. UNCHANGED call => SameReads /\ (NoneOf({"verify"})' <=> NoneOf({"verify"}))
  BY DEF SameReads, NoneOf, Under, Idle
<1>2. ASSUME UNCHANGED <<call, row, timeouts, profile, submitting, unseen>>
      PROVE  Reads'
  BY <1>1, <1>2, ReadsKept
<1>3. CASE EditClick \/ CancelClick \/ \E n \in Name : TypeName(n)
  BY <1>2, <1>3 DEF EditClick, CancelClick, TypeName, dialogVars
<1>4. CASE ChangeEmail
  BY <1>2, <1>4 DEF ChangeEmail, Open, pageVars
<1>5. CASE (Close \/ TypeCode \/ \E m \in Email : TypeEmail(m)) /\ UNCHANGED pageVars
  BY <1>2, <1>5 DEF Close, TypeCode, TypeEmail, pageVars
<1>6. ASSUME NEW c \in Call, Reload(c)
      PROVE  Reads'
  BY <1>6, ReadsStartLoad DEF Reload, dialogVars
<1>7. ASSUME NEW c \in Call, Submit(c)
      PROVE  Reads'
  <2>1. /\ Start(c, "save", form, 0, NoProfile) /\ form \in Name
        /\ 0 \in 0 .. MutationRetries
    BY <1>7, RetryAssumption DEF Submit, ProfileTypeOK
  <2>2. /\ Idle(c) /\ ~ Idle(c)' /\ Others(c)
        /\ call'[c].kind = "save" /\ ~ call'[c].ok
    BY <2>1, StartStep
  <2>3. /\ submitting' = TRUE /\ ~ submitting
        /\ unseen' = (unseen \/ ~ NoneOf({"load"}))
        /\ UNCHANGED <<row, timeouts, profile>>
    BY <1>7 DEF Submit, dialogVars
  <2>4. \A d \in Call : Under(d, "save")' <=> d = c
    BY <2>2, <2>3 DEF Reads, OneSave, Under, Others, Idle
  <2>5. ASSUME ~ unseen'
        PROVE  Heard'
    <3>1. \A d \in Call : ~ Under(d, "load")'
      BY <2>2, <2>3, <2>5 DEF NoneOf, Under, Others, Idle
    <3>2. ~ NoneOf({"load", "save"})'
      BY <2>2 DEF NoneOf
    <3> QED BY <2>2, <2>4, <3>1, <3>2 DEF Heard
  <2>6. OneSave'
    BY <2>3, <2>4 DEF OneSave
  <2> QED BY <2>5, <2>6 DEF Reads, Fresh
<1>8. ASSUME NEW c \in Call, NEW arg \in {NoEmail} \cup Email \cup Name,
             NEW kind \in {"link", "request", "resend", "verify"},
             Start(c, kind, arg, MutationRetries, NoProfile),
             UNCHANGED <<row, timeouts, profile, submitting, unseen>>
      PROVE  Reads'
  <2>1. Idle(c) /\ Others(c) /\ call'[c].kind = kind
    BY <1>8, RetryAssumption, StartStep
  <2>2. SameReads /\ (NoneOf({"verify"})' => NoneOf({"verify"}))
    BY <2>1, OtherReads, VerifyKept DEF Under
  <2> QED BY <1>8, <2>2, ReadsKept
<1>9. ASSUME NEW c \in Call, ResendLink(c)
      PROVE  Reads'
  BY <1>8, <1>9 DEF ResendLink, dialogVars, pageVars
<1>10. ASSUME NEW c \in Call, UNCHANGED pageVars,
              \/ RequestEmailChange(c, profile.email) \/ VerifyCode(c) \/ ResendCode(c)
       PROVE  Reads'
  <2>1. dialog.newEmail \in {NoEmail} \cup Email \cup Name
    BY DEF ProfileTypeOK, Dialog
  <2> QED BY <1>8, <1>10, <2>1
          DEF RequestEmailChange, VerifyCode, ResendCode, Send, pageVars
<1>11. CASE DialogClick
  BY <1>5, <1>10, <1>11 DEF DialogClick
<1> QED
  BY <1>3, <1>4, <1>6, <1>7, <1>9, <1>11 DEF User

\* When nothing is under way any more the page shows the user's row, unless a call
\* failed or a load was overtaken.
THEOREM ProfileAtRestFresh == Spec => []AtRestFresh
<1>1. Init => Reads
  <2> SUFFICES ASSUME Init
               PROVE  Reads
    OBVIOUS
  <2>1. PICK c \in Call :
          call = [d \in Call |->
                    IF d = c THEN [kind |-> "load", arg |-> NoEmail, left |-> 0,
                                   stage |-> "sent", ok |-> FALSE,
                                   value |-> NoProfile]
                    ELSE NoCall]
    BY DEF Init
  <2>2. \A d \in Call : /\ Under(d, "load") => d = c
                        /\ ~ Under(d, "save")
    BY <2>1 DEF Under, Idle
  <2>3. ~ Idle(c) => call[c].kind = "load" /\ ~ call[c].ok
    BY <2>1 DEF Idle
  <2>4. profile = NoProfile
    BY DEF Init
  <2> QED BY <2>2, <2>3, <2>4 DEF Reads, OneSave, Fresh, Heard, Under
<1>2. ASSUME Typed, Reads, [Next]_vars
      PROVE  Reads'
  <2>1. CASE UNCHANGED vars
    BY <1>2, <2>1 DEF vars, dialogVars, pageVars, Reads, OneSave, Fresh, Heard, NoneOf,
                      Under, Idle
  <2>2. CASE Tick /\ UNCHANGED pageVars
    BY <1>2, <2>2 DEF Tick, pageVars, Reads, OneSave, Fresh, Heard, NoneOf, Under, Idle
  <2>3. ASSUME NEW c \in Call, EmailChanged(c)
        PROVE  Reads'
    <3>1. StartLoad(c) /\ UNCHANGED <<row, profile, submitting>>
      BY <2>3 DEF EmailChanged, CloseAfterSuccess
    <3> QED BY <1>2, <3>1, ReadsStartLoad
  <2> QED
    BY <1>2, <2>1, <2>2, <2>3, ReadsUser, ReadsServe, ReadsHandle DEF Next
<1>3. Reads => AtRestFresh
  BY DEF Reads, Fresh, Heard, AtRestFresh, Quiet, NoneOf
<1> QED
  BY <1>1, <1>2, <1>3, TypedInit, TypedStep, PTL DEF Spec

=============================================================================
