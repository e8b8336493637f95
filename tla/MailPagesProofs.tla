--------------------------- MODULE MailPagesProofs ---------------------------
(***************************************************************************)
(* Proofs about the whole tab of MailPages, for any users, plans and       *)
(* number of requests and of retries.                                      *)
(***************************************************************************)
EXTENDS MailPages, TLAPS

In(c, kinds) == ~ Idle(c) /\ call[c].kind \in kinds

\* What a call was made with says what made it; what it read is of whom it
\* was made for.
Sound ==
    {x \in TabCall :
        /\ x.stage = "sent" => ~ x.ok
        /\ x.kind \in SigningIn => x.arg.by \in {"page", "modal"} /\ x.arg.user \in User
        /\ x.kind = "portal" => x.arg.by = "portal"
        /\ x.kind = "verify" => x.arg.by = "verify" /\ x.arg.user \in User
        /\ x.kind \in {"checkout", "forgot", "reset"} => x.arg.by = "page"
        /\ x.kind = "refreshUser" => x.arg.by # "modal" /\ x.arg.user \in User
        /\ x.kind \in {"profile", "refreshUser"} /\ x.ok
             => x.value \in Copy /\ x.value.user = x.arg.user}

\* Nobody waits for a fetch or a logout of his own.
Typed ==
    /\ call \in [Call -> {NoCall} \cup Sound]
    /\ SignInTypeOK /\ BillingTypeOK
    /\ state \in {"none", "waiting", "success", "error"}
    /\ link \in User \cup {NoUser}
    /\ \A c \in mine : ~ In(c, {"billing", "logout"})

\* Sign-ins come one at a time, and what is read of the user is read for the
\* tokens that are there.
Own ==
    ~ strayed =>
      /\ \A c, d \in Call : In(c, SigningIn) /\ In(d, SigningIn) => c = d
      /\ \A c \in Call : In(c, {"profile", "refreshUser"}) => call[c].arg.user = tokens
      /\ tokens # NoUser /\ NoneOf({"profile"}) => stored # NoCopy /\ stored.user = tokens

\* A fetch that is not doubtful is for the tokens that are there.
Fetched ==
    /\ \A c, d \in Call : In(c, {"billing"}) /\ In(d, {"billing"}) => c = d
    /\ ~ doubtful => \A c \in Call : In(c, {"billing"}) => call[c].arg.user = tokens
    /\ page = "billing" /\ ~ Fetching /\ ~ doubtful /\ ~ strayed /\ NoneOf({"profile"})
         => cache = tokens

\* Behind the page of a verification link nothing else is under way: it verifies
\* the user of the link and then reads who is signed in.
Verifying ==
    page = "verify" =>
      /\ link \in User /\ ~ modal
      /\ \A c \in Call : In(c, {"verify", "refreshUser"}) => c \in mine /\ state = "waiting"
      /\ \A c, d \in Call : In(c, {"verify", "refreshUser"}) /\ In(d, {"verify", "refreshUser"})
                              => c = d
      /\ \A c \in Call : ~ Idle(c) => call[c].kind \in {"verify", "refreshUser", "resend"}
      /\ \A c \in Call : In(c, {"verify"}) =>
            call[c].arg.user = link /\ (call[c].ok => verified[link])
      /\ \A c \in Call : In(c, {"refreshUser"}) =>
            /\ verified[link] /\ call[c].arg.by = "verify"
            /\ call[c].ok /\ call[c].arg.user = link => call[c].value.verified
      /\ VerifiedSeen

\* Who waits waits for a call of its own, made by what shows the wait.
WaitedFor(c) == \/ In(c, {"verify", "reset", "forgot"})
                \/ In(c, {"refreshUser"}) /\ call[c].arg.by = "verify"
ForPortal(c) == \/ In(c, {"portal"})
                \/ In(c, {"refreshUser"}) /\ call[c].arg.by = "portal"
ForCheckout(c, p) == In(c, {"checkout"}) /\ call[c].arg.price = p

Waiting ==
    /\ state # "none" => page \in {"verify", "reset", "forgot"}
    /\ \A c \in mine : WaitedFor(c) => page \in {"verify", "reset", "forgot"}
    /\ state = "waiting" => \E c \in mine : WaitedFor(c)
    /\ isLoadingPortal => \E c \in mine : ForPortal(c)
    /\ checkoutLoading # NoPrice => \E c \in mine : ForCheckout(c, checkoutLoading)

IInv == Typed /\ ProtectedShown /\ Own /\ Fetched /\ Verifying /\ Waiting

-----------------------------------------------------------------------------
(* What each step does to the calls.                                       *)

Typing == call \in [Call -> {NoCall} \cup Sound]

Others(c) == \A d \in Call \ {c} : call'[d] = call[d]

LEMMA SoundIsCall ==
  ASSUME NEW x \in Sound
  PROVE  /\ x \in TabCall /\ x # NoCall
         /\ x.arg \in Arg /\ x.arg.user \in User \cup {NoUser}
         /\ x.arg.price \in Price \cup {NoPrice}
         /\ x.left \in 0 .. QueryRetries + MutationRetries
         /\ x.stage \in {"sent", "answered"} /\ x.ok \in BOOLEAN
         /\ x.value \in {NoCopy} \cup Copy
  BY NoCallAssumption DEF Sound, TabCall, Arg

LEMMA CallFields ==
  ASSUME Typing, NEW c \in Call, ~ Idle(c)
  PROVE  call[c] \in Sound
  BY DEF Typing, Idle

LEMMA SetStep ==
  ASSUME Typing, NEW c \in Call, NEW x \in {NoCall} \cup Sound,
         call' = [call EXCEPT ![c] = x]
  PROVE  Typing' /\ Others(c) /\ call'[c] = x
  BY DEF Typing, Others

LEMMA FreeStep ==
  ASSUME Typing, NEW c \in Call, Free(c)
  PROVE  Typing' /\ Others(c) /\ Idle(c)'
  BY SetStep DEF Free, Idle

LEMMA RecordSound ==
  ASSUME NEW kind \in SigningIn \cup Mutation \cup
                      {"logout", "refreshUser", "billing", "checkout", "portal"},
         NEW arg \in Arg, NEW retries \in 0 .. QueryRetries + MutationRetries,
         kind \in SigningIn => arg.by \in {"page", "modal"} /\ arg.user \in User,
         kind = "portal" => arg.by = "portal",
         kind = "verify" => arg.by = "verify" /\ arg.user \in User,
         kind \in {"checkout", "forgot", "reset"} => arg.by = "page",
         kind = "refreshUser" => arg.by # "modal" /\ arg.user \in User
  PROVE  /\ Record(kind, arg, retries) \in Sound
         /\ Record(kind, arg, retries).kind = kind
         /\ Record(kind, arg, retries).arg = arg
         /\ ~ Record(kind, arg, retries).ok
  BY DEF Record, Sound, TabCall

LEMMA StartStep ==
  ASSUME Typing, NEW c \in Call, NEW kind, NEW arg, NEW retries,
         Record(kind, arg, retries) \in Sound,
         Start(c, kind, arg, retries, NoCopy)
  PROVE  /\ Typing' /\ Others(c) /\ Idle(c) /\ ~ Idle(c)'
         /\ call'[c] = Record(kind, arg, retries)
<1>1. Idle(c) /\ call' = [call EXCEPT ![c] = Record(kind, arg, retries)]
  BY DEF Start, Record
<1> QED
  BY <1>1, SetStep, SoundIsCall DEF Idle

LEMMA Retries ==
  /\ 0 \in 0 .. QueryRetries + MutationRetries
  /\ QueryRetries \in 0 .. QueryRetries + MutationRetries
  /\ MutationRetries \in 0 .. QueryRetries + MutationRetries
  BY RetryAssumption, QueryRetryAssumption

LEMMA ByFields ==
  ASSUME NEW u \in User \cup {NoUser},
         NEW component \in {"page", "modal", "portal", "verify"}
  PROVE  /\ By(u, component) \in Arg
         /\ By(u, component).user = u /\ By(u, component).by = component
  BY DEF By, Arg

LEMMA PageRecord ==
  ASSUME NEW kind \in {"logout", "billing", "checkout", "forgot", "reset", "resend"},
         NEW u \in User \cup {NoUser}, NEW retries \in 0 .. QueryRetries + MutationRetries
  PROVE  /\ Record(kind, By(u, "page"), retries) \in Sound
         /\ Record(kind, By(u, "page"), retries).kind = kind
         /\ Record(kind, By(u, "page"), retries).arg = By(u, "page")
<1>1. By(u, "page") \in Arg /\ By(u, "page").by = "page"
  BY ByFields
<1>2. kind \notin SigningIn
  BY DEF SigningIn
<1>3. kind \in Mutation \cup {"logout", "billing", "checkout"}
  BY DEF Mutation
<1> QED BY <1>1, <1>2, <1>3, RecordSound

\* The same call, of the same kind and arguments.
SameCall(c) == /\ ~ Idle(c) /\ ~ Idle(c)'
               /\ call'[c].kind = call[c].kind /\ call'[c].arg = call[c].arg

LEMMA FailStep ==
  ASSUME Typing, NEW c \in Call, ~ Idle(c), call[c].stage = "sent", Fail(c)
  PROVE  Typing' /\ Others(c) /\ SameCall(c) /\ ~ call'[c].ok
<1>1. call[c] \in Sound /\ ~ call[c].ok
  BY CallFields DEF Sound
<1>2. CASE call[c].left > 0 /\ call' = [call EXCEPT ![c].left = call[c].left - 1]
  <2> DEFINE new == [call[c] EXCEPT !.left = call[c].left - 1]
  <2>1. call[c].left - 1 \in 0 .. QueryRetries + MutationRetries
    BY <1>1, <1>2, SoundIsCall, RetryAssumption, QueryRetryAssumption
  <2>2. /\ new \in Sound /\ new.kind = call[c].kind /\ new.arg = call[c].arg
        /\ ~ new.ok
    BY <1>1, <2>1 DEF Sound, TabCall
  <2>3. call' = [call EXCEPT ![c] = new]
    BY <1>1, <1>2 DEF Typing
  <2> HIDE DEF new
  <2>4. Typing' /\ Others(c) /\ call'[c] = new /\ new # NoCall
    BY <2>2, <2>3, SetStep, SoundIsCall
  <2> QED BY <2>2, <2>4 DEF SameCall, Idle
<1>3. CASE call[c].left = 0 /\ call' = [call EXCEPT ![c].stage = "answered"]
  <2> DEFINE new == [call[c] EXCEPT !.stage = "answered"]
  <2>1. /\ new \in Sound /\ new.kind = call[c].kind /\ new.arg = call[c].arg
        /\ ~ new.ok
    BY <1>1 DEF Sound, TabCall
  <2>2. call' = [call EXCEPT ![c] = new]
    BY <1>1, <1>3 DEF Typing
  <2> HIDE DEF new
  <2>3. Typing' /\ Others(c) /\ call'[c] = new /\ new # NoCall
    BY <2>1, <2>2, SetStep, SoundIsCall
  <2> QED BY <2>1, <2>3 DEF SameCall, Idle
<1> QED BY <1>2, <1>3 DEF Fail

LEMMA RespondStep ==
  ASSUME Typing, NEW c \in Call, ~ Idle(c), call[c].stage = "sent",
         NEW value \in {NoCopy} \cup Copy, Respond(c, value),
         call[c].kind \in {"profile", "refreshUser"}
           => value \in Copy /\ value.user = call[c].arg.user
  PROVE  /\ Typing' /\ Others(c) /\ SameCall(c)
         /\ call'[c].ok => call'[c].value = value
<1>1. CASE Fail(c)
  BY <1>1, FailStep
<1>2. CASE Answer(c, value)
  <2> DEFINE new == [call[c] EXCEPT !.stage = "answered", !.ok = TRUE, !.value = value]
  <2>1. call[c] \in Sound /\ call[c] \in TabCall
    BY CallFields, SoundIsCall
  <2>2. /\ new \in TabCall /\ new.kind = call[c].kind /\ new.arg = call[c].arg
        /\ new.value = value /\ new.stage = "answered"
    BY <2>1 DEF TabCall
  <2>3. call' = [call EXCEPT ![c] = new]
    BY <1>2, <2>1 DEF Answer, Typing, Sound, TabCall
  <2> HIDE DEF new
  <2>4. new \in Sound
    BY <2>1, <2>2 DEF Sound
  <2>5. Typing' /\ Others(c) /\ call'[c] = new /\ new # NoCall
    BY <2>3, <2>4, SetStep, SoundIsCall
  <2> QED BY <2>2, <2>5 DEF SameCall, Idle
<1> QED BY <1>1, <1>2 DEF Respond

LEMMA ThenStep ==
  ASSUME Typing, NEW c \in Call, ~ Idle(c), NEW kind \in {"profile", "refreshUser"},
         NEW u \in User, Then(c, kind, u),
         kind = "profile" => call[c].arg.by \in {"page", "modal"},
         kind = "refreshUser" => call[c].arg.by # "modal"
  PROVE  /\ Typing' /\ Others(c) /\ ~ Idle(c)'
         /\ call'[c].kind = kind /\ call'[c].arg.user = u
         /\ call'[c].arg.by = call[c].arg.by /\ ~ call'[c].ok
<1> DEFINE new == [call[c] EXCEPT !.kind = kind, !.stage = "sent", !.ok = FALSE,
                                  !.value = NoCopy, !.left = 0, !.arg.user = u]
<1>1. call[c] \in Sound
  BY CallFields
<1>2. [call[c].arg EXCEPT !.user = u] \in Arg
  BY <1>1, SoundIsCall DEF Arg
<1> DEFINE arg == [call[c].arg EXCEPT !.user = u]
<1>3. arg.user = u /\ arg.by = call[c].arg.by
  BY <1>1, SoundIsCall DEF Arg
<1>4. call[c] \in TabCall /\ call[c].arg \in Arg
  BY <1>1, SoundIsCall
<1>5. new = [call[c] EXCEPT !.kind = kind, !.stage = "sent", !.ok = FALSE,
                            !.value = NoCopy, !.left = 0, !.arg = arg]
  BY <1>4 DEF TabCall
<1> HIDE DEF arg
<1>6. /\ new.kind = kind /\ new.arg = arg /\ ~ new.ok
      /\ new \in TabCall
  BY <1>2, <1>4, <1>5, Retries DEF TabCall, SigningIn, arg
<1>7. call' = [call EXCEPT ![c] = new]
  BY Zenon DEF Then
<1> HIDE DEF new
<1>8. new \in Sound
  BY <1>3, <1>6 DEF Sound, SigningIn
<1>9. Typing' /\ Others(c) /\ call'[c] = new
  BY <1>7, <1>8, SetStep, Zenon
<1>10. ~ Idle(c)'
  BY <1>8, <1>9, SoundIsCall DEF Idle
<1> QED BY <1>3, <1>6, <1>9, <1>10

LEMMA RetryStep ==
  ASSUME Typed, NEW c \in Call,
         NEW kind \in {"billing", "checkout", "portal", "resend", "forgot", "reset"},
         Retry(c, kind)
  PROVE  /\ Typing' /\ Others(c) /\ In(c, {kind}) /\ ~ Idle(c)'
         /\ call'[c].kind = kind /\ call'[c].arg.by = call[c].arg.by
         /\ call'[c].arg.price = call[c].arg.price
         /\ kind = "billing" => call'[c].arg.user = tokens
<1> DEFINE u == IF kind \in {"forgot", "reset"} THEN call[c].arg.user ELSE tokens
           new == [call[c] EXCEPT !.left = call[c].left - 1, !.arg.user = u]
<1>1. /\ ~ Idle(c) /\ call[c].kind = kind /\ call[c].stage = "sent"
      /\ call[c].left > 0
  BY DEF Retry, Answered, Arrives, Under
<1>2. call[c] \in Sound
  BY <1>1, CallFields DEF Typed, Typing
<1>3. u \in User \cup {NoUser} /\ (kind = "billing" => u = tokens)
  BY <1>2, SoundIsCall DEF Typed, SignInTypeOK
<1> HIDE DEF u
<1>4. call[c].left - 1 \in 0 .. QueryRetries + MutationRetries
  BY <1>1, <1>2, SoundIsCall, RetryAssumption, QueryRetryAssumption
<1>5. [call[c].arg EXCEPT !.user = u] \in Arg
  BY <1>2, <1>3, SoundIsCall DEF Arg
<1>6. /\ new.kind = kind /\ new.arg.user = u /\ new.arg.by = call[c].arg.by
      /\ new.arg.price = call[c].arg.price
      /\ new.stage = "sent" /\ new.ok = call[c].ok
      /\ new \in TabCall
  BY <1>1, <1>2, <1>4, <1>5 DEF Sound, TabCall, Arg
<1>7. new \in Sound
  BY <1>1, <1>2, <1>6 DEF Sound, SigningIn
<1>8. call' = [call EXCEPT ![c] = new]
  BY <1>1, <1>2 DEF Retry, u, Typed, Sound, TabCall, Arg
<1> HIDE DEF new
<1>9. Typing' /\ Others(c) /\ call'[c] = new /\ new # NoCall
  BY <1>7, <1>8, SetStep, SoundIsCall DEF Typed, Typing
<1> QED BY <1>1, <1>3, <1>6, <1>9 DEF In, Idle

-----------------------------------------------------------------------------
(* What leaves each part of the invariant as it was.                       *)

SameOf(kinds) ==
    \A d \in Call : /\ In(d, kinds)' <=> In(d, kinds)
                    /\ In(d, kinds) => /\ call'[d].kind = call[d].kind
                                       /\ call'[d].arg = call[d].arg

LEMMA SameUnchanged ==
  ASSUME UNCHANGED call, NEW kinds
  PROVE  SameOf(kinds)
  BY DEF SameOf, In, Idle

LEMMA SameOthers ==
  ASSUME NEW c \in Call, Others(c), NEW kinds, ~ In(c, kinds), ~ In(c, kinds)'
  PROVE  SameOf(kinds)
<1> SUFFICES ASSUME NEW d \in Call
             PROVE  /\ In(d, kinds)' <=> In(d, kinds)
                    /\ In(d, kinds) => /\ call'[d].kind = call[d].kind
                                       /\ call'[d].arg = call[d].arg
  BY DEF SameOf
<1>1. CASE d = c
  BY <1>1
<1>2. CASE d # c
  BY <1>2 DEF Others, In, Idle
<1> QED BY <1>1, <1>2

LEMMA SameSelf ==
  ASSUME NEW c \in Call, Others(c), SameCall(c), NEW kinds
  PROVE  SameOf(kinds)
<1> SUFFICES ASSUME NEW d \in Call
             PROVE  /\ In(d, kinds)' <=> In(d, kinds)
                    /\ In(d, kinds) => /\ call'[d].kind = call[d].kind
                                       /\ call'[d].arg = call[d].arg
  BY DEF SameOf
<1>1. CASE d = c
  BY <1>1 DEF SameCall, In
<1>2. CASE d # c
  BY <1>2 DEF Others, In, Idle
<1> QED BY <1>1, <1>2

LEMMA OwnKept ==
  ASSUME Own, SameOf(SigningIn \cup {"refreshUser"}), UNCHANGED <<tokens, stored>>,
         strayed => strayed'
  PROVE  Own'
<1> SUFFICES ASSUME ~ strayed'
             PROVE  /\ \A c, d \in Call : In(c, SigningIn)' /\ In(d, SigningIn)' => c = d
                    /\ \A c \in Call : In(c, {"profile", "refreshUser"})'
                                         => call'[c].arg.user = tokens'
                    /\ tokens' # NoUser /\ NoneOf({"profile"})'
                         => stored' # NoCopy /\ stored'.user = tokens'
  BY DEF Own
<1>1. \A d \in Call : In(d, SigningIn)' <=> In(d, SigningIn)
  BY DEF SameOf, In
<1>2. \A d \in Call : In(d, {"profile", "refreshUser"})'
                        => /\ In(d, {"profile", "refreshUser"})
                           /\ call'[d].arg = call[d].arg
  BY DEF SameOf, In, SigningIn
<1>3. NoneOf({"profile"})' => NoneOf({"profile"})
  BY DEF SameOf, In, SigningIn, NoneOf
<1> QED BY <1>1, <1>2, <1>3 DEF Own

LEMMA NoFetch == Fetching <=> \E c \in Call : In(c, {"billing"})
  BY DEF Fetching, NoneOf, In

LEMMA FetchedKept ==
  ASSUME Fetched, SameOf({"billing"}), SameOf({"profile"}), UNCHANGED <<tokens, cache>>,
         page' = "billing" => page = "billing",
         strayed => strayed' \/ page' # "billing",
         doubtful => doubtful' \/ (~ Fetching /\ page' # "billing")
  PROVE  Fetched'
<1>1. \A d \in Call : In(d, {"billing"})' => In(d, {"billing"}) /\ call'[d].arg = call[d].arg
  BY DEF SameOf
<1>2. Fetching' <=> Fetching
  <2>1. Fetching' <=> \E c \in Call : In(c, {"billing"})'
    BY DEF Fetching, NoneOf, In
  <2> QED BY <2>1, NoFetch DEF SameOf
<1>3. NoneOf({"profile"})' => NoneOf({"profile"})
  BY DEF SameOf, In, NoneOf
<1>4. /\ \A c, d \in Call : In(c, {"billing"})' /\ In(d, {"billing"})' => c = d
      /\ ~ doubtful' => \A c \in Call : In(c, {"billing"})' => call'[c].arg.user = tokens'
  BY <1>1, NoFetch DEF Fetched
<1>5. ASSUME page' = "billing", ~ Fetching', ~ doubtful', ~ strayed', NoneOf({"profile"})'
      PROVE  cache' = tokens'
  BY <1>2, <1>3, <1>5 DEF Fetched
<1> QED BY <1>4, <1>5 DEF Fetched

LEMMA FetchedAside ==
  ASSUME Fetched, SameOf({"billing"}), Aside,
         page' # "billing" \/ strayed' \/ ~ NoneOf({"profile"})'
  PROVE  Fetched'
<1>1. \A d \in Call : In(d, {"billing"})' => In(d, {"billing"}) /\ call'[d].arg = call[d].arg
  BY DEF SameOf
<1>2. ASSUME ~ doubtful', NEW c \in Call, In(c, {"billing"})'
      PROVE  call'[c].arg.user = tokens'
  <2>1. In(c, {"billing"}) /\ Fetching /\ call'[c].arg = call[c].arg
    BY <1>1, <1>2, NoFetch
  <2>2. ~ doubtful /\ tokens' = tokens
    BY <1>2, <2>1 DEF Aside
  <2> QED BY <2>1, <2>2 DEF Fetched
<1> QED BY <1>1, <1>2 DEF Fetched

LEMMA FetchedBeside ==
  ASSUME Fetched, SameOf({"billing"}), SameOf({"profile"}), Aside, tokens' = tokens,
         page' = "billing" => page = "billing",
         strayed => strayed' \/ page' # "billing"
  PROVE  Fetched'
  BY FetchedKept DEF Aside

\* The calls that somebody waits for are those they were, and are whose they were.
WaiterKinds == {"verify", "reset", "forgot", "refreshUser", "portal", "checkout"}

SameWaits ==
    \A d \in Call : /\ In(d, WaiterKinds)' <=> In(d, WaiterKinds)
                    /\ In(d, WaiterKinds) => /\ call'[d].kind = call[d].kind
                                             /\ call'[d].arg.by = call[d].arg.by
                                             /\ call'[d].arg.price = call[d].arg.price
                                             /\ d \in mine' <=> d \in mine

LEMMA WaitingKept ==
  ASSUME Waiting, SameWaits, mine \subseteq Call, mine' \subseteq Call,
         UNCHANGED <<state, page, isLoadingPortal, checkoutLoading>>
  PROVE  Waiting'
<1>1. \A d \in Call : WaitedFor(d)' => (WaitedFor(d) /\ (d \in mine' <=> d \in mine))
  BY DEF SameWaits, WaitedFor, In, WaiterKinds
<1>2. \A d \in Call : WaitedFor(d) => (WaitedFor(d)' /\ (d \in mine' <=> d \in mine))
  BY DEF SameWaits, WaitedFor, In, WaiterKinds
<1>3. \A d \in Call : ForPortal(d) => (ForPortal(d)' /\ (d \in mine' <=> d \in mine))
  BY DEF SameWaits, ForPortal, In, WaiterKinds
<1>4. \A d \in Call : ForCheckout(d, checkoutLoading)
                        => (ForCheckout(d, checkoutLoading)' /\ (d \in mine' <=> d \in mine))
  BY DEF SameWaits, ForCheckout, In, WaiterKinds
<1> QED BY <1>1, <1>2, <1>3, <1>4 DEF Waiting

\* The page is left; only the modal may take calls along.
LEMMA WaitingLeft ==
  ASSUME Typing', mine' \subseteq {d \in Call : ~ Idle(d)'},
         \A d \in mine' : call'[d].arg.by = "modal",
         state' = "none", ResetPage
  PROVE  Waiting'
<1>1. ASSUME NEW d \in mine'
      PROVE  ~ WaitedFor(d)'
  <2>1. call'[d] \in Sound
    BY <1>1 DEF Typing, Idle
  <2>2. call'[d].arg.by = "modal"
    BY <1>1
  <2> QED BY <2>1, <2>2 DEF Sound, WaitedFor, In
<1> QED BY <1>1 DEF Waiting, ResetPage

LEMMA WaitingBeside ==
  ASSUME Typed, Typed', Waiting, Aside, MailAside,
         page' = page => SameWaits,
         page' # page => \A d \in mine' : call'[d].arg.by = "modal"
  PROVE  Waiting'
<1>1. mine \subseteq Call /\ mine' \subseteq {d \in Call : ~ Idle(d)'}
  BY DEF Typed, SignInTypeOK, Idle
<1>2. CASE page' = page
  BY <1>1, <1>2, WaitingKept DEF Aside, MailAside
<1>3. CASE page' # page
  BY <1>1, <1>3, WaitingLeft DEF Aside, MailAside, Typed, Typing
<1> QED BY <1>2, <1>3

LEMMA BesideTypes ==
  ASSUME Typed, Aside, MailAside
  PROVE  /\ BillingTypeOK'
         /\ state' \in {"none", "waiting", "success", "error"}
         /\ link' \in User \cup {NoUser}
<1>1. doubtful' \in BOOLEAN
  BY DEF Aside
<1> QED
  BY <1>1 DEF Typed, BillingTypeOK, Aside, MailAside, ResetPage

LEMMA GoToMine ==
  ASSUME NEW p, NEW calls, GoTo(p, calls)
  PROVE  /\ page' = p /\ mine' \subseteq calls
         /\ p = page => mine' = calls
         /\ p # page => \A d \in mine' : call[d].arg.by = "modal"
  BY DEF GoTo, LeavePage

LEMMA AuthTypes ==
  ASSUME Typed
  PROVE  /\ FromStorage \in [in : BOOLEAN, user : {"none", "unverified", "verified"}]
         /\ SignedOut \in [in : BOOLEAN, user : {"none", "unverified", "verified"}]
         /\ \A copy : Shown(copy) \in {"none", "unverified", "verified"}
  BY DEF FromStorage, SignedOut, Shown

LEMMA SameWaitsUnchanged ==
  ASSUME UNCHANGED <<call, mine>>
  PROVE  SameWaits
  BY DEF SameWaits, In, Idle

-----------------------------------------------------------------------------
(* Routes and the modal.                                                   *)

LEMMA VisitStep ==
  ASSUME IInv, NEW p \in Page, Visit(p), Aside, MailAside
  PROVE  IInv'
<1> USE DEF IInv
<1>1. /\ UNCHANGED <<call, verified, tokens, stored, modal, strayed>>
      /\ GoTo(Routed(p), mine) /\ auth' = FromStorage
      /\ p \in {"landing", "login", "forgot", "dashboard"}
  BY DEF Visit
<1>2. /\ page' \in {"landing", "login", "forgot", "dashboard"}
      /\ page' \in Protected => tokens # NoUser
      /\ page' = Routed(p) /\ mine' \subseteq mine
      /\ page' = page => mine' = mine
      /\ page' # page => \A d \in mine' : call[d].arg.by = "modal"
  BY <1>1, GoToMine DEF Routed, Protected, SignedOutOnly
<1>3. Typed'
  <2>1. SignInTypeOK'
    BY <1>1, <1>2, AuthTypes DEF Typed, SignInTypeOK, Page, Idle
  <2>2. \A c \in mine' : ~ In(c, {"billing", "logout"})'
    BY <1>1, <1>2 DEF Typed, In, Idle
  <2> QED BY <1>1, <2>1, <2>2, BesideTypes DEF Typed
<1>4. ProtectedShown'
  BY <1>1, <1>2 DEF ProtectedShown
<1>5. Own'
  BY <1>1, SameUnchanged, OwnKept
<1>6. Fetched'
  BY <1>1, <1>2, SameUnchanged, FetchedBeside
<1>7. Verifying'
  BY <1>2 DEF Verifying
<1>8. Waiting'
  BY <1>1, <1>2, <1>3, SameWaitsUnchanged, WaitingBeside
<1> QED BY <1>3, <1>4, <1>5, <1>6, <1>7, <1>8

LEMMA ElsewhereStep ==
  ASSUME IInv, NEW u \in User, VerifiedElsewhere(u), Aside, MailAside
  PROVE  IInv'
<1> USE DEF IInv
<1>1. /\ UNCHANGED <<call, tokens, stored, page, auth, modal, mine, strayed>>
      /\ verified' = [verified EXCEPT ![u] = TRUE]
  BY DEF VerifiedElsewhere
<1>2. /\ verified' \in [User -> BOOLEAN]
      /\ \A w \in User : verified[w] => verified'[w]
  BY <1>1 DEF Typed, SignInTypeOK
<1>3. Typed'
  <2>1. SignInTypeOK'
    BY <1>1, <1>2 DEF Typed, SignInTypeOK, Idle
  <2>2. \A c \in mine' : ~ In(c, {"billing", "logout"})'
    BY <1>1 DEF Typed, In, Idle
  <2> QED BY <1>1, <2>1, <2>2, BesideTypes DEF Typed
<1>4. ProtectedShown'
  BY <1>1 DEF ProtectedShown
<1>5. Own'
  BY <1>1, SameUnchanged, OwnKept
<1>6. Fetched'
  BY <1>1, SameUnchanged, FetchedBeside
<1>7. Verifying'
  <2>1. UNCHANGED <<state, link>>
    BY <1>1 DEF MailAside
  <2> QED BY <1>1, <1>2, <2>1 DEF Verifying, VerifiedSeen, In, Idle
<1>8. Waiting'
  BY <1>1, <1>3, SameWaitsUnchanged, WaitingBeside
<1> QED BY <1>3, <1>4, <1>5, <1>6, <1>7, <1>8

LEMMA ModalStep ==
  ASSUME IInv, OpenAuth \/ CloseAuth, Aside, MailAside
  PROVE  IInv'
<1> USE DEF IInv
<1>1. /\ UNCHANGED <<call, verified, tokens, stored, page, auth, strayed>>
      /\ modal' \in BOOLEAN /\ mine' \subseteq mine
      /\ \A d \in mine : call[d].arg.by # "modal" => d \in mine'
  BY DEF OpenAuth, CloseAuth
<1>2. page # "verify"
  BY DEF OpenAuth, CloseAuth, Verifying
<1>3. Typed'
  <2>1. SignInTypeOK'
    BY <1>1 DEF Typed, SignInTypeOK, Idle
  <2>2. \A c \in mine' : ~ In(c, {"billing", "logout"})'
    BY <1>1 DEF Typed, In, Idle
  <2> QED BY <1>1, <2>1, <2>2, BesideTypes DEF Typed
<1>4. ProtectedShown'
  BY <1>1 DEF ProtectedShown
<1>5. Own'
  BY <1>1, SameUnchanged, OwnKept
<1>6. Fetched'
  BY <1>1, SameUnchanged, FetchedBeside
<1>7. Verifying'
  BY <1>1, <1>2 DEF Verifying
<1>8. Waiting'
  <2>1. \A d \in Call : In(d, WaiterKinds) => call[d].arg.by # "modal"
    BY CallFields DEF Typed, Typing, In, WaiterKinds, Sound, Idle
  <2>2. SameWaits
    BY <1>1, <2>1 DEF SameWaits, In, Idle
  <2> QED BY <1>1, <1>3, <2>2, WaitingBeside
<1> QED BY <1>3, <1>4, <1>5, <1>6, <1>7, <1>8

-----------------------------------------------------------------------------
(* Signing in and out.                                                     *)

LEMMA SameWaitsOthers ==
  ASSUME NEW c \in Call, Others(c), ~ In(c, WaiterKinds), ~ In(c, WaiterKinds)',
         \A d \in Call \ {c} : d \in mine' <=> d \in mine
  PROVE  SameWaits
<1> SUFFICES ASSUME NEW d \in Call
             PROVE  /\ In(d, WaiterKinds)' <=> In(d, WaiterKinds)
                    /\ In(d, WaiterKinds) => /\ call'[d].kind = call[d].kind
                                             /\ call'[d].arg.by = call[d].arg.by
                                             /\ call'[d].arg.price = call[d].arg.price
                                             /\ d \in mine' <=> d \in mine
  BY DEF SameWaits
<1>1. CASE d = c
  BY <1>1
<1>2. CASE d # c
  BY <1>2 DEF Others, In, Idle
<1> QED BY <1>1, <1>2

\* With the tokens goes the copy.
LEMMA OwnCleared ==
  ASSUME Own, SameOf(SigningIn \cup {"refreshUser"}),
         tokens' = NoUser, strayed' = Astray
  PROVE  Own'
<1> SUFFICES ASSUME ~ strayed'
             PROVE  /\ \A c, d \in Call : In(c, SigningIn)' /\ In(d, SigningIn)' => c = d
                    /\ \A c \in Call : ~ In(c, {"profile", "refreshUser"})'
  BY DEF Own
<1>1. /\ \A d \in Call : In(d, SigningIn)' <=> In(d, SigningIn)
      /\ \A d \in Call : In(d, {"profile", "refreshUser"})' <=> In(d, {"profile", "refreshUser"})
  BY DEF SameOf, In, SigningIn
<1>2. /\ \A c \in Call : ~ In(c, {"profile", "refreshUser"})
      /\ strayed => \A c \in Call : ~ In(c, SigningIn)
  BY DEF Astray, NoneOf, In
<1> QED BY <1>1, <1>2 DEF Own

LEMMA LostStep ==
  ASSUME IInv, SessionLost, Aside, MailAside
  PROVE  IInv'
<1> USE DEF IInv
<1>1. /\ UNCHANGED <<call, verified, modal>>
      /\ tokens' = NoUser /\ stored' = NoCopy /\ strayed' = Astray
      /\ auth' = SignedOut
      /\ GoTo(IF page \in Protected THEN "login" ELSE page, mine)
  BY DEF SessionLost, Clear
<1>2. /\ page' \in Page \ Protected
      /\ mine' \subseteq mine
      /\ page' = page => mine' = mine
      /\ page' # page => page' = "login" /\ \A d \in mine' : call[d].arg.by = "modal"
  BY <1>1, GoToMine DEF Typed, SignInTypeOK, Page, Protected
<1>3. Typed'
  <2>1. strayed' \in BOOLEAN
    BY <1>1 DEF Astray, Typed, SignInTypeOK
  <2>2. SignInTypeOK'
    BY <1>1, <1>2, <2>1, AuthTypes DEF Typed, SignInTypeOK, Idle
  <2>3. \A c \in mine' : ~ In(c, {"billing", "logout"})'
    BY <1>1, <1>2 DEF Typed, In, Idle
  <2> QED BY <1>1, <2>2, <2>3, BesideTypes DEF Typed
<1>4. ProtectedShown'
  BY <1>2 DEF ProtectedShown
<1>5. Own'
  BY <1>1, SameUnchanged, OwnCleared
<1>6. Fetched'
  BY <1>1, <1>2, SameUnchanged, FetchedAside DEF Protected
<1>7. Verifying'
  <2> SUFFICES ASSUME page' = "verify"
               PROVE  Verifying'
    BY DEF Verifying
  <2>1. page = "verify" /\ UNCHANGED <<page, mine, state, link>>
    BY <1>2 DEF MailAside
  <2>2. tokens' # link'
    BY <1>1, <2>1, UserAssumption DEF Verifying
  <2> QED BY <1>1, <2>1, <2>2 DEF Verifying, VerifiedSeen, In, Idle
<1>8. Waiting'
  BY <1>1, <1>2, <1>3, SameWaitsUnchanged, WaitingBeside
<1> QED BY <1>3, <1>4, <1>5, <1>6, <1>7, <1>8

LEMMA SubmitStep ==
  ASSUME IInv, NEW c \in Call, NEW u \in User, NEW kind \in {"signIn", "google"},
         SubmitOnPage(c, u, kind) \/ SubmitInModal(c, u, kind), Aside, MailAside
  PROVE  IInv'
<1> USE DEF IInv
<1>1. PICK form \in {"page", "modal"} : SignUpOrIn(c, u, form, kind)
  BY DEF SubmitOnPage, SubmitInModal
<1>2. page # "verify"
  BY DEF SubmitOnPage, SubmitInModal, Verifying
<1>3. /\ UNCHANGED <<verified, tokens, stored, page, auth, modal>>
      /\ mine' = mine \cup {c}
      /\ strayed' = (strayed \/ ~ NoneOf(SigningIn))
      /\ Start(c, kind, By(u, form), 0, NoCopy)
  BY <1>1 DEF SignUpOrIn
<1>4. /\ Record(kind, By(u, form), 0) \in Sound
      /\ Record(kind, By(u, form), 0).kind = kind
  <2>1. /\ By(u, form) \in Arg /\ By(u, form).user = u /\ By(u, form).by = form
    BY ByFields
  <2>2. kind \in SigningIn /\ kind \notin {"portal", "verify", "checkout", "forgot",
                                          "reset", "refreshUser"}
    BY DEF SigningIn
  <2> QED BY <2>1, <2>2, RecordSound, Retries
<1>5. /\ Typing' /\ Others(c) /\ Idle(c) /\ ~ Idle(c)' /\ call'[c].kind = kind
  BY <1>3, <1>4, StartStep DEF Typed, Typing
<1>6. Typed'
  <2>1. SignInTypeOK'
    BY <1>3, <1>5 DEF Typed, SignInTypeOK, Idle, Others
  <2>2. \A d \in mine' : ~ In(d, {"billing", "logout"})'
    BY <1>3, <1>5 DEF Typed, SignInTypeOK, In, Idle, Others
  <2> QED BY <1>5, <2>1, <2>2, BesideTypes DEF Typed, Typing
<1>7. ProtectedShown'
  BY <1>3 DEF ProtectedShown
<1>8. Own'
  <2> SUFFICES ASSUME ~ strayed'
               PROVE  Own'
    BY DEF Own
  <2>1. ~ strayed /\ \A d \in Call : ~ In(d, SigningIn)
    BY <1>3 DEF NoneOf, In
  <2>2. \A d \in Call : In(d, SigningIn)' <=> d = c
    BY <1>5, <2>1 DEF Others, In, Idle, SigningIn
  <2>3. SameOf({"profile", "refreshUser"})
    BY <1>5, SameOthers DEF In
  <2>4. \A d \in Call : In(d, {"profile", "refreshUser"})'
                          => call'[d].arg.user = tokens'
    BY <1>3, <2>1, <2>3 DEF Own, SameOf
  <2>5. NoneOf({"profile"})
    BY <2>1 DEF NoneOf, In, SigningIn
  <2> QED BY <1>3, <2>1, <2>2, <2>4, <2>5 DEF Own
<1>9. Fetched'
  <2>1. SameOf({"billing"}) /\ SameOf({"profile"})
    BY <1>5, SameOthers DEF In
  <2> QED BY <1>3, <2>1, FetchedBeside
<1>10. Verifying'
  BY <1>2, <1>3 DEF Verifying
<1>11. Waiting'
  <2>1. SameWaits
    BY <1>3, <1>5, SameWaitsOthers DEF In, WaiterKinds
  <2> QED BY <1>3, <1>6, <2>1, WaitingBeside
<1> QED BY <1>6, <1>7, <1>8, <1>9, <1>10, <1>11

LEMMA TokensStep ==
  ASSUME IInv, NEW c \in Call, EndTokens(c), Aside, MailAside
  PROVE  IInv'
<1> USE DEF IInv
<1>1. /\ UNCHANGED <<verified, stored, page, auth, modal, mine>>
      /\ tokens' = call[c].arg.user
      /\ Then(c, "profile", tokens')
      /\ strayed' = (strayed \/ ~ NoneOf({"refreshUser"}))
      /\ In(c, {"signIn", "google"}) /\ ~ Idle(c)
  BY DEF EndTokens, Answered, Arrives, Under, In
<1>2. tokens' \in User /\ call[c].arg.by \in {"page", "modal"}
  BY <1>1, CallFields DEF Typed, Typing, In, Sound, SigningIn
<1>3. /\ Typing' /\ Others(c) /\ ~ Idle(c)'
      /\ call'[c].kind = "profile" /\ call'[c].arg.user = tokens'
  BY <1>1, <1>2, ThenStep DEF Typed, Typing
<1>4. Typed'
  <2>1. SignInTypeOK'
    BY <1>1, <1>2, <1>3 DEF Typed, SignInTypeOK, Idle, Others
  <2>2. \A d \in mine' : ~ In(d, {"billing", "logout"})'
    BY <1>1, <1>3 DEF Typed, SignInTypeOK, In, Idle, Others
  <2> QED BY <1>3, <2>1, <2>2, BesideTypes DEF Typed, Typing
<1>5. ProtectedShown'
  BY <1>2, UserAssumption DEF ProtectedShown
<1>6. Own'
  <2> SUFFICES ASSUME ~ strayed'
               PROVE  Own'
    BY DEF Own
  <2>1. ~ strayed /\ \A d \in Call : ~ In(d, {"refreshUser"})
    BY <1>1 DEF NoneOf, In
  <2>2. \A d \in Call : /\ In(d, SigningIn) <=> d = c
                        /\ In(d, SigningIn)' <=> d = c
                        /\ ~ In(d, {"refreshUser"})'
    BY <1>1, <1>3, <2>1 DEF Own, Others, In, Idle, SigningIn
  <2>3. \A d \in Call : In(d, {"profile", "refreshUser"})' => d = c
    BY <2>2 DEF In, SigningIn
  <2>4. ~ NoneOf({"profile"})'
    BY <1>3 DEF NoneOf
  <2> QED BY <1>3, <2>2, <2>3, <2>4 DEF Own
<1>7. Fetched'
  <2>1. SameOf({"billing"})
    BY <1>1, <1>3, SameOthers DEF In
  <2>2. ~ NoneOf({"profile"})'
    BY <1>3 DEF NoneOf
  <2> QED BY <2>1, <2>2, FetchedAside
<1>8. Verifying'
  BY <1>1 DEF Verifying, In
<1>9. Waiting'
  <2>1. SameWaits
    BY <1>1, <1>3, SameWaitsOthers DEF In, WaiterKinds
  <2> QED BY <1>1, <1>4, <2>1, WaitingBeside
<1> QED BY <1>4, <1>5, <1>6, <1>7, <1>8, <1>9

LEMMA ServedStep ==
  ASSUME IInv, NEW c \in Call, ServeProfile(c), Aside, MailAside
  PROVE  IInv'
<1> USE DEF IInv
<1> DEFINE read == [user |-> call[c].arg.user, verified |-> verified[call[c].arg.user]]
<1>1. /\ UNCHANGED <<verified, tokens, stored, page, auth, modal, strayed, mine>>
      /\ Respond(c, read) /\ ~ Idle(c) /\ call[c].stage = "sent"
      /\ In(c, {"profile", "refreshUser"})
  BY DEF ServeProfile, Arrives, Under, In, signInVars
<1>2. read \in Copy /\ read.user = call[c].arg.user
      /\ read.verified = verified[call[c].arg.user]
  BY <1>1, CallFields DEF Typed, Typing, SignInTypeOK, In, Sound, SigningIn, Copy
<1> HIDE DEF read
<1>3. /\ Typing' /\ Others(c) /\ SameCall(c)
      /\ call'[c].ok => call'[c].value = read
  BY <1>1, <1>2, RespondStep DEF Typed, Typing
<1>4. \A kinds : SameOf(kinds)
  BY <1>3, SameSelf
<1>5. Typed'
  <2>1. SignInTypeOK'
    BY <1>1, <1>3 DEF Typed, SignInTypeOK, Idle, Others, SameCall
  <2>2. \A d \in mine' : ~ In(d, {"billing", "logout"})'
    BY <1>1, <1>4 DEF Typed, SignInTypeOK, SameOf
  <2> QED BY <1>3, <2>1, <2>2, BesideTypes DEF Typed, Typing
<1>6. ProtectedShown'
  BY <1>1 DEF ProtectedShown
<1>7. Own'
  BY <1>1, <1>4, OwnKept
<1>8. Fetched'
  BY <1>1, <1>4, FetchedBeside
<1>9. Verifying'
  <2> SUFFICES ASSUME page = "verify"
               PROVE  Verifying'
    BY <1>1 DEF Verifying
  <2>1. UNCHANGED <<state, link>>
    BY <1>1 DEF MailAside
  <2>2. \A d \in Call : /\ Idle(d)' <=> Idle(d)
                        /\ ~ Idle(d) => /\ call'[d].kind = call[d].kind
                                        /\ call'[d].arg = call[d].arg
                                        /\ call[d].kind = "verify" => call'[d] = call[d]
    BY <1>1, <1>3 DEF Others, SameCall, Idle, In
  <2>3. \A d \in Call : In(d, {"refreshUser"}) /\ call'[d].ok /\ call[d].arg.user = link
                          => call'[d].value.verified
    BY <1>2, <1>3 DEF Others, Verifying
  <2> QED BY <1>1, <2>1, <2>2, <2>3 DEF Verifying, VerifiedSeen, In
<1>10. Waiting'
  <2>1. SameWaits
    BY <1>1, <1>4 DEF SameWaits, SameOf
  <2> QED BY <1>1, <1>5, <2>1, WaitingBeside
<1> QED BY <1>5, <1>6, <1>7, <1>8, <1>9, <1>10

LEMMA RoutedDashboard ==
  /\ Routed("dashboard") \in {"dashboard", "login"}
  /\ Routed("dashboard") = "dashboard" => tokens # NoUser
  BY DEF Routed, Protected, SignedOutOnly

LEMMA ProfileStep ==
  ASSUME IInv, NEW c \in Call, EndProfile(c), Aside, MailAside
  PROVE  IInv'
<1> USE DEF IInv
<1>1. /\ UNCHANGED <<verified, tokens>>
      /\ stored' = call[c].value /\ modal' = (modal /\ call[c].arg.by # "modal")
      /\ GoTo(Routed("dashboard"), mine \ {c})
      /\ strayed' = (strayed /\ (\/ call[c].arg.user # tokens
                                 \/ \E d \in Call \ {c} : ~ Idle(d)))
      /\ In(c, {"profile"}) /\ ~ Idle(c) /\ call[c].ok /\ Free(c)
      /\ auth' = IF page' = page THEN auth
                 ELSE [in |-> tokens # NoUser, user |-> Shown(stored')]
  BY DEF EndProfile, Succeeded, Take, Under, In, Free
<1>2. /\ page' \in {"dashboard", "login"}
      /\ page' = "dashboard" => tokens # NoUser
      /\ mine' \subseteq mine \ {c}
      /\ page' = page => mine' = mine \ {c}
      /\ page' # page => \A d \in mine' : call[d].arg.by = "modal"
  BY <1>1, GoToMine, RoutedDashboard
<1>3. Typing' /\ Others(c) /\ Idle(c)'
  BY <1>1, FreeStep DEF Typed, Typing
<1>4. call[c].value \in Copy /\ call[c].value.user = call[c].arg.user
  BY <1>1, CallFields DEF Typed, Typing, In, Sound
<1>5. Typed'
  <2>1. auth' \in [in : BOOLEAN, user : {"none", "unverified", "verified"}]
    BY <1>1, AuthTypes DEF Typed, SignInTypeOK
  <2>2. mine' \subseteq {d \in Call : ~ Idle(d)'}
    BY <1>2, <1>3 DEF Typed, SignInTypeOK, Idle, Others
  <2>3. SignInTypeOK'
    BY <1>1, <1>2, <1>4, <2>1, <2>2 DEF Typed, SignInTypeOK, Page
  <2>4. \A d \in mine' : ~ In(d, {"billing", "logout"})'
    BY <1>2, <1>3 DEF Typed, SignInTypeOK, In, Idle, Others
  <2> QED BY <1>3, <2>3, <2>4, BesideTypes DEF Typed, Typing
<1>6. ProtectedShown'
  BY <1>1, <1>2 DEF ProtectedShown, Protected
<1>7. Own'
  <2> SUFFICES ASSUME ~ strayed'
               PROVE  Own'
    BY DEF Own
  <2>1. CASE ~ strayed
    <3>1. \A d \in Call : /\ In(d, SigningIn)' => In(d, SigningIn)
                          /\ In(d, {"profile", "refreshUser"})' =>
                               In(d, {"profile", "refreshUser"}) /\ call'[d] = call[d]
      BY <1>3 DEF Others, In, Idle
    <3>2. In(c, {"profile", "refreshUser"})
      BY <1>1 DEF In
    <3>3. stored' # NoCopy /\ stored'.user = tokens
      <4>1. call[c].arg.user = tokens
        BY <2>1, <3>2 DEF Own
      <4>2. stored' # NoCopy
        BY <1>1, <1>4, CopyAssumption
      <4> QED BY <1>1, <1>4, <4>1, <4>2
    <3> QED BY <1>1, <2>1, <3>1, <3>3 DEF Own
  <2>2. CASE strayed
    <3>1. call[c].arg.user = tokens /\ \A d \in Call : Idle(d)'
      BY <1>1, <1>3, <2>2 DEF Others, Idle
    <3>2. stored' # NoCopy /\ stored'.user = tokens'
      BY <1>1, <1>4, <3>1, CopyAssumption
    <3> QED BY <3>1, <3>2 DEF Own, In
  <2> QED BY <2>1, <2>2 DEF Typed, SignInTypeOK
<1>8. Fetched'
  <2>1. SameOf({"billing"})
    BY <1>1, <1>3, SameOthers DEF In
  <2> QED BY <1>2, <2>1, FetchedAside
<1>9. Verifying'
  BY <1>2 DEF Verifying
<1>10. Waiting'
  <2>1. page' = page => SameWaits
    BY <1>1, <1>2, <1>3, SameWaitsOthers DEF In, WaiterKinds
  <2>2. page' # page => \A d \in mine' : call'[d].arg.by = "modal"
    BY <1>2, <1>3 DEF Others, Typed, SignInTypeOK
  <2> QED BY <1>5, <2>1, <2>2, WaitingBeside
<1> QED BY <1>5, <1>6, <1>7, <1>8, <1>9, <1>10

LEMMA FailSignInStep ==
  ASSUME IInv, NEW c \in Call, FailSignIn(c), Aside, MailAside
  PROVE  IInv'
<1> USE DEF IInv
<1>1. /\ UNCHANGED <<verified, tokens, stored, page, auth, modal>>
      /\ mine' = mine \ {c}
      /\ strayed' = (strayed \/ call[c].kind = "profile")
      /\ In(c, SigningIn) /\ ~ Idle(c) /\ Free(c)
  BY DEF FailSignIn, Failed, Take, Under, In, Free, SigningIn, GivenUp, Answered, Arrives
<1>2. Typing' /\ Others(c) /\ Idle(c)'
  BY <1>1, FreeStep DEF Typed, Typing
<1>3. Typed'
  <2>1. SignInTypeOK'
    BY <1>1, <1>2 DEF Typed, SignInTypeOK, Idle, Others
  <2>2. \A d \in mine' : ~ In(d, {"billing", "logout"})'
    BY <1>1, <1>2 DEF Typed, SignInTypeOK, In, Idle, Others
  <2> QED BY <1>2, <2>1, <2>2, BesideTypes DEF Typed, Typing
<1>4. ProtectedShown'
  BY <1>1 DEF ProtectedShown
<1>5. Own'
  <2> SUFFICES ASSUME ~ strayed'
               PROVE  Own'
    BY DEF Own
  <2>1. ~ strayed /\ ~ In(c, {"profile"})
    BY <1>1 DEF In
  <2>2. \A d \in Call : /\ In(d, SigningIn)' => In(d, SigningIn)
                        /\ In(d, {"profile", "refreshUser"})' =>
                             In(d, {"profile", "refreshUser"}) /\ call'[d] = call[d]
    BY <1>2 DEF Others, In, Idle
  <2>3. NoneOf({"profile"})' => NoneOf({"profile"})
    BY <1>2, <2>1 DEF NoneOf, Others, In, Idle
  <2> QED BY <1>1, <2>1, <2>2, <2>3 DEF Own
<1>6. Fetched'
  <2>1. SameOf({"billing"})
    BY <1>1, <1>2, SameOthers DEF In, SigningIn
  <2>2. CASE call[c].kind = "profile"
    BY <1>1, <2>1, <2>2, FetchedAside
  <2>3. CASE call[c].kind # "profile"
    <3>1. SameOf({"profile"})
      BY <1>2, <2>3, SameOthers DEF In
    <3> QED BY <1>1, <2>1, <3>1, FetchedBeside
  <2> QED BY <2>2, <2>3
<1>7. Verifying'
  BY <1>1 DEF Verifying, In, SigningIn
<1>8. Waiting'
  <2>1. SameWaits
    BY <1>1, <1>2, SameWaitsOthers DEF In, WaiterKinds, SigningIn
  <2> QED BY <1>1, <1>3, <2>1, WaitingBeside
<1> QED BY <1>3, <1>4, <1>5, <1>6, <1>7, <1>8

LEMMA LogoutStep ==
  ASSUME IInv, NEW c \in Call, Logout(c), Aside, MailAside
  PROVE  IInv'
<1> USE DEF IInv
<1>1. /\ UNCHANGED <<verified, tokens, stored, page, auth, modal, strayed, mine>>
      /\ page # "verify"
      /\ Start(c, "logout", By(NoUser, "page"), 0, NoCopy)
  BY DEF Logout, signInVars
<1>2. /\ Record("logout", By(NoUser, "page"), 0) \in Sound
      /\ Record("logout", By(NoUser, "page"), 0).kind = "logout"
  BY PageRecord, Retries
<1>3. /\ Typing' /\ Others(c) /\ Idle(c) /\ ~ Idle(c)' /\ call'[c].kind = "logout"
  BY <1>1, <1>2, StartStep DEF Typed, Typing
<1>4. Typed'
  <2>1. SignInTypeOK'
    BY <1>1, <1>3 DEF Typed, SignInTypeOK, Idle, Others
  <2>2. \A d \in mine' : ~ In(d, {"billing", "logout"})'
    BY <1>1, <1>3 DEF Typed, SignInTypeOK, In, Idle, Others
  <2> QED BY <1>3, <2>1, <2>2, BesideTypes DEF Typed, Typing
<1>5. ProtectedShown'
  BY <1>1 DEF ProtectedShown
<1>6. Own'
  <2>1. SameOf(SigningIn \cup {"refreshUser"})
    BY <1>3, SameOthers DEF In, SigningIn
  <2> QED BY <1>1, <2>1, OwnKept
<1>7. Fetched'
  <2>1. SameOf({"billing"}) /\ SameOf({"profile"})
    BY <1>3, SameOthers DEF In
  <2> QED BY <1>1, <2>1, FetchedBeside
<1>8. Verifying'
  BY <1>1 DEF Verifying
<1>9. Waiting'
  <2>1. SameWaits
    BY <1>1, <1>3, SameWaitsOthers DEF In, WaiterKinds
  <2> QED BY <1>1, <1>4, <2>1, WaitingBeside
<1> QED BY <1>4, <1>5, <1>6, <1>7, <1>8, <1>9

LEMMA EndLogoutStep ==
  ASSUME IInv, NEW c \in Call, EndLogout(c), Aside, MailAside
  PROVE  IInv'
<1> USE DEF IInv
<1>1. /\ UNCHANGED <<verified, modal>>
      /\ tokens' = NoUser /\ stored' = NoCopy /\ strayed' = Astray
      /\ auth' = SignedOut /\ GoTo("login", mine)
      /\ In(c, {"logout"}) /\ Free(c) /\ ~ Idle(c)
  BY DEF EndLogout, Answered, Arrives, Under, In
<1>2. /\ page' = "login" /\ mine' \subseteq mine /\ c \notin mine
      /\ page' = page => mine' = mine
      /\ page' # page => \A d \in mine' : call[d].arg.by = "modal"
  BY <1>1, GoToMine DEF Typed, In
<1>3. Typing' /\ Others(c) /\ Idle(c)'
  BY <1>1, FreeStep DEF Typed, Typing
<1>4. Typed'
  <2>1. strayed' \in BOOLEAN
    BY <1>1 DEF Astray, Typed, SignInTypeOK
  <2>2. mine' \subseteq {d \in Call : ~ Idle(d)'}
    BY <1>2, <1>3 DEF Typed, SignInTypeOK, Idle, Others
  <2>3. SignInTypeOK'
    BY <1>1, <1>2, <2>1, <2>2, AuthTypes DEF Typed, SignInTypeOK, Page
  <2>4. \A d \in mine' : ~ In(d, {"billing", "logout"})'
    BY <1>2, <1>3 DEF Typed, SignInTypeOK, In, Idle, Others
  <2> QED BY <1>3, <2>3, <2>4, BesideTypes DEF Typed, Typing
<1>5. ProtectedShown'
  BY <1>2 DEF ProtectedShown, Protected
<1>6. Own'
  <2>1. SameOf(SigningIn \cup {"refreshUser"})
    BY <1>1, <1>3, SameOthers DEF In, SigningIn
  <2> QED BY <1>1, <2>1, OwnCleared
<1>7. Fetched'
  <2>1. SameOf({"billing"})
    BY <1>1, <1>3, SameOthers DEF In
  <2> QED BY <1>2, <2>1, FetchedAside
<1>8. Verifying'
  BY <1>2 DEF Verifying
<1>9. Waiting'
  <2>1. page' = page => SameWaits
    BY <1>1, <1>2, <1>3, SameWaitsOthers DEF In, WaiterKinds
  <2>2. page' # page => \A d \in mine' : call'[d].arg.by = "modal"
    BY <1>2, <1>3 DEF Others, Typed, SignInTypeOK
  <2> QED BY <1>4, <2>1, <2>2, WaitingBeside
<1> QED BY <1>4, <1>5, <1>6, <1>7, <1>8, <1>9

-----------------------------------------------------------------------------
(* The billing page's query.                                               *)

LEMMA FetchStep ==
  ASSUME Typed, NEW c \in Call, StartFetch(c)
  PROVE  /\ Typing' /\ Others(c) /\ Idle(c) /\ ~ Idle(c)' /\ doubtful' = FALSE
         /\ call'[c].kind = "billing" /\ call'[c].arg.user = tokens
<1>1. Start(c, "billing", By(tokens, "page"), QueryRetries, NoCopy) /\ doubtful' = FALSE
  BY DEF StartFetch
<1>2. By(tokens, "page") \in Arg /\ By(tokens, "page").user = tokens
  BY ByFields DEF Typed, SignInTypeOK
<1>3. /\ Record("billing", By(tokens, "page"), QueryRetries) \in Sound
      /\ Record("billing", By(tokens, "page"), QueryRetries).kind = "billing"
      /\ Record("billing", By(tokens, "page"), QueryRetries).arg = By(tokens, "page")
  BY PageRecord, Retries DEF Typed, SignInTypeOK
<1> QED BY <1>1, <1>2, <1>3, StartStep DEF Typed, Typing

\* A fetch begun over none is for the tokens that are there.
LEMMA FetchedStarted ==
  ASSUME Fetched, NEW c \in Call, Others(c), ~ Fetching, tokens' = tokens,
         ~ Idle(c)', call'[c].kind = "billing", call'[c].arg.user = tokens
  PROVE  Fetched'
<1>1. \A d \in Call : In(d, {"billing"})' <=> d = c
  BY NoFetch DEF Others, In, Idle
<1>2. Fetching'
  BY DEF Fetching, NoneOf
<1> QED BY <1>1, <1>2 DEF Fetched

LEMMA VisitBillingStep ==
  ASSUME IInv, NEW c \in Call, VisitBilling(c), MailAside
  PROVE  IInv'
<1> USE DEF IInv
<1>1. /\ UNCHANGED <<verified, tokens, stored, modal, strayed, cache>>
      /\ page # "billing" /\ tokens # NoUser /\ page' = "billing"
      /\ auth' = FromStorage /\ LeavePage(mine) /\ ResetPage
      /\ state' = "none" /\ link' = NoUser
  BY DEF VisitBilling, MailAside
<1>2. mine' \subseteq mine /\ \A d \in mine' : call[d].arg.by = "modal"
  BY <1>1 DEF LeavePage
<1>3. CASE Fetching
  <2>1. UNCHANGED <<call, doubtful>>
    BY <1>3 DEF VisitBilling
  <2>2. SignInTypeOK'
    BY <1>1, <1>2, <2>1, AuthTypes DEF Typed, SignInTypeOK, Idle, Page
  <2>3. BillingTypeOK'
    BY <1>1, <2>1 DEF Typed, BillingTypeOK, ResetPage
  <2>4. Typed'
    BY <1>1, <1>2, <2>1, <2>2, <2>3 DEF Typed, In, Idle
  <2>5. Own'
    BY <1>1, <2>1, SameUnchanged, OwnKept
  <2>6. Fetching'
    BY <1>3, <2>1 DEF Fetching, NoneOf, Idle
  <2>7. Fetched'
    BY <1>1, <2>1, <2>6 DEF Fetched, In, Idle
  <2>8. Waiting'
    <3>1. mine' \subseteq {d \in Call : ~ Idle(d)'}
      BY <2>2 DEF SignInTypeOK
    <3> QED BY <1>1, <1>2, <2>1, <2>4, <3>1, WaitingLeft DEF Typed, Typing
  <2> QED BY <1>1, <2>4, <2>5, <2>7, <2>8 DEF ProtectedShown, Verifying
<1>4. CASE ~ Fetching
  <2>1. /\ Typing' /\ Others(c) /\ Idle(c) /\ ~ Idle(c)' /\ doubtful' = FALSE
        /\ call'[c].kind = "billing" /\ call'[c].arg.user = tokens
    BY <1>4, FetchStep DEF VisitBilling
  <2>2. SignInTypeOK'
    BY <1>1, <1>2, <2>1, AuthTypes DEF Typed, SignInTypeOK, Idle, Page, Others
  <2>3. BillingTypeOK'
    BY <1>1, <2>1 DEF Typed, BillingTypeOK, ResetPage
  <2>4. \A d \in mine' : d # c /\ call'[d] = call[d]
    BY <1>2, <2>1 DEF Typed, SignInTypeOK, Others, Idle
  <2>5. Typed'
    BY <1>1, <1>2, <2>1, <2>2, <2>3, <2>4 DEF Typed, Typing, In, Idle
  <2>6. Own'
    <3>1. SameOf(SigningIn \cup {"refreshUser"})
      BY <2>1, SameOthers DEF In, SigningIn
    <3> QED BY <1>1, <3>1, OwnKept
  <2>7. Fetched'
    BY <1>1, <1>4, <2>1, FetchedStarted
  <2>8. Waiting'
    <3>1. mine' \subseteq {d \in Call : ~ Idle(d)'}
      BY <2>2 DEF SignInTypeOK
    <3> QED BY <1>1, <1>2, <2>1, <2>4, <3>1, WaitingLeft
  <2> QED BY <1>1, <2>5, <2>6, <2>7, <2>8 DEF ProtectedShown, Verifying
<1> QED BY <1>3, <1>4

LEMMA FocusStep ==
  ASSUME IInv, NEW c \in Call, Focus(c), MailAside
  PROVE  IInv'
<1> USE DEF IInv
<1>1. /\ UNCHANGED <<verified, tokens, stored, page, auth, modal, strayed, mine, cache,
                     checkoutLoading, isLoadingPortal, showVerificationError,
                     state, link>>
      /\ page = "billing" /\ ~ Fetching /\ StartFetch(c)
  BY DEF Focus, signInVars, MailAside
<1>2. /\ Typing' /\ Others(c) /\ Idle(c) /\ ~ Idle(c)' /\ doubtful' = FALSE
      /\ call'[c].kind = "billing" /\ call'[c].arg.user = tokens
  BY <1>1, FetchStep
<1>3. \A d \in mine : d # c /\ call'[d] = call[d]
  BY <1>2 DEF Typed, SignInTypeOK, Others, Idle
<1>4. Typed'
  <2>1. SignInTypeOK'
    BY <1>1, <1>3 DEF Typed, SignInTypeOK, Idle
  <2> QED BY <1>1, <1>2, <1>3, <2>1 DEF Typed, Typing, BillingTypeOK, In, Idle
<1>5. Own'
  <2>1. SameOf(SigningIn \cup {"refreshUser"})
    BY <1>2, SameOthers DEF In, SigningIn
  <2> QED BY <1>1, <2>1, OwnKept
<1>6. Fetched'
  BY <1>1, <1>2, FetchedStarted
<1>7. Waiting'
  <2>1. SameWaits
    BY <1>1, <1>2, SameWaitsOthers DEF In, WaiterKinds
  <2> QED BY <1>1, <2>1, WaitingKept DEF Typed, SignInTypeOK
<1> QED BY <1>1, <1>4, <1>5, <1>6, <1>7 DEF ProtectedShown, Verifying

LEMMA EndBillingStep ==
  ASSUME IInv, NEW c \in Call, EndBilling(c), MailAside
  PROVE  IInv'
<1> USE DEF IInv
<1>1. /\ UNCHANGED <<verified, tokens, stored, page, auth, modal, strayed, mine,
                     checkoutLoading, isLoadingPortal, showVerificationError,
                     state, link>>
      /\ In(c, {"billing"}) /\ ~ Idle(c) /\ Free(c)
      /\ \/ cache' = call[c].arg.user /\ doubtful' = doubtful
         \/ doubtful' = TRUE /\ cache' = cache
  BY DEF EndBilling, Answered, Arrives, Under, In, signInVars, MailAside
<1>2. Typing' /\ Others(c) /\ Idle(c)'
  BY <1>1, FreeStep DEF Typed, Typing
<1>3. \A d \in mine : d # c /\ call'[d] = call[d]
  BY <1>1, <1>2 DEF Typed, SignInTypeOK, Others, In
<1>4. Typed'
  <2>1. SignInTypeOK'
    BY <1>1, <1>3 DEF Typed, SignInTypeOK, Idle
  <2>2. call[c].arg.user \in User \cup {NoUser}
    BY <1>1, CallFields, SoundIsCall DEF Typed, Typing
  <2> QED BY <1>1, <1>2, <1>3, <2>1, <2>2 DEF Typed, Typing, BillingTypeOK, In, Idle
<1>5. Own'
  <2>1. SameOf(SigningIn \cup {"refreshUser"})
    BY <1>1, <1>2, SameOthers DEF In, SigningIn
  <2> QED BY <1>1, <2>1, OwnKept
<1>6. Fetched'
  <2>1. \A d \in Call : ~ In(d, {"billing"})'
    BY <1>1, <1>2 DEF Fetched, Others, In, Idle
  <2>2. ~ doubtful' => cache' = tokens'
    BY <1>1 DEF Fetched
  <2> QED BY <2>1, <2>2 DEF Fetched
<1>7. Verifying'
  BY <1>1 DEF Verifying, In
<1>8. Waiting'
  <2>1. SameWaits
    BY <1>1, <1>2, SameWaitsOthers DEF In, WaiterKinds
  <2> QED BY <1>1, <2>1, WaitingKept DEF Typed, SignInTypeOK
<1> QED BY <1>1, <1>4, <1>5, <1>6, <1>7, <1>8 DEF ProtectedShown

LEMMA RetriedStep ==
  ASSUME IInv, NEW c \in Call,
         NEW kind \in {"billing", "checkout", "portal", "resend", "forgot", "reset"},
         Retry(c, kind), MailAside
  PROVE  IInv'
<1> USE DEF IInv
<1>1. UNCHANGED <<verified, tokens, stored, page, auth, modal, strayed, mine,
                  billingVars, state, link>>
  BY DEF Retry, signInVars, MailAside
<1>2. /\ Typing' /\ Others(c) /\ In(c, {kind}) /\ ~ Idle(c)'
      /\ call'[c].kind = kind /\ call'[c].arg.by = call[c].arg.by
      /\ call'[c].arg.price = call[c].arg.price
      /\ kind = "billing" => call'[c].arg.user = tokens
  BY RetryStep
<1>3. Typed'
  <2>1. SignInTypeOK'
    BY <1>1, <1>2 DEF Typed, SignInTypeOK, Idle, Others
  <2>2. \A d \in mine' : ~ In(d, {"billing", "logout"})'
    BY <1>1, <1>2 DEF Typed, SignInTypeOK, In, Idle, Others
  <2> QED BY <1>1, <1>2, <2>1, <2>2 DEF Typed, Typing, BillingTypeOK, billingVars
<1>4. Own'
  <2>1. SameOf(SigningIn \cup {"refreshUser"})
    BY <1>2, SameOthers DEF In, SigningIn
  <2> QED BY <1>1, <2>1, OwnKept
<1>5. Fetched'
  <2>1. CASE kind = "billing"
    <3>1. \A d \in Call : In(d, {"billing"})' <=> d = c
      BY <1>2, <2>1 DEF Fetched, Others, In, Idle
    <3>2. Fetching'
      BY <1>2, <2>1 DEF Fetching, NoneOf
    <3> QED BY <1>1, <1>2, <2>1, <3>1, <3>2 DEF Fetched
  <2>2. CASE kind # "billing"
    <3>1. SameOf({"billing"}) /\ SameOf({"profile"})
      BY <1>2, <2>2, SameOthers DEF In
    <3> QED BY <1>1, <3>1, FetchedKept DEF billingVars
  <2> QED BY <2>1, <2>2
<1>6. Verifying'
  <2> SUFFICES ASSUME page = "verify"
               PROVE  Verifying'
    BY <1>1 DEF Verifying
  <2>1. kind = "resend"
    BY <1>2 DEF Verifying, In
  <2>2. \A d \in Call : /\ In(d, {"verify", "refreshUser"})' => d # c /\ call'[d] = call[d]
                        /\ ~ Idle(d)' => call'[d].kind = call[d].kind /\ ~ Idle(d)
    BY <1>2, <2>1 DEF Others, In, Idle
  <2> QED BY <1>1, <2>2 DEF Verifying, VerifiedSeen, In, Idle
<1>7. Waiting'
  <2>1. SameWaits
    BY <1>1, <1>2 DEF SameWaits, Others, In, Idle
  <2> QED BY <1>1, <2>1, WaitingKept DEF Typed, SignInTypeOK, billingVars
<1> QED BY <1>1, <1>3, <1>4, <1>5, <1>6, <1>7 DEF ProtectedShown

-----------------------------------------------------------------------------
(* Calls that somebody waits for.                                          *)

LEMMA OthersWait ==
  ASSUME NEW c \in Call, Others(c), NEW d \in Call \ {c}
  PROVE  /\ WaitedFor(d)' <=> WaitedFor(d)
         /\ ForPortal(d)' <=> ForPortal(d)
         /\ \A p : (In(d, {"checkout"})' /\ call'[d].arg.price = p) <=> ForCheckout(d, p)
  BY DEF Others, WaitedFor, ForPortal, ForCheckout, In, Idle

\* What the two waiting marks of the billing page stand for is still on its way:
\* the step changes one call alone, and the mark does not rest on that call.
LEMMA PortalWaits ==
  ASSUME Waiting, NEW c \in Call, Others(c), mine \subseteq Call, mine \ {c} \subseteq mine',
         isLoadingPortal' => isLoadingPortal /\ (c \notin mine \/ ~ ForPortal(c))
  PROVE  isLoadingPortal' => \E d \in mine' : ForPortal(d)'
<1> SUFFICES ASSUME isLoadingPortal'
             PROVE  \E d \in mine' : ForPortal(d)'
  OBVIOUS
<1>1. PICK d \in mine : ForPortal(d)
  BY DEF Waiting
<1>2. d \in Call \ {c} /\ d \in mine'
  BY <1>1
<1>3. ForPortal(d)'
  BY <1>1, <1>2, OthersWait
<1> QED BY <1>2, <1>3

LEMMA CheckoutWaits ==
  ASSUME Waiting, NEW c \in Call, Others(c), mine \subseteq Call, mine \ {c} \subseteq mine',
         checkoutLoading' # NoPrice
           => /\ checkoutLoading' = checkoutLoading
              /\ c \notin mine \/ ~ ForCheckout(c, checkoutLoading)
  PROVE  checkoutLoading' # NoPrice => \E d \in mine' : ForCheckout(d, checkoutLoading)'
<1> SUFFICES ASSUME checkoutLoading' # NoPrice
             PROVE  \E d \in mine' : ForCheckout(d, checkoutLoading)'
  OBVIOUS
<1>1. PICK d \in mine : ForCheckout(d, checkoutLoading)
  BY Zenon DEF Waiting
<1>2. d \in Call \ {c} /\ d \in mine'
  BY <1>1
<1>3. In(d, {"checkout"})' /\ call'[d].arg.price = checkoutLoading
  BY <1>1, <1>2, OthersWait
<1>4. ForCheckout(d, checkoutLoading)'
  BY <1>3 DEF ForCheckout
<1> QED BY <1>2, <1>4

\* One more call is waited for.
LEMMA BegunStep ==
  ASSUME IInv, NEW c \in Call, NEW kind \in {"checkout", "portal", "forgot", "reset", "resend"},
         NEW arg, NEW retries, Start(c, kind, arg, retries, NoCopy),
         Record(kind, arg, retries) \in Sound,
         Record(kind, arg, retries).kind = kind, Record(kind, arg, retries).arg = arg,
         UNCHANGED <<signInVars, cache, doubtful, link>>, mine' = mine \cup {c},
         state' \in {"none", "waiting", "success", "error"}, BillingTypeOK'
  PROVE  /\ Typed' /\ ProtectedShown' /\ Own' /\ Fetched'
         /\ Others(c) /\ Idle(c) /\ ~ Idle(c)' /\ c \notin mine
         /\ call'[c].kind = kind /\ call'[c].arg = arg
<1> USE DEF IInv
<1>1. /\ Typing' /\ Others(c) /\ Idle(c) /\ ~ Idle(c)'
      /\ call'[c].kind = kind /\ call'[c].arg = arg
  BY StartStep DEF Typed, Typing
<1>2. c \notin mine
  BY <1>1 DEF Typed, SignInTypeOK
<1>3. Typed'
  <2>1. SignInTypeOK'
    BY <1>1 DEF Typed, SignInTypeOK, signInVars, Idle, Others
  <2>2. \A d \in mine' : ~ In(d, {"billing", "logout"})'
    BY <1>1 DEF Typed, SignInTypeOK, In, Idle, Others
  <2> QED BY <1>1, <2>1, <2>2 DEF Typed, Typing
<1>4. Own'
  <2>1. SameOf(SigningIn \cup {"refreshUser"})
    BY <1>1, SameOthers DEF In, SigningIn
  <2> QED BY <2>1, OwnKept DEF signInVars
<1>5. Fetched'
  <2>1. SameOf({"billing"}) /\ SameOf({"profile"})
    BY <1>1, SameOthers DEF In
  <2> QED BY <2>1, FetchedKept DEF signInVars
<1> QED BY <1>1, <1>2, <1>3, <1>4, <1>5 DEF ProtectedShown, signInVars

\* A call that was waited for ends.
LEMMA EndedStep ==
  ASSUME IInv, NEW c \in Call,
         In(c, {"checkout", "portal", "forgot", "reset", "resend", "verify"}), Free(c),
         UNCHANGED <<signInVars, cache, doubtful, link>>, mine' = mine \ {c},
         state' \in {"none", "waiting", "success", "error"}, BillingTypeOK'
  PROVE  /\ Typed' /\ ProtectedShown' /\ Own' /\ Fetched'
         /\ Others(c) /\ Idle(c)'
<1> USE DEF IInv
<1>1. Typing' /\ Others(c) /\ Idle(c)'
  BY FreeStep DEF Typed, Typing
<1>2. Typed'
  <2>1. SignInTypeOK'
    BY <1>1 DEF Typed, SignInTypeOK, signInVars, Idle, Others
  <2>2. \A d \in mine' : ~ In(d, {"billing", "logout"})'
    BY <1>1 DEF Typed, SignInTypeOK, In, Idle, Others
  <2> QED BY <1>1, <2>1, <2>2 DEF Typed, Typing
<1>3. Own'
  <2>1. SameOf(SigningIn \cup {"refreshUser"})
    BY <1>1, SameOthers DEF In, SigningIn
  <2> QED BY <2>1, OwnKept DEF signInVars
<1>4. Fetched'
  <2>1. SameOf({"billing"}) /\ SameOf({"profile"})
    BY <1>1, SameOthers DEF In
  <2> QED BY <2>1, FetchedKept DEF signInVars
<1> QED BY <1>1, <1>2, <1>3, <1>4 DEF ProtectedShown, signInVars

LEMMA SubscribeStep ==
  ASSUME IInv, NEW c \in Call, NEW p \in Price, Subscribe(c, p), MailAside
  PROVE  IInv'
<1> USE DEF IInv
<1> DEFINE arg == [By(tokens, "page") EXCEPT !.price = p]
<1>1. /\ UNCHANGED <<signInVars, cache, doubtful, isLoadingPortal, showVerificationError,
                     state, link>>
      /\ page = "billing" /\ checkoutLoading' = p /\ mine' = mine \cup {c}
      /\ Start(c, "checkout", arg, MutationRetries, NoCopy)
  BY DEF Subscribe, Loaded, MailAside, signInVars
<1>2. arg \in Arg /\ arg.by = "page" /\ arg.price = p
  BY ByFields DEF Typed, SignInTypeOK, Arg, By
<1> HIDE DEF arg
<1>3. /\ Record("checkout", arg, MutationRetries) \in Sound
      /\ Record("checkout", arg, MutationRetries).kind = "checkout"
      /\ Record("checkout", arg, MutationRetries).arg = arg
  <2>1. "checkout" \notin SigningIn
    BY DEF SigningIn
  <2>2. MutationRetries \in 0 .. QueryRetries + MutationRetries
    BY Retries
  <2> QED BY <1>2, <2>1, <2>2, RecordSound
<1>4. BillingTypeOK'
  BY <1>1 DEF Typed, BillingTypeOK
<1>5. state' \in {"none", "waiting", "success", "error"}
  BY <1>1 DEF Typed
<1>6. /\ Typed' /\ ProtectedShown' /\ Own' /\ Fetched'
      /\ Others(c) /\ Idle(c) /\ ~ Idle(c)' /\ c \notin mine
      /\ call'[c].kind = "checkout" /\ call'[c].arg = arg
  BY <1>1, <1>3, <1>4, <1>5, BegunStep
<1>7. Waiting'
  <2>1. state' = "none" /\ ~ WaitedFor(c)'
    BY <1>1, <1>6 DEF Waiting, WaitedFor, In
  <2>2. \A d \in mine : ~ WaitedFor(d)
    BY <1>1 DEF Waiting
  <2>3. \A d \in mine' : ~ WaitedFor(d)'
    BY <1>1, <1>6, <2>1, <2>2, OthersWait DEF Typed, SignInTypeOK
  <2>4. isLoadingPortal' => \E d \in mine' : ForPortal(d)'
    BY <1>1, <1>6, PortalWaits DEF Typed, SignInTypeOK
  <2>5. ForCheckout(c, checkoutLoading)' /\ c \in mine'
    BY <1>1, <1>2, <1>6 DEF ForCheckout, In
  <2> QED BY <2>1, <2>3, <2>4, <2>5 DEF Waiting
<1> QED BY <1>1, <1>6, <1>7 DEF Verifying, signInVars

LEMMA ManageStep ==
  ASSUME IInv, NEW c \in Call, ManageSubscription(c), MailAside
  PROVE  IInv'
<1> USE DEF IInv
<1>1. /\ UNCHANGED <<signInVars, cache, doubtful, checkoutLoading, showVerificationError,
                     state, link>>
      /\ page = "billing" /\ isLoadingPortal' = TRUE /\ mine' = mine \cup {c}
      /\ Start(c, "portal", By(tokens, "portal"), MutationRetries, NoCopy)
  BY DEF ManageSubscription, Loaded, MailAside, signInVars
<1>2. By(tokens, "portal") \in Arg /\ By(tokens, "portal").by = "portal"
  BY ByFields DEF Typed, SignInTypeOK
<1>3. /\ Record("portal", By(tokens, "portal"), MutationRetries) \in Sound
      /\ Record("portal", By(tokens, "portal"), MutationRetries).kind = "portal"
      /\ Record("portal", By(tokens, "portal"), MutationRetries).arg = By(tokens, "portal")
  <2>1. "portal" \notin SigningIn
    BY DEF SigningIn
  <2>2. MutationRetries \in 0 .. QueryRetries + MutationRetries
    BY Retries
  <2> QED BY <1>2, <2>1, <2>2, RecordSound
<1>4. BillingTypeOK'
  BY <1>1 DEF Typed, BillingTypeOK
<1>5. state' \in {"none", "waiting", "success", "error"}
  BY <1>1 DEF Typed
<1>6. /\ Typed' /\ ProtectedShown' /\ Own' /\ Fetched'
      /\ Others(c) /\ Idle(c) /\ ~ Idle(c)' /\ c \notin mine /\ call'[c].kind = "portal"
  BY <1>1, <1>3, <1>4, <1>5, BegunStep
<1>7. Waiting'
  <2>1. state' = "none" /\ ~ WaitedFor(c)'
    BY <1>1, <1>6 DEF Waiting, WaitedFor, In
  <2>2. \A d \in mine : ~ WaitedFor(d)
    BY <1>1 DEF Waiting
  <2>3. \A d \in mine' : ~ WaitedFor(d)'
    BY <1>1, <1>6, <2>1, <2>2, OthersWait DEF Typed, SignInTypeOK
  <2>4. ForPortal(c)' /\ c \in mine'
    BY <1>1, <1>6 DEF ForPortal, In
  <2>5. checkoutLoading' # NoPrice => \E d \in mine' : ForCheckout(d, checkoutLoading)'
    BY <1>1, <1>6, CheckoutWaits DEF Typed, SignInTypeOK
  <2> QED BY <2>1, <2>3, <2>4, <2>5 DEF Waiting
<1> QED BY <1>1, <1>6, <1>7 DEF Verifying, signInVars

LEMMA FailCheckoutStep ==
  ASSUME IInv, NEW c \in Call, FailCheckout(c), MailAside
  PROVE  IInv'
<1> USE DEF IInv
<1>1. /\ UNCHANGED <<signInVars, cache, doubtful, isLoadingPortal, showVerificationError,
                     state, link>>
      /\ checkoutLoading' = IF c \in mine THEN NoPrice ELSE checkoutLoading
      /\ In(c, {"checkout"}) /\ Free(c) /\ mine' = mine \ {c}
  BY DEF FailCheckout, GivenUp, Answered, Arrives, Under, In, MailAside, signInVars
<1>2. BillingTypeOK' /\ state' \in {"none", "waiting", "success", "error"}
  BY <1>1 DEF Typed, BillingTypeOK
<1>3. Typed' /\ ProtectedShown' /\ Own' /\ Fetched' /\ Others(c) /\ Idle(c)'
  BY <1>1, <1>2, EndedStep DEF In
<1>4. Waiting'
  <2>1. ~ WaitedFor(c) /\ ~ ForPortal(c)
    BY <1>1 DEF WaitedFor, ForPortal, In
  <2>2. mine \subseteq Call
    BY DEF Typed, SignInTypeOK
  <2>3. \A d \in mine' : WaitedFor(d)' => page' \in {"verify", "reset", "forgot"}
    BY <1>1, <1>3, <2>2, OthersWait DEF Waiting, signInVars
  <2>4. state' = "waiting" => \E d \in mine' : WaitedFor(d)'
    BY <1>1, <1>3, <2>1, <2>2, OthersWait DEF Waiting
  <2>5. isLoadingPortal' => \E d \in mine' : ForPortal(d)'
    BY <1>1, <1>3, <2>1, <2>2, PortalWaits
  <2>6. checkoutLoading' # NoPrice => \E d \in mine' : ForCheckout(d, checkoutLoading)'
    BY <1>1, <1>3, <2>2, CheckoutWaits
  <2> QED BY <1>1, <2>3, <2>4, <2>5, <2>6 DEF Waiting, signInVars
<1>5. Verifying'
  BY <1>1 DEF Verifying, In, signInVars
<1> QED BY <1>3, <1>4, <1>5

LEMMA FailPortalStep ==
  ASSUME IInv, NEW c \in Call, FailPortal(c), MailAside
  PROVE  IInv'
<1> USE DEF IInv
<1>1. /\ UNCHANGED <<signInVars, cache, doubtful, checkoutLoading, state, link>>
      /\ isLoadingPortal' = (isLoadingPortal /\ c \notin mine)
      /\ showVerificationError' \in {showVerificationError, showVerificationError \/ c \in mine}
      /\ In(c, {"portal"}) /\ Free(c) /\ mine' = mine \ {c}
  BY DEF FailPortal, GivenUp, Answered, Arrives, Under, In, MailAside, signInVars
<1>2. BillingTypeOK' /\ state' \in {"none", "waiting", "success", "error"}
  BY <1>1 DEF Typed, BillingTypeOK
<1>3. Typed' /\ ProtectedShown' /\ Own' /\ Fetched' /\ Others(c) /\ Idle(c)'
  BY <1>1, <1>2, EndedStep DEF In
<1>4. Waiting'
  <2>1. ~ WaitedFor(c) /\ \A p : ~ ForCheckout(c, p)
    BY <1>1 DEF WaitedFor, ForCheckout, In
  <2>2. mine \subseteq Call
    BY DEF Typed, SignInTypeOK
  <2>3. \A d \in mine' : WaitedFor(d)' => page' \in {"verify", "reset", "forgot"}
    BY <1>1, <1>3, <2>2, OthersWait DEF Waiting, signInVars
  <2>4. state' = "waiting" => \E d \in mine' : WaitedFor(d)'
    BY <1>1, <1>3, <2>1, <2>2, OthersWait DEF Waiting
  <2>5. isLoadingPortal' => \E d \in mine' : ForPortal(d)'
    BY <1>1, <1>3, <2>2, PortalWaits
  <2>6. checkoutLoading' # NoPrice => \E d \in mine' : ForCheckout(d, checkoutLoading)'
    BY <1>1, <1>3, <2>1, <2>2, CheckoutWaits
  <2> QED BY <1>1, <2>3, <2>4, <2>5, <2>6 DEF Waiting, signInVars
<1>5. Verifying'
  BY <1>1 DEF Verifying, In, signInVars
<1> QED BY <1>3, <1>4, <1>5

LEMMA ForbiddenStep ==
  ASSUME IInv, NEW c \in Call, ForbiddenPortal(c), MailAside
  PROVE  IInv'
<1> USE DEF IInv
<1>1. /\ UNCHANGED <<verified, tokens, stored, page, auth, modal, strayed, mine,
                     billingVars, state, link>>
      /\ In(c, {"portal"}) /\ ~ Idle(c) /\ tokens # NoUser
      /\ Then(c, "refreshUser", tokens)
  BY DEF ForbiddenPortal, GivenUp, Answered, Arrives, Under, In, MailAside, signInVars
<1>2. tokens \in User
  BY <1>1 DEF Typed, SignInTypeOK
<1>3. call[c].arg.by = "portal"
  BY <1>1, CallFields DEF Typed, Typing, In, Sound
<1>4. /\ Typing' /\ Others(c) /\ ~ Idle(c)'
      /\ call'[c].kind = "refreshUser" /\ call'[c].arg.user = tokens
      /\ call'[c].arg.by = "portal"
  BY <1>1, <1>2, <1>3, ThenStep DEF Typed, Typing
<1>5. Typed'
  <2>1. SignInTypeOK'
    BY <1>1, <1>4 DEF Typed, SignInTypeOK, Idle, Others
  <2>2. \A d \in mine' : ~ In(d, {"billing", "logout"})'
    BY <1>1, <1>4 DEF Typed, SignInTypeOK, In, Idle, Others
  <2> QED BY <1>1, <1>4, <2>1, <2>2 DEF Typed, Typing, BillingTypeOK, billingVars
<1>6. Own'
  <2>1. \A d \in Call : In(d, SigningIn)' <=> In(d, SigningIn)
    BY <1>1, <1>4 DEF Others, In, Idle, SigningIn
  <2>2. \A d \in Call : In(d, {"profile", "refreshUser"})' /\ d # c
                          => In(d, {"profile", "refreshUser"}) /\ call'[d] = call[d]
    BY <1>4 DEF Others, In, Idle
  <2>3. NoneOf({"profile"})' => NoneOf({"profile"})
    BY <1>1, <1>4 DEF NoneOf, Others, In, Idle
  <2> QED BY <1>1, <1>4, <2>1, <2>2, <2>3 DEF Own
<1>7. Fetched'
  <2>1. SameOf({"billing"}) /\ SameOf({"profile"})
    BY <1>1, <1>4, SameOthers DEF In
  <2> QED BY <1>1, <2>1, FetchedKept DEF billingVars
<1>8. Verifying'
  BY <1>1 DEF Verifying, In
<1>9. Waiting'
  <2>1. ~ WaitedFor(c)' /\ ~ WaitedFor(c) /\ ForPortal(c)' /\ \A p : ~ ForCheckout(c, p)
    BY <1>1, <1>4 DEF WaitedFor, ForPortal, ForCheckout, In
  <2>2. mine \subseteq Call
    BY DEF Typed, SignInTypeOK
  <2>3. \A d \in mine : /\ WaitedFor(d)' <=> WaitedFor(d)
                        /\ ForPortal(d) => ForPortal(d)'
                        /\ ForCheckout(d, checkoutLoading)
                             => In(d, {"checkout"})' /\ call'[d].arg.price = checkoutLoading
    BY <1>4, <2>1, <2>2, OthersWait
  <2> QED BY <1>1, <2>3 DEF Waiting, ForCheckout, billingVars
<1> QED BY <1>1, <1>5, <1>6, <1>7, <1>8, <1>9 DEF ProtectedShown

\* What is read of the user is read for the tokens that are there.
LEMMA Refreshed ==
  ASSUME Typed, Own, NEW c \in Call, In(c, {"refreshUser"}), StoreRefreshed(c),
         Typing', Others(c), Idle(c)', tokens' = tokens
  PROVE  /\ Own' /\ strayed' \in BOOLEAN /\ stored' \in Copy \cup {NoCopy}
         /\ auth' \in [in : BOOLEAN, user : {"none", "unverified", "verified"}]
         /\ strayed => strayed'
         /\ ~ strayed' => stored' = call[c].value /\ call[c].ok /\ call[c].arg.user = tokens
<1>1. call[c] \in Sound /\ (call[c].ok => /\ call[c].value \in Copy
                                          /\ call[c].value.user = call[c].arg.user)
  BY CallFields DEF Typed, Typing, In, Sound
<1>2. auth' \in [in : BOOLEAN, user : {"none", "unverified", "verified"}]
  BY AuthTypes DEF Typed, SignInTypeOK, StoreRefreshed
<1>3. strayed' \in BOOLEAN /\ stored' \in Copy \cup {NoCopy} /\ (strayed => strayed')
  BY <1>1 DEF Typed, SignInTypeOK, StoreRefreshed
<1>4. ASSUME ~ strayed'
      PROVE  stored' = call[c].value /\ call[c].ok /\ call[c].arg.user = tokens
  <2>1. call[c].ok /\ stored' = call[c].value /\ ~ strayed
    BY <1>4 DEF StoreRefreshed
  <2>2. In(c, {"profile", "refreshUser"})
    BY DEF In
  <2> QED BY <2>1, <2>2 DEF Own
<1>5. Own'
  <2> SUFFICES ASSUME ~ strayed'
               PROVE  Own'
    BY DEF Own
  <2>1. ~ strayed
    BY <1>3
  <2>2. \A d \in Call : /\ In(d, SigningIn)' => In(d, SigningIn)
                        /\ In(d, {"profile", "refreshUser"})' =>
                             In(d, {"profile", "refreshUser"}) /\ call'[d] = call[d]
    BY DEF Others, In, Idle
  <2>3. stored' # NoCopy /\ stored'.user = tokens
    BY <1>1, <1>4, CopyAssumption
  <2> QED BY <2>1, <2>2, <2>3 DEF Own
<1> QED BY <1>2, <1>3, <1>4, <1>5

LEMMA EndRefreshStep ==
  ASSUME IInv, NEW c \in Call, EndRefreshUser(c), MailAside
  PROVE  IInv'
<1> USE DEF IInv
<1>1. /\ UNCHANGED <<verified, tokens, page, modal, cache, doubtful, checkoutLoading,
                     state, link>>
      /\ isLoadingPortal' =
           (isLoadingPortal /\ ~ (c \in mine /\ call[c].arg.by = "portal"))
      /\ mine' = mine \ {c}
      /\ In(c, {"refreshUser"}) /\ ~ Idle(c) /\ Free(c) /\ call[c].arg.by # "verify"
      /\ StoreRefreshed(c)
  BY DEF EndRefreshUser, Take, Under, In, Free, MailAside
<1>2. Typing' /\ Others(c) /\ Idle(c)'
  BY <1>1, FreeStep DEF Typed, Typing
<1>3. /\ Own' /\ strayed' \in BOOLEAN /\ stored' \in Copy \cup {NoCopy}
      /\ auth' \in [in : BOOLEAN, user : {"none", "unverified", "verified"}]
      /\ strayed => strayed'
  BY <1>1, <1>2, Refreshed
<1>4. Typed'
  <2>1. mine' \subseteq {d \in Call : ~ Idle(d)'}
    BY <1>1, <1>2 DEF Typed, SignInTypeOK, Idle, Others
  <2>2. SignInTypeOK'
    BY <1>1, <1>3, <2>1 DEF Typed, SignInTypeOK
  <2>3. \A d \in mine' : ~ In(d, {"billing", "logout"})'
    BY <1>1, <1>2 DEF Typed, SignInTypeOK, In, Idle, Others
  <2>4. BillingTypeOK'
    BY <1>1 DEF EndRefreshUser, Typed, BillingTypeOK
  <2> QED BY <1>1, <1>2, <2>2, <2>3, <2>4 DEF Typed, Typing
<1>5. Fetched'
  <2>1. SameOf({"billing"}) /\ SameOf({"profile"})
    BY <1>1, <1>2, SameOthers DEF In
  <2> QED BY <1>1, <1>3, <2>1, FetchedKept
<1>6. Verifying'
  BY <1>1 DEF Verifying, In
<1>7. Waiting'
  <2>1. ~ WaitedFor(c) /\ (ForPortal(c) => call[c].arg.by = "portal")
        /\ \A p : ~ ForCheckout(c, p)
    BY <1>1 DEF WaitedFor, ForPortal, ForCheckout, In
  <2>2. mine \subseteq Call
    BY DEF Typed, SignInTypeOK
  <2>3. \A d \in mine' : WaitedFor(d)' => page' \in {"verify", "reset", "forgot"}
    BY <1>1, <1>2, <2>2, OthersWait DEF Waiting
  <2>4. state' = "waiting" => \E d \in mine' : WaitedFor(d)'
    BY <1>1, <1>2, <2>1, <2>2, OthersWait DEF Waiting
  <2>5. isLoadingPortal' => \E d \in mine' : ForPortal(d)'
    BY <1>1, <1>2, <2>1, <2>2, PortalWaits
  <2>6. checkoutLoading' # NoPrice => \E d \in mine' : ForCheckout(d, checkoutLoading)'
    BY <1>1, <1>2, <2>1, <2>2, CheckoutWaits
  <2> QED BY <1>1, <2>3, <2>4, <2>5, <2>6 DEF Waiting
<1> QED BY <1>1, <1>3, <1>4, <1>5, <1>6, <1>7 DEF ProtectedShown

LEMMA UnservedStep ==
  ASSUME IInv, NEW c \in Call, Unserved(c), UNCHANGED billingVars, MailAside
  PROVE  IInv'
<1> USE DEF IInv
<1>1. /\ UNCHANGED <<verified, tokens, stored, page, auth, modal, strayed, mine,
                     billingVars, state, link>>
      /\ ~ Idle(c) /\ call[c].stage = "sent" /\ Fail(c)
  BY DEF Unserved, Arrives, Under, signInVars, MailAside
<1>2. Typing' /\ Others(c) /\ SameCall(c) /\ ~ call'[c].ok
  BY <1>1, FailStep DEF Typed, Typing
<1>3. \A kinds : SameOf(kinds)
  BY <1>2, SameSelf
<1>4. Typed'
  <2>1. SignInTypeOK'
    BY <1>1, <1>2 DEF Typed, SignInTypeOK, Idle, Others, SameCall
  <2>2. \A d \in mine' : ~ In(d, {"billing", "logout"})'
    BY <1>1, <1>3 DEF Typed, SignInTypeOK, SameOf
  <2> QED BY <1>1, <1>2, <2>1, <2>2 DEF Typed, Typing, BillingTypeOK, billingVars
<1>5. Own'
  BY <1>1, <1>3, OwnKept
<1>6. Fetched'
  BY <1>1, <1>3, FetchedKept DEF billingVars
<1>7. Verifying'
  <2> SUFFICES ASSUME page = "verify"
               PROVE  Verifying'
    BY <1>1 DEF Verifying
  <2>1. \A d \in Call : /\ Idle(d)' <=> Idle(d)
                        /\ ~ Idle(d) => /\ call'[d].kind = call[d].kind
                                        /\ call'[d].arg = call[d].arg
                                        /\ call'[d].ok => call'[d] = call[d]
    BY <1>2 DEF Others, SameCall, Idle
  <2> QED BY <1>1, <2>1 DEF Verifying, VerifiedSeen, In
<1>8. Waiting'
  <2>1. SameWaits
    BY <1>1, <1>3 DEF SameWaits, SameOf
  <2> QED BY <1>1, <2>1, WaitingKept DEF Typed, SignInTypeOK, billingVars
<1> QED BY <1>1, <1>4, <1>5, <1>6, <1>7, <1>8 DEF ProtectedShown

LEMMA ClosedStep ==
  ASSUME IInv, CloseVerificationError, MailAside
  PROVE  IInv'
<1> USE DEF IInv
<1>1. UNCHANGED <<call, verified, tokens, stored, page, auth, modal, strayed, mine, cache,
                  doubtful, checkoutLoading, isLoadingPortal, state, link>>
      /\ showVerificationError' = FALSE
  BY DEF CloseVerificationError, signInVars, MailAside
<1>2. Typed'
  <2>1. SignInTypeOK'
    BY <1>1 DEF Typed, SignInTypeOK, Idle
  <2>2. BillingTypeOK'
    BY <1>1 DEF Typed, BillingTypeOK
  <2>3. \A c \in mine' : ~ In(c, {"billing", "logout"})'
    BY <1>1 DEF Typed, In, Idle
  <2> QED BY <1>1, <2>1, <2>2, <2>3 DEF Typed
<1>3. Own' /\ Fetched'
  BY <1>1, SameUnchanged, OwnKept, FetchedKept
<1>4. Verifying'
  BY <1>1 DEF Verifying, VerifiedSeen, In, Idle
<1>5. Waiting'
  BY <1>1, SameWaitsUnchanged, WaitingKept DEF Typed, SignInTypeOK
<1> QED BY <1>1, <1>2, <1>3, <1>4, <1>5 DEF ProtectedShown

-----------------------------------------------------------------------------
(* Documents that are left.                                                *)

LEMMA OwnLeft ==
  ASSUME Own, UNCHANGED <<tokens, stored>>,
         strayed' = (strayed \/ ~ NoneOf({"profile"})),
         \A d \in Call : ~ In(d, SigningIn)',
         \A d \in Call : In(d, {"refreshUser"})' => call'[d].arg.user = tokens
  PROVE  Own'
<1> SUFFICES ASSUME ~ strayed'
             PROVE  Own'
  BY DEF Own
<1>1. ~ strayed /\ NoneOf({"profile"})
  OBVIOUS
<1>2. \A d \in Call : In(d, {"profile", "refreshUser"})' => In(d, {"refreshUser"})'
  BY DEF In, SigningIn
<1>3. tokens' # NoUser => stored' # NoCopy /\ stored'.user = tokens'
  BY <1>1 DEF Own
<1>4. \A d \in Call : In(d, {"profile", "refreshUser"})' => call'[d].arg.user = tokens'
  BY <1>2
<1> QED BY <1>3, <1>4 DEF Own

\* What a document that is opened starts with.
LEMMA LeftStep ==
  ASSUME Typed, Own, NEW p \in Page, NEW calls \in [Call -> {NoCall} \cup Sound],
         NEW component \in SUBSET Call, Leave(p, calls, component),
         \A d \in component : calls[d] # NoCall /\ calls[d].kind \notin {"billing", "logout"},
         \A d \in Call : calls[d] # NoCall =>
            /\ calls[d].kind \notin SigningIn
            /\ calls[d].kind = "refreshUser" => calls[d].arg.user = tokens,
         UNCHANGED <<verified, tokens, stored>>, auth' = FromStorage \/ auth' = auth,
         state' \in {"none", "waiting", "success", "error"}, link' \in User \cup {NoUser}
  PROVE  Typed' /\ Own' /\ ~ modal' /\ ResetPage /\ page' = p /\ call' = calls
         /\ mine' = component
<1>1. /\ page' = p /\ call' = calls /\ mine' = component /\ modal' = FALSE
      /\ cache' = NoUser /\ doubtful' = FALSE
      /\ strayed' = (strayed \/ ~ NoneOf({"profile"})) /\ ResetPage
  BY DEF Leave
<1>2. SignInTypeOK'
  <2>1. auth' \in [in : BOOLEAN, user : {"none", "unverified", "verified"}]
    BY AuthTypes DEF Typed, SignInTypeOK
  <2>2. strayed' \in BOOLEAN
    BY <1>1 DEF Typed, SignInTypeOK
  <2>3. mine' \subseteq {d \in Call : ~ Idle(d)'}
    BY <1>1 DEF Idle
  <2> QED BY <1>1, <2>1, <2>2, <2>3 DEF Typed, SignInTypeOK
<1>3. BillingTypeOK'
  BY <1>1 DEF BillingTypeOK, ResetPage
<1>4. \A d \in mine' : ~ In(d, {"billing", "logout"})'
  BY <1>1 DEF In
<1>5. Typed'
  BY <1>1, <1>2, <1>3, <1>4 DEF Typed
<1>6. Own'
  <2>1. \A d \in Call : ~ In(d, SigningIn)'
    BY <1>1 DEF In, Idle
  <2>2. \A d \in Call : In(d, {"refreshUser"})' => call'[d].arg.user = tokens
    BY <1>1 DEF In, Idle
  <2> QED BY <1>1, <2>1, <2>2, OwnLeft
<1> QED BY <1>1, <1>5, <1>6

\* Nothing is under way, and nothing is waited for.
LEMMA EmptyStep ==
  ASSUME Typed, Own, NEW p \in Page \ Protected, Leave(p, NoCalls, {}),
         UNCHANGED <<verified, tokens, stored>>, auth' = FromStorage \/ auth' = auth,
         state' \in {"none", "error"}, link' \in User \cup {NoUser},
         state' = "none" \/ p = "verify", p = "verify" => link' \in User
  PROVE  IInv'
<1>1. NoCalls \in [Call -> {NoCall} \cup Sound] /\ \A d \in Call : NoCalls[d] = NoCall
  BY DEF NoCalls
<1>2. /\ Typed' /\ Own' /\ ~ modal' /\ ResetPage /\ page' = p /\ call' = NoCalls
      /\ mine' = {}
  BY <1>1, LeftStep
<1>3. \A d \in Call : Idle(d)'
  BY <1>1, <1>2 DEF Idle
<1>4. Fetched'
  BY <1>2, <1>3 DEF Fetched, In, Protected
<1>5. Verifying'
  BY <1>2, <1>3 DEF Verifying, VerifiedSeen, In
<1>6. Waiting'
  BY <1>2 DEF Waiting, ResetPage
<1> QED BY <1>2, <1>4, <1>5, <1>6 DEF IInv, ProtectedShown

LEMMA StripeStep ==
  ASSUME IInv, NEW c \in Call, GoToStripe(c), MailAside
  PROVE  IInv'
<1> USE DEF IInv
<1>1. /\ Leave("stripe", NoCalls, {}) /\ UNCHANGED <<verified, tokens, stored, auth>>
      /\ page' = "stripe"
  BY DEF GoToStripe, Leave
<1>2. state' = "none" /\ link' \in User \cup {NoUser}
  BY <1>1 DEF MailAside, Waiting, Typed
<1>3. "stripe" \in Page \ Protected
  BY DEF Page, Protected
<1> QED BY <1>1, <1>2, <1>3, EmptyStep

LEMMA ResetLinkStep ==
  ASSUME IInv, OpenResetLink
  PROVE  IInv'
<1> USE DEF IInv
<1>1. /\ Leave("reset", NoCalls, {}) /\ UNCHANGED <<verified, tokens, stored>>
      /\ auth' = FromStorage /\ state' = "none" /\ link' = NoUser
  BY DEF OpenResetLink
<1>2. "reset" \in Page \ Protected
  BY DEF Page, Protected
<1> QED BY <1>1, <1>2, EmptyStep

LEMMA VerifyLinkStep ==
  ASSUME IInv, NEW u \in User, OpenVerifyLink(u)
  PROVE  IInv'
<1> USE DEF IInv
<1>1. /\ link' = u /\ auth' = FromStorage /\ UNCHANGED <<verified, tokens, stored>>
      /\ "verify" \in Page \ Protected
  BY DEF OpenVerifyLink, Page, Protected
<1>2. CASE Leave("verify", NoCalls, {}) /\ state' = "error"
  BY <1>1, <1>2, EmptyStep
<1>3. ASSUME NEW c \in Call, state' = "waiting",
             Leave("verify",
                   [d \in Call |->
                      IF d = c THEN Record("verify", By(u, "verify"), MutationRetries)
                      ELSE NoCall], {c})
      PROVE  IInv'
  <2> DEFINE r == Record("verify", By(u, "verify"), MutationRetries)
             calls == [d \in Call |-> IF d = c THEN r ELSE NoCall]
  <2>1. By(u, "verify") \in Arg /\ By(u, "verify").user = u /\ By(u, "verify").by = "verify"
    BY ByFields
  <2>2. r \in Sound /\ r.kind = "verify" /\ r.arg = By(u, "verify") /\ ~ r.ok
    <3>1. "verify" \in Mutation /\ "verify" \notin SigningIn
      BY DEF Mutation, SigningIn
    <3>2. MutationRetries \in 0 .. QueryRetries + MutationRetries
      BY Retries
    <3> QED BY <2>1, <3>1, <3>2, RecordSound
  <2> HIDE DEF r
  <2>3. r # NoCall
    BY <2>2, SoundIsCall
  <2>4. calls \in [Call -> {NoCall} \cup Sound]
    BY <2>2
  <2>5. Leave("verify", calls, {c})
    BY <1>3 DEF r
  <2>6. \A d \in Call : (calls[d] # NoCall => d = c) /\ calls[c] = r
    OBVIOUS
  <2> HIDE DEF calls
  <2>7. /\ Typed' /\ Own' /\ ~ modal' /\ ResetPage /\ page' = "verify"
        /\ call' = calls /\ mine' = {c}
    <3>1. r.kind \notin SigningIn
      BY <2>2 DEF SigningIn
    <3>2. \A d \in {c} : calls[d] # NoCall /\ calls[d].kind \notin {"billing", "logout"}
      BY <2>2, <2>3, <2>6
    <3>3. \A d \in Call : calls[d] # NoCall =>
             /\ calls[d].kind \notin SigningIn
             /\ calls[d].kind = "refreshUser" => calls[d].arg.user = tokens
      BY <2>2, <2>6, <3>1
    <3> QED BY <1>1, <1>3, <2>4, <2>5, <3>2, <3>3, LeftStep
  <2>8. \A d \in Call : ~ Idle(d)' => d = c /\ call'[d] = r
    BY <2>6, <2>7 DEF Idle
  <2>9. Fetched'
    BY <2>2, <2>7, <2>8 DEF Fetched, In
  <2>10. Verifying'
    BY <1>1, <1>3, <2>1, <2>2, <2>7, <2>8 DEF Verifying, VerifiedSeen, In
  <2>11. Waiting'
    <3>1. WaitedFor(c)'
      BY <2>2, <2>3, <2>6, <2>7 DEF WaitedFor, In, Idle
    <3> QED BY <2>7, <3>1 DEF Waiting, ResetPage
  <2> QED BY <2>7, <2>9, <2>10, <2>11 DEF ProtectedShown, Protected
<1> QED BY <1>1, <1>2, <1>3 DEF OpenVerifyLink

LEMMA ReturnStep ==
  ASSUME IInv, NEW success \in BOOLEAN, Return(success), MailAside
  PROVE  IInv'
<1> USE DEF IInv
<1>1. page = "stripe" /\ auth' = FromStorage /\ UNCHANGED <<verified, tokens, stored>>
  BY DEF Return
<1>2. CASE tokens = NoUser
  <2>1. Leave("login", NoCalls, {}) /\ page' = "login"
    BY <1>2 DEF Return, Leave
  <2>2. state' = "none" /\ link' = NoUser
    BY <1>1, <2>1 DEF MailAside
  <2>3. "login" \in Page \ Protected
    BY DEF Page, Protected
  <2> QED BY <1>1, <2>1, <2>2, <2>3, EmptyStep
<1>3. ASSUME NEW c \in Call, NEW d \in Call, c # d, tokens # NoUser,
             Leave("billing",
                   [e \in Call |->
                      IF e = c THEN Record("billing", By(tokens, "page"), QueryRetries)
                      ELSE IF e = d /\ success
                           THEN Record("refreshUser", By(tokens, "page"), 0)
                           ELSE NoCall],
                   IF success THEN {d} ELSE {})
      PROVE  IInv'
  <2> DEFINE fetch == Record("billing", By(tokens, "page"), QueryRetries)
             read == Record("refreshUser", By(tokens, "page"), 0)
             calls == [e \in Call |-> IF e = c THEN fetch
                                      ELSE IF e = d /\ success THEN read ELSE NoCall]
             component == IF success THEN {d} ELSE {}
  <2>1. tokens \in User
    BY <1>3 DEF Typed, SignInTypeOK
  <2>2. By(tokens, "page") \in Arg /\ By(tokens, "page").user = tokens
        /\ By(tokens, "page").by = "page"
    BY <2>1, ByFields
  <2>3. fetch \in Sound /\ fetch.kind = "billing" /\ fetch.arg.user = tokens
    BY <2>1, <2>2, PageRecord, Retries
  <2>4. read \in Sound /\ read.kind = "refreshUser" /\ read.arg = By(tokens, "page")
    <3>1. "refreshUser" \notin SigningIn
      BY DEF SigningIn
    <3>2. 0 \in 0 .. QueryRetries + MutationRetries
      BY Retries
    <3> QED BY <2>1, <2>2, <3>1, <3>2, RecordSound
  <2> HIDE DEF fetch, read
  <2>5. fetch # NoCall /\ read # NoCall
    BY <2>3, <2>4, SoundIsCall
  <2>6. calls \in [Call -> {NoCall} \cup Sound]
    BY <2>3, <2>4
  <2>7. Leave("billing", calls, component)
    BY <1>3 DEF fetch, read
  <2>8. /\ calls[c] = fetch /\ component \subseteq Call
        /\ \A e \in component : e = d /\ calls[e] = read
        /\ \A e \in Call : calls[e] # NoCall => \/ e = c /\ calls[e] = fetch
                                                \/ e = d /\ calls[e] = read
    BY <1>3
  <2> HIDE DEF calls, component
  <2>9. page' = "billing" /\ state' = "none" /\ link' = NoUser
    BY <1>1, <2>7 DEF MailAside, Leave
  <2>10. /\ Typed' /\ Own' /\ ResetPage /\ call' = calls /\ mine' = component
    <3>1. fetch.kind \notin SigningIn /\ read.kind \notin SigningIn
      BY <2>3, <2>4 DEF SigningIn
    <3>2. \A e \in component : calls[e] # NoCall /\ calls[e].kind \notin {"billing", "logout"}
      BY <2>4, <2>5, <2>8
    <3>3. \A e \in Call : calls[e] # NoCall =>
             /\ calls[e].kind \notin SigningIn
             /\ calls[e].kind = "refreshUser" => calls[e].arg.user = tokens
      BY <2>2, <2>3, <2>4, <2>8, <3>1
    <3>4. "billing" \in Page
      BY DEF Page
    <3> QED BY <1>1, <2>6, <2>7, <2>8, <2>9, <3>2, <3>3, <3>4, LeftStep
  <2>11. Fetched'
    <3>1. \A e \in Call : In(e, {"billing"})' => e = c
      BY <2>4, <2>8, <2>10 DEF In, Idle
    <3>2. Fetching'
      BY <2>3, <2>5, <2>8, <2>10 DEF Fetching, NoneOf, Idle
    <3>3. call'[c].arg.user = tokens'
      BY <1>1, <2>3, <2>8, <2>10
    <3> QED BY <3>1, <3>2, <3>3 DEF Fetched
  <2>12. Waiting'
    <3>1. \A e \in mine' : ~ WaitedFor(e)'
      BY <2>2, <2>4, <2>8, <2>10 DEF WaitedFor, In
    <3> QED BY <2>9, <2>10, <3>1 DEF Waiting, ResetPage
  <2> QED BY <1>1, <1>3, <2>9, <2>10, <2>11, <2>12 DEF ProtectedShown, Verifying
<1> QED BY <1>2, <1>3 DEF Return

-----------------------------------------------------------------------------
(* The pages that mail leads to.                                           *)

\* A call of these pages ends, and with it the wait of its page.
LEMMA EndedWait ==
  ASSUME Waiting, NEW c \in Call, Others(c), Idle(c)', WaitedFor(c), mine \subseteq Call,
         mine' = mine \ {c}, UNCHANGED <<page, isLoadingPortal, checkoutLoading>>,
         c \in mine => state' # "waiting", c \notin mine => state' = state
  PROVE  Waiting'
<1>1. ~ ForPortal(c) /\ \A p : ~ ForCheckout(c, p)
  BY DEF WaitedFor, ForPortal, ForCheckout, In
<1>2. state' # "none" => page' \in {"verify", "reset", "forgot"}
  BY DEF Waiting
<1>3. \A d \in mine' : WaitedFor(d)' => page' \in {"verify", "reset", "forgot"}
  BY OthersWait DEF Waiting
<1>4. state' = "waiting" => \E d \in mine' : WaitedFor(d)'
  BY OthersWait DEF Waiting
<1>5. isLoadingPortal' => \E d \in mine' : ForPortal(d)'
  BY <1>1, PortalWaits
<1>6. checkoutLoading' # NoPrice => \E d \in mine' : ForCheckout(d, checkoutLoading)'
  BY <1>1, CheckoutWaits
<1> QED BY <1>2, <1>3, <1>4, <1>5, <1>6 DEF Waiting

LEMMA ServeVerifyStep ==
  ASSUME IInv, NEW c \in Call, ServeVerify(c)
  PROVE  IInv'
<1> USE DEF IInv
<1>1. /\ UNCHANGED <<tokens, stored, page, auth, modal, strayed, mine, cache, doubtful,
                     checkoutLoading, isLoadingPortal, showVerificationError,
                     state, link>>
      /\ verified' = [verified EXCEPT ![call[c].arg.user] = TRUE]
      /\ Respond(c, NoCopy) /\ ~ Idle(c) /\ call[c].stage = "sent"
      /\ In(c, {"verify"}) /\ call[c].kind = "verify"
  BY DEF ServeVerify, Arrives, Under, In, billingVars, mailVars
<1>2. Typing' /\ Others(c) /\ SameCall(c)
  BY <1>1, RespondStep DEF Typed, Typing
<1>3. call[c].arg.user \in User
  BY <1>1, CallFields DEF Typed, Typing, Sound
<1>4. /\ verified' \in [User -> BOOLEAN] /\ verified'[call[c].arg.user]
      /\ \A u \in User : verified[u] => verified'[u]
  BY <1>1, <1>3 DEF Typed, SignInTypeOK
<1>5. \A kinds : SameOf(kinds)
  BY <1>2, SameSelf
<1>6. Typed'
  <2>1. SignInTypeOK'
    BY <1>1, <1>2, <1>4 DEF Typed, SignInTypeOK, Idle, Others, SameCall
  <2>2. BillingTypeOK'
    BY <1>1 DEF Typed, BillingTypeOK
  <2>3. \A d \in mine' : ~ In(d, {"billing", "logout"})'
    BY <1>1, <1>5 DEF Typed, SignInTypeOK, SameOf
  <2> QED BY <1>1, <1>2, <2>1, <2>2, <2>3 DEF Typed, Typing
<1>7. Own'
  BY <1>1, <1>5, OwnKept
<1>8. Fetched'
  BY <1>1, <1>5, FetchedKept
<1>9. Verifying'
  <2> SUFFICES ASSUME page = "verify"
               PROVE  Verifying'
    BY <1>1 DEF Verifying
  <2>1. link \in User /\ call[c].arg.user = link /\ verified'[link]
    BY <1>1, <1>4 DEF Verifying
  <2>2. \A d \in Call : /\ Idle(d)' <=> Idle(d)
                        /\ ~ Idle(d) => /\ call'[d].kind = call[d].kind
                                        /\ call'[d].arg = call[d].arg
                                        /\ call[d].kind = "refreshUser" => call'[d] = call[d]
    BY <1>1, <1>2 DEF Others, SameCall, Idle
  <2> QED BY <1>1, <2>1, <2>2 DEF Verifying, VerifiedSeen, In
<1>10. Waiting'
  <2>1. SameWaits
    BY <1>1, <1>5 DEF SameWaits, SameOf
  <2> QED BY <1>1, <2>1, WaitingKept DEF Typed, SignInTypeOK
<1> QED BY <1>1, <1>6, <1>7, <1>8, <1>9, <1>10 DEF ProtectedShown

\* The other calls of the page are no verification and no reading of the user.
LEMMA VerifyEnded ==
  ASSUME Verifying, NEW c \in Call, page = "verify", In(c, {"verify", "refreshUser"}),
         Others(c), Idle(c)'
  PROVE  /\ \A d \in Call : ~ In(d, {"verify", "refreshUser"})'
         /\ \A d \in Call : ~ Idle(d)' => call'[d].kind \in {"verify", "refreshUser", "resend"}
         /\ c \in mine /\ link \in User /\ ~ modal
<1>1. \A d \in Call : In(d, {"verify", "refreshUser"}) => d = c
  BY DEF Verifying
<1>2. \A d \in Call : ~ Idle(d)' => d # c /\ call'[d] = call[d] /\ ~ Idle(d)
  BY DEF Others, Idle
<1>3. \A d \in Call : ~ In(d, {"verify", "refreshUser"})'
  BY <1>1, <1>2 DEF In
<1>4. \A d \in Call : ~ Idle(d)' => call'[d].kind \in {"verify", "refreshUser", "resend"}
  BY <1>2 DEF Verifying
<1> QED BY <1>3, <1>4 DEF Verifying

LEMMA EndVerifyStep ==
  ASSUME IInv, NEW c \in Call, EndVerify(c)
  PROVE  IInv'
<1> USE DEF IInv
<1>1. /\ UNCHANGED <<signInVars, billingVars, link>>
      /\ UNCHANGED <<verified, tokens, stored, page, auth, modal, strayed>>
      /\ UNCHANGED <<cache, doubtful, checkoutLoading, isLoadingPortal,
                     showVerificationError>>
      /\ In(c, {"verify"}) /\ ~ Idle(c) /\ call[c].ok /\ call[c].kind = "verify"
  BY DEF EndVerify, Under, In, signInVars, billingVars
<1>2. CASE c \in mine /\ tokens # NoUser
  <2>1. Then(c, "refreshUser", tokens) /\ UNCHANGED <<mine, state>>
    BY <1>2 DEF EndVerify
  <2>2. tokens \in User /\ call[c].arg.by = "verify"
    BY <1>1, <1>2, CallFields DEF Typed, Typing, SignInTypeOK, Sound
  <2>3. /\ Typing' /\ Others(c) /\ ~ Idle(c)'
        /\ call'[c].kind = "refreshUser" /\ call'[c].arg.user = tokens
        /\ call'[c].arg.by = "verify" /\ ~ call'[c].ok
    BY <1>1, <2>1, <2>2, ThenStep DEF Typed, Typing
  <2>4. Typed'
    <3>1. SignInTypeOK'
      BY <1>1, <2>1, <2>3 DEF Typed, SignInTypeOK, Idle, Others
    <3>2. BillingTypeOK'
      BY <1>1 DEF Typed, BillingTypeOK
    <3>3. \A d \in mine' : ~ In(d, {"billing", "logout"})'
      BY <2>1, <2>3 DEF Typed, SignInTypeOK, In, Idle, Others
    <3> QED BY <1>1, <2>1, <2>3, <3>1, <3>2, <3>3 DEF Typed, Typing
  <2>5. Own'
    <3>1. \A d \in Call : In(d, SigningIn)' <=> In(d, SigningIn)
      BY <1>1, <2>3 DEF Others, In, Idle, SigningIn
    <3>2. \A d \in Call : In(d, {"profile", "refreshUser"})' /\ d # c
                            => In(d, {"profile", "refreshUser"}) /\ call'[d] = call[d]
      BY <2>3 DEF Others, In, Idle
    <3>3. NoneOf({"profile"})' => NoneOf({"profile"})
      BY <1>1, <2>3 DEF NoneOf, Others, In, Idle
    <3> QED BY <1>1, <2>3, <3>1, <3>2, <3>3 DEF Own
  <2>6. Fetched'
    <3>1. SameOf({"billing"}) /\ SameOf({"profile"})
      BY <1>1, <2>3, SameOthers DEF In
    <3> QED BY <1>1, <3>1, FetchedKept
  <2>7. Verifying'
    <3> SUFFICES ASSUME page = "verify"
                 PROVE  Verifying'
      BY <1>1 DEF Verifying
    <3>1. /\ link \in User /\ ~ modal /\ state = "waiting" /\ verified[link]
          /\ \A d \in Call : In(d, {"verify", "refreshUser"}) => d = c
      BY <1>1 DEF Verifying, In
    <3>2. \A d \in Call \ {c} : call'[d] = call[d] /\ (Idle(d)' <=> Idle(d))
      BY <2>3 DEF Others, Idle
    <3>3. \A d \in Call : In(d, {"verify", "refreshUser"})' => d = c
      BY <3>1, <3>2 DEF In
    <3>4. \A d \in Call : ~ Idle(d)' => call'[d].kind \in {"verify", "refreshUser", "resend"}
      BY <2>3, <3>2 DEF Verifying
    <3>5. \A d \in Call : ~ In(d, {"verify"})'
      BY <2>3, <3>3 DEF In
    <3>6. \A d \in Call : In(d, {"refreshUser"})' => d = c
      BY <3>3 DEF In
    <3> QED BY <1>1, <1>2, <2>1, <2>3, <3>1, <3>3, <3>4, <3>5, <3>6 DEF Verifying, VerifiedSeen
  <2>8. Waiting'
    <3>1. WaitedFor(c)' /\ WaitedFor(c) /\ ~ ForPortal(c) /\ \A p : ~ ForCheckout(c, p)
      BY <1>1, <2>3 DEF WaitedFor, ForPortal, ForCheckout, In
    <3>2. mine \subseteq Call
      BY DEF Typed, SignInTypeOK
    <3>3. \A d \in mine : /\ WaitedFor(d)' <=> WaitedFor(d)
                          /\ ForPortal(d) => ForPortal(d)'
                          /\ ForCheckout(d, checkoutLoading)
                               => In(d, {"checkout"})' /\ call'[d].arg.price = checkoutLoading
      BY <2>3, <3>1, <3>2, OthersWait
    <3> QED BY <1>1, <2>1, <3>3 DEF Waiting, ForCheckout
  <2> QED BY <1>1, <2>4, <2>5, <2>6, <2>7, <2>8 DEF ProtectedShown
<1>3. CASE ~ (c \in mine /\ tokens # NoUser)
  <2>1. /\ Free(c) /\ mine' = mine \ {c}
        /\ state' = IF c \in mine THEN "success" ELSE state
    BY <1>3 DEF EndVerify, Take, Free
  <2>2. BillingTypeOK' /\ state' \in {"none", "waiting", "success", "error"}
    BY <1>1, <2>1 DEF Typed, BillingTypeOK
  <2>3. Typed' /\ ProtectedShown' /\ Own' /\ Fetched' /\ Others(c) /\ Idle(c)'
    <3>1. In(c, {"checkout", "portal", "forgot", "reset", "resend", "verify"})
      BY <1>1 DEF In
    <3> QED BY <1>1, <2>1, <2>2, <3>1, EndedStep
  <2>4. Waiting'
    <3>1. WaitedFor(c) /\ mine \subseteq Call
      BY <1>1 DEF WaitedFor, In, Typed, SignInTypeOK
    <3> QED BY <1>1, <2>1, <2>3, <3>1, EndedWait
  <2>5. Verifying'
    <3> SUFFICES ASSUME page = "verify"
                 PROVE  Verifying'
      BY <1>1 DEF Verifying
    <3>1. /\ \A d \in Call : ~ In(d, {"verify", "refreshUser"})'
          /\ \A d \in Call : ~ Idle(d)' => call'[d].kind \in {"verify", "refreshUser", "resend"}
          /\ c \in mine /\ link \in User /\ ~ modal
      BY <1>1, <2>3, VerifyEnded DEF In
    <3>2. tokens # link
      BY <1>3, <3>1, UserAssumption
    <3>3. \A d \in Call : ~ In(d, {"verify"})' /\ ~ In(d, {"refreshUser"})'
      BY <3>1 DEF In
    <3> QED BY <1>1, <3>1, <3>2, <3>3 DEF Verifying, VerifiedSeen
  <2> QED BY <2>3, <2>4, <2>5
<1> QED BY <1>2, <1>3

LEMMA FailVerifyStep ==
  ASSUME IInv, NEW c \in Call, FailVerify(c)
  PROVE  IInv'
<1> USE DEF IInv
<1>1. /\ UNCHANGED <<signInVars, billingVars, link>>
      /\ UNCHANGED <<verified, tokens, stored, page, auth, modal, strayed>>
      /\ UNCHANGED <<cache, doubtful, checkoutLoading, isLoadingPortal,
                     showVerificationError>>
      /\ In(c, {"verify"}) /\ Free(c) /\ mine' = mine \ {c}
      /\ state' = IF c \in mine THEN "error" ELSE state
  BY DEF FailVerify, Failed, Take, Free, Under, In, signInVars, billingVars
<1>2. BillingTypeOK' /\ state' \in {"none", "waiting", "success", "error"}
  BY <1>1 DEF Typed, BillingTypeOK
<1>3. Typed' /\ ProtectedShown' /\ Own' /\ Fetched' /\ Others(c) /\ Idle(c)'
  <2>1. In(c, {"checkout", "portal", "forgot", "reset", "resend", "verify"})
    BY <1>1 DEF In
  <2> QED BY <1>1, <1>2, <2>1, EndedStep
<1>4. Waiting'
  <2>1. WaitedFor(c) /\ mine \subseteq Call
    BY <1>1 DEF WaitedFor, In, Typed, SignInTypeOK
  <2> QED BY <1>1, <1>3, <2>1, EndedWait
<1>5. Verifying'
  <2> SUFFICES ASSUME page = "verify"
               PROVE  Verifying'
    BY <1>1 DEF Verifying
  <2>1. /\ \A d \in Call : ~ In(d, {"verify", "refreshUser"})'
        /\ \A d \in Call : ~ Idle(d)' => call'[d].kind \in {"verify", "refreshUser", "resend"}
        /\ c \in mine /\ link \in User /\ ~ modal
    BY <1>1, <1>3, VerifyEnded DEF In
  <2>2. \A d \in Call : ~ In(d, {"verify"})' /\ ~ In(d, {"refreshUser"})'
    BY <2>1 DEF In
  <2> QED BY <1>1, <2>1, <2>2 DEF Verifying, VerifiedSeen
<1> QED BY <1>3, <1>4, <1>5

LEMMA EndRefreshAfterStep ==
  ASSUME IInv, NEW c \in Call, EndRefreshAfterVerify(c)
  PROVE  IInv'
<1> USE DEF IInv
<1>1. /\ UNCHANGED <<verified, tokens, page, modal, cache, doubtful, checkoutLoading,
                     isLoadingPortal, showVerificationError, link>>
      /\ In(c, {"refreshUser"}) /\ ~ Idle(c) /\ Free(c) /\ call[c].arg.by = "verify"
      /\ StoreRefreshed(c) /\ mine' = mine \ {c}
      /\ state' = IF c \in mine THEN "success" ELSE state
  BY DEF EndRefreshAfterVerify, Take, Under, In, Free, billingVars
<1>2. Typing' /\ Others(c) /\ Idle(c)'
  BY <1>1, FreeStep DEF Typed, Typing
<1>3. /\ Own' /\ strayed' \in BOOLEAN /\ stored' \in Copy \cup {NoCopy}
      /\ auth' \in [in : BOOLEAN, user : {"none", "unverified", "verified"}]
      /\ strayed => strayed'
      /\ ~ strayed' => stored' = call[c].value /\ call[c].ok /\ call[c].arg.user = tokens
  BY <1>1, <1>2, Refreshed
<1>4. Typed'
  <2>1. mine' \subseteq {d \in Call : ~ Idle(d)'}
    BY <1>1, <1>2 DEF Typed, SignInTypeOK, Idle, Others
  <2>2. SignInTypeOK'
    BY <1>1, <1>3, <2>1 DEF Typed, SignInTypeOK
  <2>3. \A d \in mine' : ~ In(d, {"billing", "logout"})'
    BY <1>1, <1>2 DEF Typed, SignInTypeOK, In, Idle, Others
  <2>4. BillingTypeOK'
    BY <1>1 DEF Typed, BillingTypeOK
  <2> QED BY <1>1, <1>2, <2>2, <2>3, <2>4 DEF Typed, Typing
<1>5. Fetched'
  <2>1. SameOf({"billing"}) /\ SameOf({"profile"})
    BY <1>1, <1>2, SameOthers DEF In
  <2> QED BY <1>1, <1>3, <2>1, FetchedKept
<1>6. Verifying'
  <2> SUFFICES ASSUME page = "verify"
               PROVE  Verifying'
    BY <1>1 DEF Verifying
  <2>1. /\ \A d \in Call : ~ In(d, {"verify", "refreshUser"})'
        /\ \A d \in Call : ~ Idle(d)' => call'[d].kind \in {"verify", "refreshUser", "resend"}
        /\ c \in mine /\ link \in User /\ ~ modal
    BY <1>1, <1>2, VerifyEnded DEF In
  <2>2. \A d \in Call : ~ In(d, {"verify"})' /\ ~ In(d, {"refreshUser"})'
    BY <2>1 DEF In
  <2>3. ASSUME tokens = link, ~ strayed'
        PROVE  stored' # NoCopy /\ stored'.verified
    <3>1. stored' = call[c].value /\ call[c].ok /\ call[c].arg.user = link
      BY <1>3, <2>3
    <3>2. call[c].value \in Copy
      BY <1>1, <3>1, CallFields DEF Typed, Typing, In, Sound
    <3>3. call[c].value.verified
      BY <1>1, <3>1 DEF Verifying
    <3> QED BY <3>1, <3>2, <3>3, CopyAssumption
  <2> QED BY <1>1, <2>1, <2>2, <2>3 DEF Verifying, VerifiedSeen
<1>7. Waiting'
  <2>1. WaitedFor(c) /\ mine \subseteq Call
    BY <1>1 DEF WaitedFor, In, Typed, SignInTypeOK
  <2> QED BY <1>1, <1>2, <2>1, EndedWait
<1> QED BY <1>1, <1>3, <1>4, <1>5, <1>6, <1>7 DEF ProtectedShown

LEMMA FormStep ==
  ASSUME IInv, NEW c \in Call, NEW kind \in {"forgot", "reset"}, Submit(c, kind)
  PROVE  IInv'
<1> USE DEF IInv
<1>1. /\ UNCHANGED <<signInVars, billingVars, link>>
      /\ UNCHANGED <<verified, tokens, stored, page, auth, modal, strayed>>
      /\ UNCHANGED <<cache, doubtful, checkoutLoading, isLoadingPortal,
                     showVerificationError>>
      /\ page = kind /\ state' = "waiting" /\ mine' = mine \cup {c}
      /\ Start(c, kind, By(NoUser, "page"), MutationRetries, NoCopy)
  BY DEF Submit, signInVars, billingVars
<1>2. /\ Record(kind, By(NoUser, "page"), MutationRetries) \in Sound
      /\ Record(kind, By(NoUser, "page"), MutationRetries).kind = kind
      /\ Record(kind, By(NoUser, "page"), MutationRetries).arg = By(NoUser, "page")
  BY PageRecord, Retries
<1>3. BillingTypeOK' /\ state' \in {"none", "waiting", "success", "error"}
  BY <1>1 DEF Typed, BillingTypeOK
<1>4. /\ Typed' /\ ProtectedShown' /\ Own' /\ Fetched'
      /\ Others(c) /\ Idle(c) /\ ~ Idle(c)' /\ c \notin mine /\ call'[c].kind = kind
  BY <1>1, <1>2, <1>3, BegunStep
<1>5. Verifying'
  BY <1>1 DEF Verifying
<1>6. Waiting'
  <2>1. WaitedFor(c)' /\ c \in mine'
    BY <1>1, <1>4 DEF WaitedFor, In
  <2>2. isLoadingPortal' => \E d \in mine' : ForPortal(d)'
    BY <1>1, <1>4, PortalWaits DEF Typed, SignInTypeOK
  <2>3. checkoutLoading' # NoPrice => \E d \in mine' : ForCheckout(d, checkoutLoading)'
    BY <1>1, <1>4, CheckoutWaits DEF Typed, SignInTypeOK
  <2> QED BY <1>1, <2>1, <2>2, <2>3 DEF Waiting
<1> QED BY <1>4, <1>5, <1>6

LEMMA ResendStep ==
  ASSUME IInv, NEW c \in Call, Resend(c)
  PROVE  IInv'
<1> USE DEF IInv
<1>1. /\ UNCHANGED <<signInVars, billingVars, state, link>>
      /\ UNCHANGED <<verified, tokens, stored, page, auth, modal, strayed>>
      /\ UNCHANGED <<cache, doubtful, checkoutLoading, isLoadingPortal,
                     showVerificationError>>
      /\ mine' = mine \cup {c}
      /\ Start(c, "resend", By(tokens, "page"), MutationRetries, NoCopy)
  BY DEF Resend, signInVars, billingVars, mailVars
<1>2. /\ Record("resend", By(tokens, "page"), MutationRetries) \in Sound
      /\ Record("resend", By(tokens, "page"), MutationRetries).kind = "resend"
      /\ Record("resend", By(tokens, "page"), MutationRetries).arg = By(tokens, "page")
  BY PageRecord, Retries DEF Typed, SignInTypeOK
<1>3. BillingTypeOK' /\ state' \in {"none", "waiting", "success", "error"}
  BY <1>1 DEF Typed, BillingTypeOK
<1>4. /\ Typed' /\ ProtectedShown' /\ Own' /\ Fetched'
      /\ Others(c) /\ Idle(c) /\ ~ Idle(c)' /\ c \notin mine /\ call'[c].kind = "resend"
  BY <1>1, <1>2, <1>3, BegunStep
<1>5. Verifying'
  <2> SUFFICES ASSUME page = "verify"
               PROVE  Verifying'
    BY <1>1 DEF Verifying
  <2>1. \A d \in Call : /\ In(d, {"verify", "refreshUser"})' => d # c
                        /\ d # c => call'[d] = call[d] /\ (Idle(d)' <=> Idle(d))
    BY <1>4 DEF Others, In, Idle
  <2> QED BY <1>1, <1>4, <2>1 DEF Verifying, VerifiedSeen, In
<1>6. Waiting'
  <2>1. SameWaits
    BY <1>1, <1>4, SameWaitsOthers DEF In, WaiterKinds
  <2>2. mine \subseteq Call /\ mine' \subseteq Call
    BY <1>1 DEF Typed, SignInTypeOK
  <2> QED BY <1>1, <2>1, <2>2, WaitingKept
<1> QED BY <1>4, <1>5, <1>6

LEMMA EndFormStep ==
  ASSUME IInv, NEW c \in Call, EndForgot(c) \/ EndReset(c)
  PROVE  IInv'
<1> USE DEF IInv
<1>1. /\ UNCHANGED <<signInVars, billingVars, link>>
      /\ UNCHANGED <<verified, tokens, stored, page, auth, modal, strayed>>
      /\ UNCHANGED <<cache, doubtful, checkoutLoading, isLoadingPortal,
                     showVerificationError>>
      /\ In(c, {"forgot", "reset"}) /\ Free(c) /\ mine' = mine \ {c}
      /\ c \notin mine => state' = state
      /\ c \in mine => state' \in {"success", "error"}
  BY DEF EndForgot, EndReset, Answered, Arrives, Under, In, signInVars, billingVars
<1>2. BillingTypeOK' /\ state' \in {"none", "waiting", "success", "error"}
  BY <1>1 DEF Typed, BillingTypeOK
<1>3. Typed' /\ ProtectedShown' /\ Own' /\ Fetched' /\ Others(c) /\ Idle(c)'
  <2>1. In(c, {"checkout", "portal", "forgot", "reset", "resend", "verify"})
    BY <1>1 DEF In
  <2> QED BY <1>1, <1>2, <2>1, EndedStep
<1>4. Verifying'
  BY <1>1 DEF Verifying, In
<1>5. Waiting'
  <2>1. WaitedFor(c) /\ mine \subseteq Call
    BY <1>1 DEF WaitedFor, In, Typed, SignInTypeOK
  <2> QED BY <1>1, <1>3, <2>1, EndedWait
<1> QED BY <1>3, <1>4, <1>5

LEMMA EndResendStep ==
  ASSUME IInv, NEW c \in Call, EndResend(c)
  PROVE  IInv'
<1> USE DEF IInv
<1>1. /\ UNCHANGED <<signInVars, cache, doubtful, checkoutLoading, isLoadingPortal,
                     state, link>>
      /\ UNCHANGED <<verified, tokens, stored, page, auth, modal, strayed>>
      /\ In(c, {"resend"}) /\ Free(c) /\ mine' = mine \ {c}
  BY DEF EndResend, Answered, Arrives, Under, In, signInVars, mailVars
<1>2. BillingTypeOK' /\ state' \in {"none", "waiting", "success", "error"}
  BY <1>1 DEF EndResend, Typed, BillingTypeOK
<1>3. Typed' /\ ProtectedShown' /\ Own' /\ Fetched' /\ Others(c) /\ Idle(c)'
  <2>1. In(c, {"checkout", "portal", "forgot", "reset", "resend", "verify"})
    BY <1>1 DEF In
  <2> QED BY <1>1, <1>2, <2>1, EndedStep
<1>4. Verifying'
  <2> SUFFICES ASSUME page = "verify"
               PROVE  Verifying'
    BY <1>1 DEF Verifying
  <2>1. ~ In(c, {"verify", "refreshUser"})
    BY <1>1 DEF In
  <2>2. \A d \in Call : ~ Idle(d)' => d # c /\ call'[d] = call[d] /\ ~ Idle(d)
    BY <1>3 DEF Others, Idle
  <2>3. \A d \in mine : d # c => d \in mine'
    BY <1>1
  <2> QED BY <1>1, <2>1, <2>2, <2>3 DEF Verifying, VerifiedSeen, In
<1>5. Waiting'
  <2>1. SameWaits
    BY <1>1, <1>3, SameWaitsOthers DEF In, WaiterKinds
  <2>2. mine \subseteq Call /\ mine' \subseteq Call
    BY <1>1 DEF Typed, SignInTypeOK
  <2> QED BY <1>1, <2>1, <2>2, WaitingKept
<1> QED BY <1>3, <1>4, <1>5

-----------------------------------------------------------------------------
(* The whole tab.                                                          *)

LEMMA Starts == Init => IInv
<1> SUFFICES ASSUME Init
             PROVE  IInv
  OBVIOUS
<1>1. /\ \A c \in Call : Idle(c)
      /\ call \in [Call -> {NoCall} \cup Sound]
  BY DEF Init, NoCalls, Idle
<1>2. /\ verified \in [User -> BOOLEAN] /\ mine = {} /\ page = "landing"
      /\ modal = FALSE /\ strayed = FALSE /\ auth = FromStorage
      /\ state = "none" /\ link = NoUser
      /\ tokens \in User \cup {NoUser} /\ stored \in Copy \cup {NoCopy}
      /\ tokens # NoUser => stored # NoCopy /\ stored.user = tokens
  <2>1. CASE tokens = NoUser /\ stored = NoCopy
    BY <2>1 DEF Init, SignInInit
  <2>2. ASSUME tokens \in User, NEW v \in BOOLEAN,
               stored = [user |-> tokens, verified |-> v]
        PROVE  stored \in Copy /\ stored # NoCopy /\ stored.user = tokens
    BY <2>2, CopyAssumption DEF Copy
  <2> QED BY <2>1, <2>2 DEF Init, SignInInit
<1>3. Typed
  <2>1. FromStorage \in [in : BOOLEAN, user : {"none", "unverified", "verified"}]
    BY DEF FromStorage, Shown
  <2>2. SignInTypeOK
    BY <1>2, <2>1 DEF SignInTypeOK, Page
  <2>3. BillingTypeOK
    BY DEF Init, BillingInit, BillingTypeOK
  <2> QED BY <1>1, <1>2, <2>2, <2>3 DEF Typed
<1>4. Own
  BY <1>1, <1>2 DEF Own, In
<1>5. Fetched
  BY <1>1, <1>2 DEF Fetched, In
<1>6. Waiting
  BY <1>2 DEF Init, BillingInit, Waiting
<1> QED BY <1>2, <1>3, <1>4, <1>5, <1>6 DEF IInv, ProtectedShown, Protected, Verifying

LEMMA SignInKeeps ==
  ASSUME IInv, SignInStep, Aside, MailAside
  PROVE  IInv'
<1>1. ASSUME NEW p \in Page, Visit(p) PROVE IInv'
  BY <1>1, VisitStep
<1>2. ASSUME NEW u \in User, VerifiedElsewhere(u) PROVE IInv'
  BY <1>2, ElsewhereStep
<1>3. CASE OpenAuth \/ CloseAuth
  BY <1>3, ModalStep
<1>4. CASE SessionLost
  BY <1>4, LostStep
<1>5. ASSUME NEW c \in Call, NEW u \in User, NEW kind \in {"signIn", "google"},
             SubmitOnPage(c, u, kind) \/ SubmitInModal(c, u, kind)
      PROVE  IInv'
  BY <1>5, SubmitStep
<1>6. ASSUME NEW c \in Call,
             EndTokens(c) \/ ServeProfile(c) \/ EndProfile(c) \/ FailSignIn(c)
      PROVE  IInv'
  BY <1>6, TokensStep, ServedStep, ProfileStep, FailSignInStep
<1>7. ASSUME NEW c \in Call, Logout(c) \/ EndLogout(c)
      PROVE  IInv'
  BY <1>7, LogoutStep, EndLogoutStep
<1> QED BY <1>1, <1>2, <1>3, <1>4, <1>5, <1>6, <1>7 DEF SignInStep

LEMMA BillingKeeps ==
  ASSUME IInv, BillingStep, MailAside
  PROVE  IInv'
<1>1. CASE SignInStep /\ Aside
  BY <1>1, SignInKeeps
<1>2. ASSUME NEW c \in Call, VisitBilling(c) \/ Focus(c) \/ EndBilling(c)
      PROVE  IInv'
  BY <1>2, VisitBillingStep, FocusStep, EndBillingStep
<1>3. ASSUME NEW c \in Call,
             NEW kind \in {"billing", "checkout", "portal", "resend", "forgot", "reset"},
             Retry(c, kind)
      PROVE  IInv'
  BY <1>3, RetriedStep
<1>4. ASSUME NEW c \in Call, NEW p \in Price, Subscribe(c, p)
      PROVE  IInv'
  BY <1>4, SubscribeStep
<1>5. ASSUME NEW c \in Call, ManageSubscription(c) \/ GoToStripe(c) \/ FailCheckout(c)
      PROVE  IInv'
  BY <1>5, ManageStep, StripeStep, FailCheckoutStep
<1>6. ASSUME NEW c \in Call,
             \/ FailPortal(c) \/ ForbiddenPortal(c) \/ EndRefreshUser(c)
             \/ Unserved(c) /\ UNCHANGED billingVars
      PROVE  IInv'
  BY <1>6, FailPortalStep, ForbiddenStep, EndRefreshStep, UnservedStep
<1>7. CASE CloseVerificationError
  BY <1>7, ClosedStep
<1>8. ASSUME NEW success \in BOOLEAN, Return(success)
      PROVE  IInv'
  BY <1>8, ReturnStep
<1> QED BY <1>1, <1>2, <1>3, <1>4, <1>5, <1>6, <1>7, <1>8 DEF BillingStep

LEMMA Stutters ==
  ASSUME IInv, UNCHANGED vars
  PROVE  IInv'
<1> USE DEF IInv
<1>1. /\ UNCHANGED <<call, verified, tokens, stored, page, auth, modal, strayed, mine>>
      /\ UNCHANGED <<cache, doubtful, checkoutLoading, isLoadingPortal,
                     showVerificationError, state, link>>
  BY DEF vars, signInVars, billingVars, mailVars
<1>2. Typed'
  <2>1. SignInTypeOK'
    BY <1>1 DEF Typed, SignInTypeOK, Idle
  <2>2. BillingTypeOK'
    BY <1>1 DEF Typed, BillingTypeOK
  <2>3. \A c \in mine' : ~ In(c, {"billing", "logout"})'
    BY <1>1 DEF Typed, In, Idle
  <2> QED BY <1>1, <2>1, <2>2, <2>3 DEF Typed
<1>3. Own' /\ Fetched'
  BY <1>1, SameUnchanged, OwnKept, FetchedKept
<1>4. Verifying'
  BY <1>1 DEF Verifying, VerifiedSeen, In, Idle
<1>5. Waiting'
  BY <1>1, SameWaitsUnchanged, WaitingKept DEF Typed, SignInTypeOK
<1> QED BY <1>1, <1>2, <1>3, <1>4, <1>5 DEF ProtectedShown

LEMMA Keeps == IInv /\ [Next]_vars => IInv'
<1> SUFFICES ASSUME IInv, [Next]_vars
             PROVE  IInv'
  OBVIOUS
<1>1. CASE BillingStep /\ MailAside
  BY <1>1, BillingKeeps
<1>2. ASSUME NEW u \in User, OpenVerifyLink(u) PROVE IInv'
  BY <1>2, VerifyLinkStep
<1>3. CASE OpenResetLink
  BY <1>3, ResetLinkStep
<1>4. ASSUME NEW c \in Call, ServeVerify(c) \/ EndVerify(c) \/ FailVerify(c)
      PROVE  IInv'
  BY <1>4, ServeVerifyStep, EndVerifyStep, FailVerifyStep
<1>5. ASSUME NEW c \in Call, EndRefreshAfterVerify(c) PROVE IInv'
  BY <1>5, EndRefreshAfterStep
<1>6. ASSUME NEW c \in Call, NEW kind \in {"forgot", "reset"}, Submit(c, kind)
      PROVE  IInv'
  BY <1>6, FormStep
<1>7. ASSUME NEW c \in Call, Resend(c) \/ EndForgot(c) \/ EndReset(c) \/ EndResend(c)
      PROVE  IInv'
  BY <1>7, ResendStep, EndFormStep, EndResendStep
<1>8. CASE UNCHANGED vars
  BY <1>8, Stutters
<1> QED BY <1>1, <1>2, <1>3, <1>4, <1>5, <1>6, <1>7, <1>8 DEF Next

LEMMA Invariant == Spec => []IInv
  BY Starts, Keeps, PTL DEF Spec

\* The variables of the tab, and every request under way, have their types.
THEOREM TabTypeCorrect == Spec => []TypeOK
<1>1. IInv => TypeOK
  <2>1. Sound \subseteq TabCall
    BY DEF Sound
  <2> QED BY <2>1 DEF IInv, Typed, TypeOK
<1> QED BY <1>1, Invariant, PTL

\* ProtectedRoute and the tokens: the dashboard and the billing page are not
\* shown once the tokens are gone, however they went.
THEOREM TabProtectedShown == Spec => []ProtectedShown
<1>1. IInv => ProtectedShown
  BY DEF IInv
<1> QED BY <1>1, Invariant, PTL

\* The tokens and the copy of the user in localStorage are of one user, whatever
\* sign-ins, sign-outs and documents were begun and left.
THEOREM TabOwnProfile == Spec => []OwnProfile
<1>1. IInv => OwnProfile
  <2>1. NoneOf(SigningIn) => NoneOf({"profile"})
    BY DEF NoneOf, SigningIn
  <2> QED BY <2>1 DEF IInv, Own, OwnProfile
<1> QED BY <1>1, Invariant, PTL

\* The billing page at rest shows the billing of who is signed in, with a cache
\* that nobody clears between two users.
THEOREM TabBillingOwn == Spec => []BillingOwn
<1>1. IInv => BillingOwn
  <2>1. NoneOf(SigningIn) => NoneOf({"profile"})
    BY DEF NoneOf, SigningIn
  <2> QED BY <2>1 DEF IInv, Fetched, BillingOwn
<1> QED BY <1>1, Invariant, PTL

\* VerifyEmailPage shows its success to a user whose copy says verified.
THEOREM TabVerifiedSeen == Spec => []VerifiedSeen
<1>1. IInv => VerifiedSeen
  BY DEF IInv, Verifying, VerifiedSeen
<1> QED BY <1>1, Invariant, PTL

\* Every spinner and disabled button of these pages has a request of its own that
\* ends it, for any number of requests under way and of retries.
THEOREM TabNobodyWaits == Spec => []NobodyWaits
<1>1. IInv => NobodyWaits
  BY DEF IInv, Waiting, NobodyWaits, WaitedFor, ForPortal, ForCheckout, In
<1> QED BY <1>1, Invariant, PTL

=============================================================================
