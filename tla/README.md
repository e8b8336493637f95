# Verification of the subscription back-end and its client

The repository is a web application template: an Express and tRPC back-end over
PostgreSQL with Stripe billing (`back-end/`), a React client (`front-end/`) and
a shared price list (`shared/`). This directory holds TLA+ models of it, the TLC
runs that check them and TLAPS proofs about them.

## 1. The system

| Part | Source | State | Operations |
|---|---|---|---|
| Stripe webhook | `back-end/src/controllers/billing.controller.ts`, `services/billing.service.ts` | `billings`, `users.current_product_id` | `invoice.paid`, `invoice.payment_failed`, `customer.subscription.updated`, `.deleted` |
| Expiry at sign-in | `services/auth.service.ts:68-81` | the same | read the billing, downgrade |
| Sessions | `services/auth.service.ts`, `utils/jwt.ts`, `trpc/middlewares/auth.middleware.ts` | `users.refresh_token`, `users.password_hash` | login, refresh, logout, reset |
| E-mail change and verification | `services/email.service.ts`, `auth.service.ts:229-284` | `users.email`, `email_verified`, `email_verification_token` | request, verify, resend |
| Google sign-in | `auth.service.ts:83-125` | `users.google_id` | find, link or create |
| Checkout, portal | `trpc/routers/billing.router.ts` | none (Stripe's) | create a session |
| Database layer | `database/` | connection pool, tables, indexes | queries, transactions, migrations, seed |
| Client session | `front-end/src/lib/auth.ts`, `lib/trpc.ts`, `utils/auth.ts`, `hooks/useAuth.ts` | `localStorage`, in-flight refresh promises | refresh, retry, logout |
| Routes and sign-in pages | `front-end/src/App.tsx`, `components/routes/`, `components/auth/`, `components/layout/Header.tsx`, `pages/LoginPage.tsx`, `pages/SignupPage.tsx` | the page shown, each `useAuth`, the modal, the stored copy of the user | visit, sign in and up, Google, log out |
| Profile page | `pages/ProfilePage.tsx`, `components/profile/ChangeEmailDialog.tsx`, `hooks/useUser.ts`, `useFormValidation.ts`, `useResendTimer.ts` | profile, form, dialog, countdown, timeouts | load, edit, save, change the e-mail, send a link or a code again |
| Billing page | `pages/BillingPage.tsx`, `components/billing/` | React Query's cache, the states of its buttons | fetch, subscribe, portal, return from Stripe |
| Mail pages | `pages/VerifyEmailPage.tsx`, `ForgotPasswordPage.tsx`, `ResetPasswordPage.tsx`, `DashboardPage.tsx` | what the page shows | open a link, submit, send a link again |
| Requests of the pages | `providers/trpc-provider.tsx` | pending mutations and queries | send, try again |

One Node process serves every request, and a request gives way to the others at
each `await`. The parts meet in two tables: the webhook and the sign-ins both
write `users.current_product_id`; an e-mail change alters the key under which
the webhook finds a customer; a webhook handler that throws is an unhandled
rejection (Express 4, no `unhandledRejection` listener), so it ends the process
and every other request with it, and PM2 (`deploy/ecosystem.config.cjs`) starts
it again.

What makes the parts correct:

- *Webhook.* The tables say what Stripe says once everything is delivered; a paid
  product always rests on a live billing; an old subscription's late events do
  nothing; a payment acknowledged is a payment recorded; every event is handled
  some day. Hard because events come late, twice, out of order and at the same
  time, and because the process can die between any two awaits.
- *Sessions.* A stored refresh token is the one most recently issued; a client
  that follows the protocol is not signed out by its own requests.
- *Accounts.* A verified address was confirmed by its owner; the address changes only to
  the requested, still free one; the attempts and the life of a code are bounded.
- *Client session.* One refresh at a time; tokens of another tab are not lost.
- *Pages.* What a page shows is true of who is signed in, although requests answer after the page,
  the dialog or the session they were sent from is gone; no button waits for ever; what is
  protected is not shown to nobody. Hard because a closed dialog or page does not take back its
  requests and timeouts, because mutations are sent twice, and because `localStorage`, the query
  cache and each component's copy of the user are three places for one fact.

`PROJECT.json` lists every hazard at its line with the properties that cover it.

## 2. Modules

| Module | Models |
|---|---|
| `Billing` | The two tables, webhook requests from one await to the next, the expiry check of sign-ins, e-mail changes, crashes. Open: any event of a set arrives at any time. |
| `Entitlement` | What billing promises: indivisible Pay, Fail, Update, Delete, Downgrade of a user's one plan. |
| `StripeBilling` | `Billing` closed with Stripe: subscriptions, the events they create, retries until a 200. |
| `BillingTransactions` | The transactions of `Billing` taken apart: statements, row locks, pooled connections. Implements `Billing`. |
| `Session` | The server's half of a session: the refresh-token column and the requests that read and overwrite it, from one await to the next. |
| `ClientAuth` | `Session` closed with one browser: tabs, the stored tokens, the two pieces of code that refresh, the retry after a 401. |
| `Accounts` | Whose an account is: sign-up, Google sign-in, verification link, e-mail change and profile update, over the columns `email`, `google_id`, `email_verified`, `email_verification_token`. |
| `ReactQuery` | The requests of a page: sent, carried out, answered or lost, tried again by React Query. |
| `ChangeEmailDialog` | The dialog that changes the e-mail, its resend timer and the two procedures behind it; extends `ReactQuery`. |
| `ProfilePage` | The profile page around that dialog: loading, the form, the verification link, over one user's row. |
| `SignInPages` | One tab: routes, sign-in forms, modal, Google's button, logout, and the copy of the user in `localStorage`; extends `ReactQuery`. |
| `BillingPage` | `SignInPages` with the billing page: the query and its cache, checkout, portal, the return from Stripe. |
| `MailPages` | `BillingPage` with the pages of verification link, forgotten and reset password: the whole tab. |
| `BillingProofs`, `SerialBillingProofs`, `StripeBillingProofs`, `BillingTransactionsProofs`, `ClientAuthProofs`, `AccountsProofs`, `ProfilePageProofs`, `MailPagesProofs` | TLAPS proofs. |
| `MCBilling`, `MCBillingTransactions`, `MCStripeBilling`, `MCClientAuth`, `MCAccounts`, `MCProfilePage`, `MCMailPages` | Finite sets of events, request slots and symmetry for TLC. |

### How `Billing` corresponds to the code

`job[h]` is a webhook request: its program counter names the await it is
about to pass, and `user`, `row`, `product` are the local variables that hold
what it read.

| Action | Code |
|---|---|
| `Deliver`, `Route` | the switch of `processBillingWebhookHandler` up to the first await |
| `RejectInvoice` | `throw` for an invoice without a subscription |
| `FindUser`, `UnknownUser` | `getUserByEmail` in `registerUserBilling` |
| `FindBilling`, `FindNoBilling` | the SELECT of the billing, by user or by subscription |
| `CreateBilling`, `RenewBilling` | the two branches of `registerUserBilling`'s transaction |
| `MarkPastDue`, `UpdateSubscription`, `DeleteSubscription` | the other service functions' writes |
| `Reply` | the 200 |
| `HasExpiredSubscription`, `DowngradeToFreeTier` | the two steps of a sign-in |
| `Restart` (in `Crash`, `RejectInvoice`, `UnknownUser`) | the process dies and is started again |

A `db.transaction` is one action of `Billing`. It locks the billing's row first,
the owner's row second and keeps both, reads only the products table, and rolls
back when it fails, so at READ COMMITTED its effect is that of one step at
COMMIT. `BillingTransactions` is where this is shown instead of said.

### `BillingTransactions`

The same requests, statement by statement: `tx[h]` is how far the transaction of
webhook `h` got (`begun`, `wroteBilling`, `readFreeTier`, `wroteUser`) and the
billing as it wrote it; `hold` is the set of sign-ins whose UPDATE has a connection
and may be waiting for the user's row. `Begin` takes a connection and `Commit` gives it back;
`WriteBilling` and `WriteUser` wait for their row (`BillingFree`, `UserFree`);
`ReadFreeTier` needs a second connection, for `getFreeTierProduct` is not given
the transaction. Billing's variables hold what is committed, so the refinement mapping is
the identity and only `Commit` and `UpdateAlone` change them for a webhook.
A query that waits for no lock is one step: it takes a connection and gives it back.

Abstracted: the customer id, wording, the price id (an event carries the product
it is found under, or none), `cancel_at` (an event carries the resulting end).
A SELECT that several rows match returns any of them, for it has no ORDER BY.

### `Session` and `ClientAuth`

`req[r]` is an HTTP request with the locals of its handler (`token` as presented, `user` as
found, `issued` as signed) and its answer. `Owner` is the SELECT that finds the
user, `Issue` is `generateTokens`, `Store` the UPDATE of the column, `Revoke` the UPDATE of logout
and reset, which leaves the column alone because knex drops `undefined`. A pair
of tokens is a function of the user and the second it is signed in, as in `utils/jwt.ts`, so
a pair is one value and two sign-ins in a second give the same one. Answers are `ok`,
`unauthorized` (401, which only `authMiddleware` gives) and `failed`: tRPC answers a
`CustomError` with 500 whatever status it carries, so a refused refresh is
`failed`. The expiry check between `FindUser` and `Issue` is `Billing`'s.

`call[c]` is a request of the tRPC client with what its page does with the answer. It has
two slots of `Req`: its own, used again for the retry, and the refresh the
wrapper makes for it. `isRefreshing` is the flag of `lib/trpc.ts`, `refreshPromise`
that of `AuthService`; `store` is `localStorage`, where both tokens always change together.
JavaScript runs to completion between awaits, so each answer and all it causes is one
action.

| Action | Code |
|---|---|
| `Query`, `SignIn`, `ResetPassword`, `Logout` | what pages start |
| `ProtectedRefresh` | the effect of `ProtectedRoute` and `AuthService.refreshTokens` |
| `Mount` | `initializeAuth` in `useAuth` |
| `StartRefresh`, `Retry`, `GiveUp` | the `fetch` of `lib/trpc.ts` with its `refreshAccessToken` |
| `EndSignIn`, `EndProfile`, `EndRefresh`, `FailRefresh`, `EndLogout`, `EndQuietly` | the continuations in `lib/auth.ts` and `hooks/useAuth.ts` |

### `Accounts`

`account[u]` is a row of `users` (one without an address is yet to be inserted), `req[r]` a request with
the locals of its service function, `late[r]` the UPDATE of `verifyEmailChangeCode`, which
`verifyEmailChange` calls without `await`: it may come before, between or after
the request's own steps, and when it is done the `throw` behind it is an unhandled
rejection (`LateRejection`). `mails` are the mails that arrived; whoever
opens a link or types the right code has read one, and `confirmed` remembers for which address.

| Action | Code |
|---|---|
| `SignUp`, `Resend`, `StoreToken`, `SendMail`, `MailFails` | `registerUser`, `resendVerificationEmail`; the last three also end `requestEmailChange` |
| `OpenLink`, `MarkVerified` | `verifyUserEmail` before and after its SELECT's await |
| `GoogleSignIn`, `FindByEmail`, `LinkGoogle`, `CreateFromGoogle`, `GoogleConflict` | `authenticateWithGoogle` up to the tokens |
| `RequestChange`, `DrawCode`, `Taken` | `requestEmailChange` up to the token |
| `RightCode`, `WrongCode` | `verifyEmailChange` up to its first await after the code |
| `StillFree`, `ApplyChange`, `ChangeConflict` | the availability check and the UPDATE, or the unique index |
| `LateWrite`, `LateRejection` | the rest of `verifyEmailChangeCode` |
| `UpdateProfile` | `updateUserProfile` with an e-mail |

`checkTokenCooldown` is no guard: its error is thrown inside the `try` whose `catch` is empty, as
`email.service.test.ts` also notes. Refusals that change nothing are not steps. A code is
the number of its draw, so two draws never coincide; Google's claim to an
address is taken as its confirmation, as the code does.

### The pages

`call[c]` is a request under way in one of the page's slots: its kind, what it was sent with, the attempts
`left`, and its `stage`. `Respond` lets the server's part happen and then delivers or
loses the answer; `Fail` is an attempt that was refused or lost, which uses an
attempt or becomes the final answer; `Take` is the promise settling. So a mutation that is
carried out, loses its answer and is refused when React Query sends it again ends as a
failure, as in the browser.

| Action | Code |
|---|---|
| `RequestEmailChange`, `VerifyCode`, `ResendCode` | the handlers of `ChangeEmailDialog.tsx` up to their await |
| `EndRequest`, `EndResend`, `EndVerify`, `EndInError` | the handlers after it |
| `Close`, `CloseAfterSuccess`, `EmailChanged` | `handleClose` by the user; by the timeout, with the page's `onSuccess` |
| `Tick` | the interval of `useResendTimer` |
| `StartLoad`, `EndLoad`, `FailLoad`, `Submit`, `EndSave`, `FailSave` | `loadProfile` and `onSubmit` before and after their awaits |
| `ServeRequest`, `ServeVerify`, `ServeLink`, `ServeLoad`, `ServeSave` | the procedures, one step each; `Accounts` takes them apart |
| `SubmitOnPage`, `SubmitInModal`, `EndTokens`, `EndProfile`, `FailSignIn` | a sign-in: the forms and Google's button, `setTokens`, `setUser` and `navigate` |
| `Visit`, `Routed`, `GoTo` | links and the redirects of `PublicRoute` and `ProtectedRoute` |
| `Clear`, `SessionLost`, `Logout`, `EndLogout` | `clearAuthData`, from a refused refresh and from the header's button |
| `VisitBilling`, `Focus`, `Retry`, `EndBilling` | `getUserBilling.useQuery` and its cache |
| `Subscribe`, `ManageSubscription`, `GoToStripe`, `FailCheckout`, `FailPortal`, `ForbiddenPortal`, `EndRefreshUser` | `handleSubscribe` and `handleManageSubscription`, and what the 403 leads to |
| `Return` | Stripe's redirect to `/billing`, with the effect of `success=true` |
| `OpenVerifyLink`, `ServeVerify`, `EndVerify`, `EndRefreshAfterVerify`, `FailVerify` | the effect of `VerifyEmailPage.tsx` |
| `Submit`, `EndForgot`, `EndReset`, `Resend`, `EndResend` | the forms of the two password pages, the link sent again |

Three variables are not the program's. `dismissed` and `unseen` (profile page), `strayed` and
`doubtful` (the tab) remember that something happened after which a page may rightly not know: the
dialog was closed over a request or a timeout; a call failed that the server may have carried out, or a load
was overtaken; a profile was not read, or read while the tokens changed; a fetch failed or was
sent for somebody else. Each is set as seldom as the code allows and cleared by the next clean
beginning; the properties say what holds without them.

Abstracted: a profile is an address, `verified` and one name for the other fields; a code is typed or
not; the timer's 60 seconds are `InitialSeconds`; a redirect after three seconds is a `Visit`, which
may come at any time; sign-up is a sign-in that may fail after the account exists; a page for the signed-out and its twin
(`/login` and `/signup`, `/` and `/pricing`) are one page.

## 3. Runs

| Run | Instance | Shows |
|---|---|---|
| `billing_apart` | 2 users with an address each, 2 webhooks that are apart (`ApartSpec`), 1 sign-in, every kind of event | `TypeOK`, `ProductMatchesBilling`, `OldSubscriptionInert`, `ImplementsEntitlement` |
| `billing_unknown_price` | 1 user | violation of `UnknownPriceRejected`: see Findings |
| `billing_transactions` | 1 user, 2 webhooks, 1 sign-in, 3 connections, 3 row ids | `TxTypeOK`, `Backed`, `RowsBounded`, `ImplementsBilling`, `NobodyStuck` |
| `stripe_in_order` | 2 subscriptions in turn, 5 events, 2 ticks | `StripeTypeOK`, `NoPaymentLost`, `TablesAgree` |
| `stripe_retries` | 1 subscription, 2 events in any order, 2 webhooks, 1 sign-in, fairness | `NoPaymentLost`, `EveryEventHandled` |
| `client_page` | 1 user, 1 tab, 2 calls, 2 seconds, access token of 1, refresh token of 3, all faults, fairness | `ClientTypeOK`, `PromiseAlive`, `Settles` |
| `client_queries` | 1 tab, 3 calls, 4 seconds, nothing fails | `SessionKept`, `SignedOutByAge` |
| `session_revoked` | 1 tab, 2 calls, nothing fails | violation of `Revoked`: see Findings |
| `accounts` | 2 accounts, 2 addresses, 1 identity, 2 requests, 1 code of 2 attempts, 2 mails, 1 tick | `AccountsTypeOK`, `CodeBounded`, `ConfirmedAddresses` |
| `accounts_code` | the same | violation of `WrongCodeRefused`: see Findings |
| `profile_page` | 1 row, 2 addresses, 2 names, 2 requests, 1 retry, 1 timeout, a countdown of 1 | `ProfileTypeOK`, `SuccessIsTrue`, `AtRestFresh`, `NeverStuck` |
| `browser_pages` | 1 tab, 2 users, 2 plans, 2 requests, 1 retry of queries | `TypeOK`, `OwnProfile`, `ProtectedShown`, `BillingOwn`, `VerifiedSeen`, `NobodyWaits` |

*Bounds.* `MaxTime` bounds the clock, `MaxEvents` the events Stripe creates,
`RowId` the ids of rows. Two webhooks are enough for every pairwise race: a
handler holds what it read of one billing and its race is with whoever
changes that billing. `RowId` has one id more than `Handler` where rows are counted,
so the bound is the code's and not the model's. Two subscriptions show a
replaced one, three products of which two are paid show a plan change, an expiry of 0, 1 or
2 against a clock up to 2 shows before, at and after. Five events in order
are the longest story told: checkout, plan change, period end, payment, second
checkout. Symmetry of users, rows and handlers is used only in runs of safety properties.

`billing_transactions` has one subscription's payment, plan change, failed payment and end, which
between them take every path through a transaction except a downgrade by an
`unpaid` update, whose statements are those of the end; two webhooks and a pool of three are the smallest instance
in which both transactions can ask for a second connection while a sign-in has one. `EmailsEarly` in
`MCBillingTransactions` lets the customer change the e-mail only while there is no billing and no transaction, between
the moments at which a payment finds its user and writes too. In `billing_apart` both addresses are taken, so nobody's changes. The theorems let it change at any time.

In `client_page` an access token of one second and a clock of two reach the times at which
both sides take the token, only the client does, and neither does; two calls are a refresh of
each kind, or a refresh and whatever it races with. `MCClientAuth` has two bounds of its own: the database makes a 401 of a
good token only in the first second (`DatabaseEarly`; an expired token is refused and an answer lost at any time), and a
password reset, which changes nothing that others read, runs alone (`ResetAlone`). Neither keeps a request from ending, so
the fairness is unaffected, and `ClientAuthProofs` proves the two invariants without them. `client_queries` has the longer clock,
over which a session is refreshed twice or more and can also be too old; its third call is the
one whose 401 comes after the others' refresh. Only there does `ClientSpec` give way to
`OpenPageSpec`, whose one page asks and does nothing else: with everything allowed, the
properties are false (below).

In `accounts` a second account makes every refusal by an index happen, the tick expires a link and
shortens a code, and two mails are a link and a code for one account or one each for two.
`MaxCodes` and `MaxMails` bound what has been drawn and sent; the theorems hold for any.

In `profile_page` two requests are what can overlap in pairs: a load with a save, a verification of an
earlier opening of the dialog with a request of the next, a resend with the link that takes its token. Mutations have their retry, so an
attempt that was carried out and lost is followed by one that is refused. `MaxTimeouts` of one lets a success of an earlier opening
close a later one; the theorems hold for any. `MCProfilePage` starts from one address and one name, which the others may
replace, and with nothing pending; a pending change of an earlier visit is reached by closing the dialog.

`browser_pages` has mutations without a retry, because there an answer or a failure comes at any
time anyway and a retry only delays it; the query keeps one, since it reads the token again. Two
requests are two sign-ins at once, or a sign-in, a verification or a portal session beside a fetch,
a logout or the refresh of the user; two users are the one before and the one after. `MCMailPages` has
one bound of its own, `ModalOwn`: the modal is not used while the copy is `strayed`, where `OwnProfile`, `BillingOwn` and
`VerifiedSeen` say nothing anyway. It leaves out three states in four; `MailPagesProofs` proves the six properties without it.

*Fairness* (`stripe_retries`). Stripe sends an unacknowledged event again for
days, PM2 restarts the process, and a query that is sent is answered in the end;
a crash can come at any time but not for ever just before the same step.
`Fairness` is therefore strong fairness of sending each event and of each await of
a handler. Nothing is assumed of sign-ins, of the customers or of crashes.

*Fairness* (`client_page`). Weak fairness of each request's handler and of the
browser's taking each answer: neither is ever disabled by others. Pages need not ask and
faults need not happen or stop happening.

### Limits found, with webhooks overlapping

`ProductMatchesBilling`, `OldSubscriptionInert` and `ImplementsEntitlement` hold as long as no two
webhooks of one customer stand between the read of the billing and its write (`Apart`); webhooks of
different customers may overlap in any way. Without that condition (`Spec`, `Handler = {h1, h2}`) TLC
refutes all three on one customer: a plan change that read
the billing before a concurrent payment compares with the old product and does
not write the user's, and a late event that found the row by its old subscription
writes it by id after a payment has replaced the subscription. The code does not
prevent either; no document of the repository claims it does.

`NobodyStuck` needs more connections than webhooks that overlap. With a pool of two
TLC finds one webhook that has updated the billing and asks for a second
connection while the other, for the same billing, holds the last one and waits for the row. The library's
acquire timeout then rejects the first, which ends the process.

`TablesAgree` is stated without sign-ins: a sign-in after expiry downgrades the
user, the billing keeps its product, and a renewal that comes only as
`subscription.updated` does not restore it, for the product did not change. Both it and
`NoPaymentLost` need customers who keep their e-mail: the invoice has the address of the checkout, so after a
change it finds nobody, or whoever has taken the address.

### Limits found in the client

`SessionKept` holds for the queries of one page, and `SignedOutByAge` as long as nothing fails. When `ProtectedRoute` may
refresh as well TLC refutes it: both refreshes find the user by the same token, and the one whose
UPDATE came first may be the one whose answer comes last, so the browser keeps a token
that the server has replaced and is signed out at its next refresh. Two tabs with
a query each do the same, and violate `SignedOutByAge` as well. A refresh whose answer is lost clears the browser's tokens, although the
server has stored new ones. A logout that finds the access token expired clears the tokens without
asking the server, and a refresh still under way stores its own again.

`lib/trpc.ts:67` says "Automatically retry with fresh token on 401". A 401 that arrives while the tab
refreshes is handed to its caller at once: `Intercepted` does not hold then, and the branch of
`refreshAccessToken` that would join the refresh is never reached.

The flags of `lib/trpc.ts` and `lib/auth.ts` each prevent only their own simultaneous refreshes,
whatever the comments at `lib/trpc.ts:11` and `lib/auth.ts:74` hope for: on mount with an expired access token,
`ProtectedRoute` and a query of its page refresh at the same time.

### Limits found in the accounts

`ConfirmedAddresses` excuses accounts for which a wrong code was typed, because the change is made all the
same, and accounts whose address came with a profile update, which leaves `email_verified`. A
Google sign-in that found an account by its address links the identity even if the
account has moved to another address in between, which was to unlink it. A wrong code's
UPDATE may come after the change it failed to stop and put the used token back;
two of them side by side count as one attempt, and the later one may restore a later
expiry, but never past the 15 minutes (`CodeBounded`). `verifyEmailChangeCode` says it preserves the
expiry; in fact each wrong code brings it forward by the token's age, for
`jwt.sign` adds the remaining seconds to the old `iat`.

### Limits found in the pages

The exceptions in the properties are not idle; without them TLC refutes each.

- *Profile page.* Escape closes the dialog while a request runs. Its success then shows on the
  dialog opened next, with whatever address that has by then, and its timeout closes that
  one (`dismissed`). A verification that was carried out and whose answer was lost is
  refused when it is sent again, and the dialog shows "No pending email change" for a change that
  happened; the page keeps the old address until it is loaded again (`unseen`).
- *Sign-in.* Tokens and copy are stored a request apart. If the profile cannot be read in between
  the tokens stay, the form shows an error and the dashboard, which has no user, says "Loading..."
  until another sign-in (`strayed`). The same comes of a document that is left in between, and of a
  sign-up whose first sign-in fails: the form shows an error although the account exists. A
  `refreshUser` that ends after a logout stores the copy of nobody's tokens.
- *Billing page.* The query cache is not cleared at a logout, and a page that is mounted while a fetch
  is under way joins it, with the token it was sent with: the next user may see the last one's
  plan until the window gets the focus (`doubtful`). A fetch that fails shows the free tier with its
  Subscribe buttons, as does a billing that is `past_due`: a customer who has a subscription can
  start a second one. `checkoutLoading` disables the one plan that is being bought. An answer of
  checkout or portal takes the browser to Stripe from whatever page is shown by then.
- *Mail pages.* `already-verified` cannot be reached, for `verifyUserEmail` returns quietly for a
  verified account. An address verified in another browser is seen here only at the next sign-in or
  `refreshUser`. A reset while signed in ends on the dashboard, for `/login` redirects there.

## 4. Findings

- `billing_unknown_price`: `invoice.paid` with a price the products table does
  not have is logged and answered with 200 (`billing.controller.ts:45-48`), while
  `billing.controller.test.ts:95` expects the handler to throw.
- `session_revoked`: `docs/api/auth.md:113` and a comment at `auth.service.ts:319` say that
  logout and password reset revoke the refresh token; both UPDATEs leave it stored.
- `accounts_code`: `email.service.ts:160` says "Code is valid" where the code need not be: the
  comparison two lines above is not awaited, so a wrong code changes the address and then ends
  the process with an unhandled rejection. The test of `verifyEmailChange` avoids the wrong code
  for this reason.

## 5. Proofs

`BillingProofs` proves, for every set of users, events, handlers (finite) and
sign-ins and every clock bound:

- `TypeCorrect`: `TypeOK` and `JobsOK`. `JobsOK` is what a request in flight knows:
  a handler about to write holds the id of an existing row whose owner is the
  user it will write. It is inductive because rows are never deleted and never
  change hands (`RowsKept`), so what a handler read cannot be undone by the
  others.
- `PaidIsBacked`: `Backed`. Inductive on top of `TypeCorrect`: the writes that end a
  billing downgrade its owner in the same step, and `JobsOK` says it is the owner.
- `BillingsBounded`: `RowsBounded`. Counting rows is not inductive; the invariant
  is `AllRowsClaimed`: a user's rows and the handlers that are about to insert one
  for that user are together at most the handlers, because a handler only
  decides to insert when the user has no row.

`SerialBillingProofs` proves what holds as long as the webhooks of one customer do not overlap. Its theorems
are about `ApartSpec`, which is `Billing` without the steps that break `Apart`; lemma `SpecApart` shows that it has the
behaviours of `Spec` in which `Apart` always holds. Webhooks of different customers, users, events, sign-ins, e-mail
changes and crashes are as many as they like:

- `ApartProductMatches` and `ApartOldInert`: `ProductMatchesBilling` and `OldSubscriptionInert`.
  Both rest on `AllFresh`: the product and the subscription a handler read are still those of its row when it
  writes, and a user for whom it found no row still has none. Only webhooks write the billings table,
  and another webhook about to write is another customer's: it writes a row of that customer or inserts one, so
  what this one read stays (`OthersFresh`). Without `Apart`, TLC refutes `AllFresh` and both properties.
- `ApartImplements`: `ImplementsEntitlement`. The user's plan is well defined because nobody has two rows
  (`OneRow`, from `AllFresh` at the insert); each write is then the step of `Entitlement` for its event, and a
  sign-in's downgrade is one because its user has a billing and keeps it (`SweepsOwned`). Everything else stutters.
  It needs that the value for "no plan" is no plan (`NoPlanAssumption`).
- `SerialProductMatches`, `SerialOldInert` and `SerialImplements` are the corollaries for webhooks handled one at a
  time (`OneHandler`), where `Apart` is true of every state and `Spec` itself has the properties.

`StripeBillingProofs` is about `Billing` closed with Stripe, for any number of subscriptions, events and
retries and any clock and period. What Stripe's six actions do is said once: they create an event (`Creates`), which
shows its subscription as it has become (`Shows`) and of whose fields those that the handler does not read are as they
were before (`Linked`).

- `StripeTypeCorrect`: `StripeTypeOK`. That the event is one the handler knows needs a bound of the period ends,
  which each period moves: a period ends only when its end has passed, so no end is later than `MaxTime + Period`.
- `StripeImplementsBilling`: every step is a step of `Billing` or leaves its variables alone, so what `BillingProofs` and
  `SerialBillingProofs` prove is true of Stripe's events too.
- `PaymentsKept`: `NoPaymentLost`, with any number of webhooks at the same time, in any order, with crashes, sign-ins
  and lost answers. The invariant `Recorded` says that of a subscription that was ever bought a payment is
  still with Stripe or the customer has a billing; and that a payment's webhook is about to write a user with the
  customer's e-mail, or has done it (`JobKnows`). The hypothesis `EmailsStay` is used for just that.
- `TablesFollow`: `TablesAgree`, under `InTurn` (one webhook at a time, oldest event first, no sign-ins) and
  `EmailsStay`. Between two deliveries the tables are behind Stripe, so the invariant `InStep` is about the queue: its
  last event shows the subscription as it is, and each was created when the one before it was the last (`Queue`); the
  webhook is about the oldest (`Front`); a row has what the next event of its subscription does not write (`Before`), what
  the event just applied shows (`Matches`), and what Stripe says when no event is left (`RowOK`). A plan change is the
  delicate write, for the user's product is written only if the billing's differs: it needs `AllFresh`, and that
  user and live billing agree. A row is brought in step alone, since a customer has one row (`OneRow`)
  and two customers have two addresses (`EmailsDiffer`).

`BillingTransactionsProofs` builds on `BillingProofs` and `SerialBillingProofs`, for any finite number of webhooks and any pool:

- `TransactionsCorrect`: the invariant `TxInv`. A transaction's image of its row is
  what it would write now (`TxOK`), because no row is locked twice (`LocksApart`)
  and whoever changes a committed row has its lock; only a sign-in about to
  downgrade keeps a connection (`HoldOK`).
- `Implementation`: `ImplementsBilling`. With `TxInv`, a `Commit` is the `Write` of
  `Billing`; every other step is a step of `Billing` or leaves its variables alone.
- `CommittedBacked`: `Backed` carried over by the refinement.
- `CommittedEntitlement`: the two refinements joined. As long as `Apart` holds, the transactions with their
  statements, locks and connections implement `Entitlement`, and `ProductMatchesBilling` and
  `OldSubscriptionInert` hold of what they commit.
- `NoDeadlock`: `NobodyStuck` if `Cardinality(Handler) < PoolSize`. Whoever wrote
  the user only has to commit; if nobody did, no user's row is locked, so no sign-in
  waits; if no sign-in has a connection, at most one per webhook is in use and one is
  free; and if all have only begun, no billing is locked.

`ClientAuthProofs`, for any number of users, tabs and calls, any token lives and any faults:

- `ClientTypeCorrect` and `PromisesAlive`. A flag could die with a call that ends elsewhere
  than in its own continuation, so the invariant `Safe` adds `KindsAgree`: a slot holds the
  request its call sent, and only protected procedures answer 401. Hence the wrapper never
  takes the answer of a refresh or a sign-in for one to intercept, and a call of kind
  `refresh` can only end in `EndRefresh` or `FailRefresh`, which reset the promise.
- `SessionsKept` and `SignOutsByAge`: `SessionKept` and `SignedOutByAge` of one page (`OneTab`, `OpenPageSpec`) with any
  number of queries. The invariant `Kept` says that one call refreshes at a time (`OneRefresh`), where its request
  is between presenting the stored token and bringing the new one (`Exchange`), and that otherwise the
  store is what the server has (`AtRest`). `SessionsKept` holds whatever fails; `SignOutsByAge` has the hypothesis
  that nothing does, for a lost answer or a database error is a sign-out too. TLC refutes both with a
  second tab, and the second with faults.

`AccountsProofs`, for any accounts, addresses, identities, requests and bounds:

- `AddressesConfirmed`: `ConfirmedAddresses`. A request verifies an account that it read awaits ago, so the
  invariant `Confirmed` says what it still knows (`RequestOK`): the address it is about to
  write is confirmed, or the account's present one is, or the mail it sends goes to an
  account that is verified by now or still has that address. Lemma `Kept` shows that
  this survives every step of the others, because an account's address only
  changes to a confirmed one and `email_verified` is never taken back.
- `CodesBounded`: `CodeBounded`, by `InLife` of every stored, pending and late token.
- `AccountsTypeCorrect`: types, and that no request lacks its account.

`ProfilePageProofs`, for any addresses, names, number of requests, retries and timeouts:

- `ProfileTypeCorrect`, and on top of it `ProfileNeverStuck`: `NeverStuck` is inductive with the
  types alone, because whatever disables a form starts the request that frees it in the same step.
- `ProfileSuccessIsTrue`. That the success is true is decided when the code is asked for, requests
  earlier, so `Attended` says that a dialog nobody dismissed has one request at a time (`OneCall`)
  and that the pending code is for the address on the form, or has been taken by a link
  (`CodeIsFor`). A verification that was carried out and is refused the second time changes neither.
- `ProfileAtRestFresh`. At rest nothing is left to say why the profile is fresh; `Heard` says it while
  requests are under way: what a load or a save has read is the row, unless a verification or
  the timeout after one, which loads again, is still to come. Saves come one at a time (`OneSave`),
  and none beside a load.

`MailPagesProofs`, for the whole tab with any users, plans, number of requests and of retries. One
invariant, `IInv`, is kept by every step, and each property is one of its parts or follows from one:

- `Typed` (`TabTypeCorrect`) adds to the types that a request of a kind was made by what makes that
  kind, and that what it read of a user is of the user it was made for.
- `Own` (`TabOwnProfile`): unless `strayed`, sign-ins come one at a time and whatever reads a user
  reads the one whose tokens are there. Without this the copy stored at the end of a sign-in could be anybody's.
- `Fetched` (`TabBillingOwn`): there is one fetch, and unless `doubtful` it is for the present tokens. It
  rests on `Own` only through `strayed`: the end of a sign-in always mounts another page.
- `Verifying` (`TabVerifiedSeen`): behind the page of a verification link there is one request, which first
  verifies the link's user and then reads who is signed in; so what it stores says verified if they are the same.
- `Waiting` (`TabNobodyWaits`): who waits, waits for a request made by a component that is still
  mounted. `Typed` is needed for it: when a page is left only requests of the modal survive, and none of
  those is waited for.
- `TabProtectedShown` is inductive by itself.

The assumptions are those of the modules' ASSUMEs (the numbers of retries are naturals, and what
stands for "none" is no user, no copy and no request); each is evaluated by TLC on every
run that extends its module. `StripeEventAssumption` says that the handler knows every event a subscription's life
can make; the configurations meet it by giving `Event` the value `StripeEvent`.

Only model-checked: the liveness properties `Settles` and `EveryEventHandled`, out of the prover's reach. Every
other property of a passing run is proved.

## 6. Plan

Batching in `ClientAuth`; several tabs in `MailPages`.

## Not modelled

- Presentation, formatting, configuration, validation schemas and logging have no state a property could be about.
- The signature check of the webhook is a library's; the rate limiter only refuses.
- Each component has its own `useAuth`; `SignInPages` has the page's, which decides what is shown. `App` makes a
  new router when its own changes (`App.tsx:35`), which mounts the page again; the pages are modelled without that.
- The seed of the catalogue is run by hand before there are users; the modules take the catalogue for constant.
- `deploy/` beyond autorestart is shell.
