----------------------------- MODULE ReactQuery -----------------------------
(***************************************************************************)
(* The requests of a page, as the page sees them: sent, carried out by the *)
(* server, answered or lost on either way, and sent again by React Query.  *)
(*                                                                         *)
(* providers/trpc-provider.tsx gives every mutation one retry and every    *)
(* query three, whatever the error was: a refusal of the server is tried   *)
(* again like a lost answer, and what the first attempt did is not undone. *)
(* A request made with trpcClient has no retry.  A page that is closed     *)
(* does not stop its requests.                                             *)
(***************************************************************************)
EXTENDS Naturals, FiniteSets

CONSTANTS
    Call,           \* slots for requests
    NoCall,
    MutationRetries \* retry: 1

ASSUME RetryAssumption == MutationRetries \in Nat

VARIABLE call

\* ok: how the last attempt ended; value: what a read returned.
CallOf(kinds, args, values) ==
    [kind : kinds, arg : args, left : 0 .. MutationRetries,
     stage : {"sent", "answered"}, ok : BOOLEAN, value : values]

Idle(c) == call[c] = NoCall

Under(c, kind) == ~ Idle(c) /\ call[c].kind = kind

Quiet == \A c \in Call : Idle(c)

NoneOf(kinds) == ~ \E c \in Call : ~ Idle(c) /\ call[c].kind \in kinds

Start(c, kind, arg, retries, none) ==
    /\ Idle(c)
    /\ call' = [call EXCEPT ![c] =
         [kind |-> kind, arg |-> arg, left |-> retries, stage |-> "sent",
          ok |-> FALSE, value |-> none]]

\* A request of this kind reaches the server.
Arrives(c, kind) == Under(c, kind) /\ call[c].stage = "sent"

Answer(c, value) ==
    call' = [call EXCEPT ![c].stage = "answered", ![c].ok = TRUE,
                         ![c].value = value]

\* The attempt failed: the server refused it, or one of the two messages was
\* lost.  The delay before it is sent again is that of the second attempt.
Fail(c) ==
    \/ call[c].left > 0 /\ call' = [call EXCEPT ![c].left = call[c].left - 1]
    \/ call[c].left = 0 /\ call' = [call EXCEPT ![c].stage = "answered"]

\* The server has done its part; the answer may be lost.
Respond(c, value) == Answer(c, value) \/ Fail(c)

\* The page takes the final answer and frees the slot.
Take(c, kind) ==
    /\ Under(c, kind) /\ call[c].stage = "answered"
    /\ call' = [call EXCEPT ![c] = NoCall]

Succeeded(c, kind) == Take(c, kind) /\ call[c].ok
Failed(c, kind) == Take(c, kind) /\ ~ call[c].ok

=============================================================================
