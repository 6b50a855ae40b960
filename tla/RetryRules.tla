------------------------------ MODULE RetryRules ------------------------------
(***************************************************************************)
(* What both retry interceptors of the client share: the errors they tell  *)
(* apart, which of them each policy retries, and which attempts back off.  *)
(***************************************************************************)
EXTENDS Integers

ContextCodes == {"Canceled", "DeadlineExceeded"}

\* "Internal" stands for every other code, "notStatus" for an error that
\* status.FromError does not recognise.
Codes == ContextCodes \cup {"Unavailable", "Internal", "notStatus"}

\* "noTransport" stands for the two messages isSafeRetryMutableRPC looks for.
Descs == {"noTransport", "other"}
Errors == [code : Codes, desc : Descs]
OK == [code |-> "OK", desc |-> "other"]
None == [code |-> "none", desc |-> "other"]

isContextError(e) == e.code \in ContextCodes

isSafeRetryImmutableRPC(e) == e.code = "Unavailable"

\* Variant: the text of an unavailable error is not looked at.
isSafeRetryMutableRPC_anyText(e) == e.code = "Unavailable"

\* An error that is no status passes the first test and is judged by its text.
isSafeRetryMutableRPC(e) ==
    /\ e.code \in {"Unavailable", "notStatus"}
    /\ e.desc = "noTransport"

isSafeRetry(policy, e) ==
    /\ ~ isContextError(e)
    /\ \/ policy = "repeatable" /\ isSafeRetryImmutableRPC(e)
       \/ policy = "nonRepeatable" /\ isSafeRetryMutableRPC(e)

\* Whether a loop goes on after e. A context error while the context of the
\* call is alive is retried before any policy is asked.
Retries(policy, alive, e) ==
    IF isContextError(e) THEN alive ELSE isSafeRetry(policy, e)

\* roundRobinQuorumBackoff: a positive wait on every quorum-th attempt only.
Quorum(n) == n \div 2 + 1

\* Variant: one attempt more goes without a wait.
backoffWaits_late(a, n) == a > 0 /\ a % (Quorum(n) + 1) = 0

backoffWaits(a, n) == a > 0 /\ a % Quorum(n) = 0

\* Variants: a loop that does not count, stops early, or goes round once more.
NextAttempt_stuck(a) == a
AttemptsLeft_early(a, max) == a + 2 < max
AttemptsLeft_oneMore(a, max) == a + 1 <= max

\* The loops of both interceptors: attempt++ and attempt < callOpts.max.
NextAttempt(a) == a + 1
AttemptsLeft(a, max) == a + 1 < max

\* Variant: ctx.Err() is not asked whether the context is done.
toErr_unchecked(ctx, e) ==
    IF isContextError(e) THEN [code |-> ctx, desc |-> "other"] ELSE e

\* toErr: a context error is replaced by ctx.Err(), which is no gRPC status.
toErr(ctx, e) ==
    IF isContextError(e) /\ ctx # "alive"
    THEN [code |-> ctx, desc |-> "other"] ELSE e

\* An error that gRPC may report before a request left the client: no usable
\* transport or any other local failure, a context that is done, or (with code
\* Canceled, whatever the state of the context) a connection that was closed.
LocalErrors(ctx, closed) ==
    {e \in Errors :
        \/ e.code \in Codes \ ContextCodes
        \/ e.code = ctx /\ e.desc = "other"
        \/ e.code = "Canceled" /\ e.desc = "other" /\ closed}

\* An error that gRPC may report after the request left: a server's answer, a
\* broken connection, or a context that is done.
SentErrors(ctx, serverCodes) ==
    {e \in Errors :
        /\ e.desc = "other"
        /\ e.code \in serverCodes \cup {"Unavailable", ctx}}
===============================================================================
