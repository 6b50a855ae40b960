------------------------------ MODULE UnaryRetry ------------------------------
(***************************************************************************)
(* The unary calls of the regatta client: one goroutine per call runs the  *)
(* retry loop of unaryClientInterceptor (interceptor.go), gRPC carries     *)
(* each attempt to a server, and SetEndpoints changes the number of        *)
(* endpoints that the backoff reads on every attempt.                      *)
(*                                                                         *)
(* An attempt that left the client may take effect at the server at any    *)
(* later time, also after the client was told that it failed: a broken     *)
(* connection, a deadline or a server timeout say nothing about the        *)
(* request that was already sent.                                          *)
(***************************************************************************)
EXTENDS RetryRules, FiniteSets

CONSTANTS
    Calls,          \* the unary RPCs issued through one client
    Method,         \* Method[c]: the RPC method that call c invokes
    Max,            \* callOpts.max, the number of attempts; 0 disables the loop
    MaxCalls,       \* how many of the calls are made (a bound for TLC)
    EndpointCounts, \* the lengths that c.endpoints takes
    ServerCodes     \* the status codes with which servers answer

Methods == {"Range", "Put", "DeleteRange", "Txn", "Create", "Delete", "List",
            "MemberList", "Status"}

ASSUME RetryAssumption ==
    /\ Method \in [Calls -> Methods]
    /\ Max \in Nat
    /\ EndpointCounts \subseteq Nat
    /\ EndpointCounts # {}
    /\ ServerCodes \subseteq Codes

VARIABLES
    phase,      \* where the goroutine of the call stands
    attempt,    \* the loop variable of unaryClientInterceptor
    ctx,        \* the context of the call: "alive", or why it is done
    err,        \* what the interceptor returned, then what the caller gets
    req,        \* req[c][a]: the request of attempt a, as the servers see it
    answer,     \* answer[c][a]: what the invoker returned for attempt a (history)
    endpoints,  \* len(c.Endpoints())
    closed,     \* Client.Close was called
    burst       \* invocations since the last backoff or SetEndpoints (history)

vars == <<phase, attempt, ctx, err, req, answer, endpoints, closed, burst>>

\* With max = 0 there is one attempt, outside the loop.
Attempts == {a \in 0..Max : a < Max \/ a = 0}
Phases == {"idle", "wait", "backoff", "invoke", "inflight", "returned", "done"}

TypeOK ==
    /\ phase \in [Calls -> Phases]
    /\ attempt \in [Calls -> 0..Max]
    /\ ctx \in [Calls -> {"alive"} \cup ContextCodes]
    /\ err \in [Calls -> Errors \cup {OK, None}]
    /\ req \in [Calls -> [Attempts -> {"unsent", "sent", "executed", "lost"}]]
    /\ answer \in [Calls -> [Attempts -> Errors \cup {OK, None}]]
    /\ endpoints \in EndpointCounts
    /\ closed \in BOOLEAN
    /\ burst \in [Calls -> Nat]

-------------------------------------------------------------------------------
\* Only the read methods are wrapped with withRepeatable(); the default policy
\* of the options is nonRepeatable.
RetryPolicy(c) ==
    IF Method[c] \in {"Range", "List", "MemberList", "Status"}
    THEN "repeatable" ELSE "nonRepeatable"

-------------------------------------------------------------------------------
Init ==
    /\ phase = [c \in Calls |-> "idle"]
    /\ attempt = [c \in Calls |-> 0]
    /\ ctx = [c \in Calls |-> "alive"]
    /\ err = [c \in Calls |-> None]
    /\ req = [c \in Calls |-> [a \in Attempts |-> "unsent"]]
    /\ answer = [c \in Calls |-> [a \in Attempts |-> None]]
    /\ endpoints \in EndpointCounts
    /\ closed = FALSE
    /\ burst = [c \in Calls |-> 0]

(* The goroutine of the call *)

\* The application calls the API; with max = 0 the loop is short-circuited.
Start(c) ==
    /\ phase[c] = "idle"
    /\ Cardinality({d \in Calls : phase[d] # "idle"}) < MaxCalls
    /\ phase' = [phase EXCEPT ![c] = IF Max = 0 THEN "invoke" ELSE "wait"]
    /\ UNCHANGED <<attempt, ctx, err, req, answer, endpoints, closed, burst>>

\* waitRetryBackoff without a wait: the context is not looked at.
SkipBackoff(c) ==
    /\ phase[c] = "wait"
    /\ ~ backoffWaits(attempt[c], endpoints)
    /\ phase' = [phase EXCEPT ![c] = "invoke"]
    /\ burst' = [burst EXCEPT ![c] = @ + 1]
    /\ UNCHANGED <<attempt, ctx, err, req, answer, endpoints, closed>>

StartBackoff(c) ==
    /\ phase[c] = "wait"
    /\ backoffWaits(attempt[c], endpoints)
    /\ phase' = [phase EXCEPT ![c] = "backoff"]
    /\ UNCHANGED <<attempt, ctx, err, req, answer, endpoints, closed, burst>>

TimerFires(c) ==
    /\ phase[c] = "backoff"
    /\ phase' = [phase EXCEPT ![c] = "invoke"]
    /\ burst' = [burst EXCEPT ![c] = 1]
    /\ UNCHANGED <<attempt, ctx, err, req, answer, endpoints, closed>>

\* The other branch of the select: contextErrToGrpcErr(ctx.Err()).
BackoffCanceled(c) ==
    /\ phase[c] = "backoff"
    /\ ctx[c] # "alive"
    /\ phase' = [phase EXCEPT ![c] = "returned"]
    /\ err' = [err EXCEPT ![c] = [code |-> ctx[c], desc |-> "other"]]
    /\ UNCHANGED <<attempt, ctx, req, answer, endpoints, closed, burst>>

\* What the loop does with the result e of the invoker: return it, or go on
\* with the next attempt, or leave the loop with lastErr.
Receive(c, e) ==
    LET more == Max # 0 /\ e # OK /\ Retries(RetryPolicy(c), ctx[c] = "alive", e)
        last == ~ AttemptsLeft(attempt[c], Max)
    IN  /\ answer' = [answer EXCEPT ![c][attempt[c]] = e]
        /\ attempt' = [attempt EXCEPT ![c] = IF more THEN NextAttempt(@) ELSE @]
        /\ phase' = [phase EXCEPT ![c] =
                        IF more /\ ~ last THEN "wait" ELSE "returned"]
        /\ err' = [err EXCEPT ![c] = IF more /\ ~ last THEN @ ELSE e]
        /\ UNCHANGED <<ctx, req, endpoints, closed, burst>>

\* The KV, Tables or Cluster method that made the call returns to its caller.
Return(c) ==
    /\ phase[c] = "returned"
    /\ phase' = [phase EXCEPT ![c] = "done"]
    /\ err' = [err EXCEPT ![c] = toErr(ctx[c], @)]
    /\ UNCHANGED <<attempt, ctx, req, answer, endpoints, closed, burst>>

-------------------------------------------------------------------------------
(* gRPC and the servers *)

\* The invoker hands the request to a transport of the open connection.
Send(c) ==
    /\ phase[c] = "invoke"
    /\ ~ closed
    /\ phase' = [phase EXCEPT ![c] = "inflight"]
    /\ req' = [req EXCEPT ![c][attempt[c]] = "sent"]
    /\ UNCHANGED <<attempt, ctx, err, answer, endpoints, closed, burst>>

\* The invoker fails before the request left.
FailUnsent(c) ==
    /\ phase[c] = "invoke"
    /\ \E e \in LocalErrors(ctx[c], closed) : Receive(c, e)

\* The invoker returns after the request left. Only the reply of a server that
\* executed the request says what became of it.
Answer(c) ==
    /\ phase[c] = "inflight"
    /\ \/ req[c][attempt[c]] = "executed" /\ Receive(c, OK)
       \/ \E e \in SentErrors(ctx[c], ServerCodes) : Receive(c, e)

\* A server executes a request it has received, maybe long after the client
\* stopped waiting for it.
Execute(c, a) ==
    /\ req[c][a] = "sent"
    /\ req' = [req EXCEPT ![c][a] = "executed"]
    /\ UNCHANGED <<phase, attempt, ctx, err, answer, endpoints, closed, burst>>

\* The request is lost on the way or rejected: it will never be executed.
Lose(c, a) ==
    /\ req[c][a] = "sent"
    /\ req' = [req EXCEPT ![c][a] = "lost"]
    /\ UNCHANGED <<phase, attempt, ctx, err, answer, endpoints, closed, burst>>

-------------------------------------------------------------------------------
(* The application *)

\* The context of the call is cancelled or its deadline passes.
EndContext(c) ==
    /\ ctx[c] = "alive"
    /\ phase[c] # "done"
    /\ \E why \in ContextCodes : ctx' = [ctx EXCEPT ![c] = why]
    /\ UNCHANGED <<phase, attempt, err, req, answer, endpoints, closed, burst>>

\* Client.Close closes the connection; the contexts of the calls stay alive.
Close ==
    /\ ~ closed
    /\ closed' = TRUE
    /\ UNCHANGED <<phase, attempt, ctx, err, req, answer, endpoints, burst>>

\* SetEndpoints or Sync changes how many endpoints the client has.
SetEndpoints ==
    /\ \E n \in EndpointCounts \ {endpoints} : endpoints' = n
    /\ burst' = [c \in Calls |-> 0]
    /\ UNCHANGED <<phase, attempt, ctx, err, req, answer, closed>>

-------------------------------------------------------------------------------
CallStep(c) ==
    \/ Start(c) \/ SkipBackoff(c) \/ StartBackoff(c) \/ TimerFires(c)
    \/ BackoffCanceled(c) \/ Return(c)

ServerStep(c) == \E a \in Attempts : Execute(c, a) \/ Lose(c, a)

Next ==
    \/ \E c \in Calls :
        \/ CallStep(c) \/ Send(c) \/ FailUnsent(c) \/ Answer(c)
        \/ ServerStep(c) \/ EndContext(c)
    \/ Close
    \/ SetEndpoints

Spec == Init /\ [][Next]_vars

\* The goroutine runs, and gRPC returns from a call whose context is done or
\* whose connection is closed. Until then it may wait for a transport (the
\* default is WaitForReady) and for an answer, and the application need not
\* start a call, end a context or close the client.
Fairness ==
    \A c \in Calls :
        /\ WF_vars(CallStep(c) /\ phase[c] # "idle")
        /\ WF_vars(/\ ctx[c] # "alive" \/ closed
                   /\ Send(c) \/ FailUnsent(c) \/ Answer(c))

FairSpec == Spec /\ Fairness

-------------------------------------------------------------------------------
(* Safety *)

Mutations == {c \in Calls : RetryPolicy(c) = "nonRepeatable"}

\* A mutation (Put, DeleteRange, Txn, table create and delete) takes effect
\* twice only if the earlier attempt was answered with a context code: this is
\* what isSafeRetryMutableRPC is there for, over all interleavings of late
\* executions, lost replies and retries.
DuplicateOnlyAfterContextError ==
    \A c \in Mutations : \A a, b \in Attempts :
        (a < b /\ req[c][a] = "executed" /\ req[c][b] = "executed")
            => answer[c][a].code \in ContextCodes

\* The write-at-most-once semantics of the comment at isSafeRetryMutableRPC
\* (interceptor.go:320), without a condition.
WriteAtMostOnce ==
    \A c \in Mutations : \A a, b \in Attempts :
        (req[c][a] = "executed" /\ req[c][b] = "executed") => a = b

\* Some attempt of the call left the client and came back with a context code.
SawContextError(c) ==
    \E a \in Attempts : req[c][a] # "unsent" /\ answer[c][a].code \in ContextCodes

\* A caller whose mutation failed because no connection was up may repeat it:
\* no attempt of it left the client, whatever was retried before.
NoTransportMeansUnsent ==
    \A c \in Mutations :
        (phase[c] = "done" /\ err[c].desc = "noTransport" /\ ~ SawContextError(c))
            => \A a \in Attempts : req[c][a] = "unsent"

\* A read gives up with Unavailable only when every attempt was used up; it is
\* never the first unreachable server that ends it.
UnavailableReadUsedAllAttempts ==
    \A c \in Calls \ Mutations :
        (phase[c] = "done" /\ err[c].code = "Unavailable") =>
            \A a \in Attempts : answer[c][a] # None

\* "after each round-robin across quorum, backoff" (client.go:392): while the
\* endpoints do not change, no more than a quorum of invocations are made
\* without a wait between them.
BackoffEachQuorum == \A c \in Calls : burst[c] <= Quorum(endpoints)

(* Liveness *)

\* A call whose context is done returns to its caller, through whatever
\* backoff or attempt it is in.
DoneContextEndsCall ==
    \A c \in Calls :
        (ctx[c] # "alive" /\ phase[c] # "idle") ~> (phase[c] = "done")

\* Close ends every call, although their contexts stay alive and the closed
\* connection answers each attempt with a code that the loop always retries.
CloseEndsCalls ==
    \A c \in Calls : (closed /\ phase[c] # "idle") ~> (phase[c] = "done")
-------------------------------------------------------------------------------
(* Refinement of WriteOnce *)

\* How a mutation looks to its caller.
Outcome(c) ==
    CASE phase[c] = "idle" -> "idle"
      [] phase[c] \notin {"idle", "done"} -> "pending"
      [] phase[c] = "done" /\ err[c] = OK -> "ok"
      [] phase[c] = "done" /\ err[c].desc = "noTransport" -> "unsent"
      [] OTHER -> "unknown"

Effects(c) == {a \in Attempts : req[c][a] = "executed"}

\* The loop went on after an attempt that had left and came back with a
\* context code.
Excused(c) ==
    \E a \in Attempts :
        a < attempt[c] /\ req[c][a] # "unsent" /\ answer[c][a].code \in ContextCodes

statusBar == [c \in Mutations |-> Outcome(c)]
effectsBar == [c \in Mutations |-> Effects(c)]
excusedBar == {c \in Mutations : Excused(c)}

WO == INSTANCE WriteOnce WITH
        Writes <- Mutations, Tries <- Attempts,
        status <- statusBar, effects <- effectsBar, excused <- excusedBar

\* The retry loop implements WriteOnce: unless it went on after a context code,
\* a mutation takes effect at most once, "ok" is never reported early and
\* nothing is executed after "no connection available".
ImplementsWriteOnce == WO!Spec
===============================================================================
