------------------------------ MODULE ClientStart ------------------------------
(***************************************************************************)
(* The life of one client: newClient with its hooks and its dial, the      *)
(* goroutines of checkVersion, which ask every endpoint for its version    *)
(* and report to newClient through a channel, and Close.                   *)
(*                                                                         *)
(* The channel has room for one report of each goroutine, which is why the *)
(* reports that wait in it are the goroutines that stand at "sent".        *)
(***************************************************************************)
EXTENDS Integers

CONSTANTS
    Endpoints, \* config.Endpoints; each is also a member of the cluster
    Versions,  \* the versions that members may run
    MaxCloses  \* bound: calls of Close by the application

\* StatusResponse.Version split at its dots: how many parts, whether the first
\* two are numbers, and which.
AllVersions == [parts : {1, 3}, numeric : BOOLEAN, maj : 0..1, minor : 4..5]

ASSUME StartAssumption ==
    /\ Endpoints # {}
    /\ Versions \subseteq AllVersions
    /\ Versions # {}
    /\ MaxCloses \in Nat

VARIABLES
    cfg,      \* the configuration that New was given
    version,  \* the version of each member
    phase,    \* where newClient, and later the application's Close, stands
    ctx,      \* Client.ctx
    conn,     \* Client.conn
    hook,     \* which callbacks the hook of the configuration has seen
    closes,   \* calls of Close by the application
    checkCtx, \* the context of checkVersion
    worker,   \* where the goroutine of each endpoint stands
    verdict,  \* what it reports
    dialed,   \* the endpoints with an ad hoc connection of Status
    err       \* the error of checkVersion, then of newClient

vars == <<cfg, version, phase, ctx, conn, hook, closes, checkCtx, worker, verdict,
          dialed, err>>

\* A hook that implements all interfaces, one within a list of hooks, or the
\* metrics plugin, whose method is OnClientClose and not OnClientClosed.
HookKinds == {"plain", "nested", "metrics"}

Configs == [valid : BOOLEAN, reject : BOOLEAN, timeout : BOOLEAN, kind : HookKinds]
Phases == {"new", "dial", "check", "receive", "cancel", "wait", "disconnect",
           "notify", "running", "closed", "failed"}
Verdicts == {"none", "current", "old", "syntax", "dialError", "rpcError",
             "canceled", "expired"}

TypeOK ==
    /\ cfg \in Configs
    /\ version \in [Endpoints -> Versions]
    /\ phase \in Phases
    /\ ctx \in {"none", "alive", "canceled"}
    /\ conn \in {"none", "open", "closed"}
    /\ hook \in [new : BOOLEAN, closed : BOOLEAN]
    /\ closes \in 0..MaxCloses
    /\ checkCtx \in {"none", "alive", "canceled", "expired"}
    /\ worker \in [Endpoints -> {"off", "dial", "call", "report", "sent", "read"}]
    /\ verdict \in [Endpoints -> Verdicts]
    /\ dialed \subseteq Endpoints
    /\ err \in Verdicts \cup {"config"}

Init ==
    /\ cfg \in Configs
    /\ version \in [Endpoints -> Versions]
    /\ phase = "new"
    /\ ctx = "none"
    /\ conn = "none"
    /\ hook = [new |-> FALSE, closed |-> FALSE]
    /\ closes = 0
    /\ checkCtx = "none"
    /\ worker = [e \in Endpoints |-> "off"]
    /\ verdict = [e \in Endpoints |-> "none"]
    /\ dialed = {}
    /\ err = "none"

checkVars == <<checkCtx, worker, verdict, dialed>>

-------------------------------------------------------------------------------
(* newClient *)

\* A limit for messages or a hook that newClient refuses. The context that it
\* has made is not cancelled.
RefuseConfig ==
    /\ phase = "new"
    /\ ~ cfg.valid
    /\ phase' = "failed"
    /\ ctx' = "alive"
    /\ err' = "config"
    /\ UNCHANGED <<cfg, version, conn, hook, closes, checkVars>>

\* The hooks that processHooks found, those of nested lists included, are told
\* of the client; then it has a resolver and endpoints.
CallNewHooks ==
    /\ phase = "new"
    /\ cfg.valid
    /\ phase' = "dial"
    /\ ctx' = "alive"
    /\ hook' = [hook EXCEPT !.new = TRUE]
    /\ UNCHANGED <<cfg, version, conn, closes, checkVars, err>>

\* The connection is idle and not Ready, so that WaitForStateChange returns at
\* once, with InitialConnectionTimeout or without.
DialWithBalancer ==
    /\ phase = "dial"
    /\ conn' = "open"
    /\ phase' = IF cfg.reject THEN "check" ELSE "running"
    /\ UNCHANGED <<cfg, version, ctx, hook, closes, checkVars, err>>

DialFails ==
    /\ phase = "dial"
    /\ phase' = "failed"
    /\ ctx' = "canceled"
    /\ err' = "dialError"
    /\ UNCHANGED <<cfg, version, conn, hook, closes, checkVars>>

-------------------------------------------------------------------------------
(* checkVersion *)

\* One goroutine is started for each endpoint.
StartCheck ==
    /\ phase = "check"
    /\ phase' = "receive"
    /\ checkCtx' = "alive"
    /\ worker' = [e \in Endpoints |-> "dial"]
    /\ UNCHANGED <<cfg, version, ctx, conn, hook, closes, verdict, dialed, err>>

Conclude(e, v) ==
    /\ verdict' = [verdict EXCEPT ![e] = v]
    /\ worker' = [worker EXCEPT ![e] = "report"]
    /\ dialed' = dialed \ {e}
    /\ UNCHANGED <<cfg, version, phase, ctx, conn, hook, closes, checkCtx, err>>

\* Status makes a connection of its own to the endpoint.
DialEndpoint(e) ==
    /\ worker[e] = "dial"
    /\ worker' = [worker EXCEPT ![e] = "call"]
    /\ dialed' = dialed \cup {e}
    /\ UNCHANGED <<cfg, version, phase, ctx, conn, hook, closes, checkCtx, verdict, err>>

DialEndpointFails(e) == worker[e] = "dial" /\ Conclude(e, "dialError")

\* What a goroutine makes of a version: with less than two parts it is 0.0.
Judge(v) ==
    CASE v.parts < 2 -> "old"
      [] v.parts >= 2 /\ ~ v.numeric -> "syntax"
      [] v.parts >= 2 /\ v.numeric /\ v.maj = 0 /\ v.minor < 5 -> "old"
      [] OTHER -> "current"

\* The Status request goes through Client.conn, whose balancer picks a member,
\* and not through the connection that was made for the endpoint.
StatusAnswered(e) ==
    /\ worker[e] = "call"
    /\ \E m \in Endpoints : Conclude(e, Judge(version[m]))

\* Variant: the error is taken from the context of the client.
StatusFails_clientCtx(e) ==
    /\ worker[e] = "call"
    /\ \/ Conclude(e, "rpcError")
       \/ checkCtx # "alive" /\ Conclude(e, ctx)

\* The request fails, because of the member or because the context is done.
StatusFails(e) ==
    /\ worker[e] = "call"
    /\ \/ Conclude(e, "rpcError")
       \/ checkCtx # "alive" /\ Conclude(e, checkCtx)

\* Variant: the channel has no room, a report waits for its reader.
Report_unbuffered(e) ==
    /\ worker[e] = "report"
    /\ phase = "receive"
    /\ worker' = [worker EXCEPT ![e] = "sent"]
    /\ UNCHANGED <<cfg, version, phase, ctx, conn, hook, closes, checkCtx, verdict,
                   dialed, err>>

Report(e) ==
    /\ worker[e] = "report"
    /\ worker' = [worker EXCEPT ![e] = "sent"]
    /\ UNCHANGED <<cfg, version, phase, ctx, conn, hook, closes, checkCtx, verdict,
                   dialed, err>>

AllRead == \A e \in Endpoints : worker[e] = "read"

\* Variants: the loop ends with a success, or the context is done early.
Receive_success(e) ==
    /\ phase = "receive"
    /\ worker[e] = "sent"
    /\ err' = verdict[e]
    /\ worker' = [worker EXCEPT ![e] = "read"]
    /\ phase' = IF verdict[e] = "current" \/ AllRead' THEN "cancel" ELSE "receive"
    /\ UNCHANGED <<cfg, version, ctx, conn, hook, closes, checkCtx, verdict, dialed>>

Receive_cancel(e) ==
    /\ phase = "receive"
    /\ worker[e] = "sent"
    /\ err' = verdict[e]
    /\ worker' = [worker EXCEPT ![e] = "read"]
    /\ checkCtx' = IF verdict[e] = "current" THEN checkCtx ELSE "canceled"
    /\ phase' = IF AllRead' THEN "cancel" ELSE "receive"
    /\ UNCHANGED <<cfg, version, ctx, conn, hook, closes, verdict, dialed>>

\* One report is read; the first that is an error ends the loop.
Receive(e) ==
    /\ phase = "receive"
    /\ worker[e] = "sent"
    /\ err' = verdict[e]
    /\ worker' = [worker EXCEPT ![e] = "read"]
    /\ phase' = IF verdict[e] # "current" \/ AllRead' THEN "cancel" ELSE "receive"
    /\ UNCHANGED <<cfg, version, ctx, conn, hook, closes, checkCtx, verdict, dialed>>

CancelCheck ==
    /\ phase = "cancel"
    /\ phase' = "wait"
    /\ checkCtx' = IF checkCtx = "alive" THEN "canceled" ELSE checkCtx
    /\ UNCHANGED <<cfg, version, ctx, conn, hook, closes, worker, verdict, dialed, err>>

\* Variant: newClient goes on without waiting for the goroutines.
WaitWorkers_skipped ==
    /\ phase = "wait"
    /\ phase' = IF err = "current" THEN "running" ELSE "disconnect"
    /\ ctx' = IF err = "current" THEN ctx ELSE "canceled"
    /\ UNCHANGED <<cfg, version, conn, hook, closes, checkVars, err>>

\* wg.Wait. An error makes newClient call Close, which begins with c.cancel().
WaitWorkers ==
    /\ phase = "wait"
    /\ \A e \in Endpoints : worker[e] \in {"sent", "read"}
    /\ phase' = IF err = "current" THEN "running" ELSE "disconnect"
    /\ ctx' = IF err = "current" THEN ctx ELSE "canceled"
    /\ UNCHANGED <<cfg, version, conn, hook, closes, checkVars, err>>

\* InitialConnectionTimeout passes.
ExpireCheck ==
    /\ cfg.timeout
    /\ checkCtx = "alive"
    /\ checkCtx' = "expired"
    /\ UNCHANGED <<cfg, version, phase, ctx, conn, hook, closes, worker, verdict,
                   dialed, err>>

-------------------------------------------------------------------------------
(* Close *)

\* The application closes the client, maybe once more.
Close ==
    /\ phase \in {"running", "closed"}
    /\ closes < MaxCloses
    /\ closes' = closes + 1
    /\ ctx' = "canceled"
    /\ phase' = "disconnect"
    /\ UNCHANGED <<cfg, version, conn, hook, checkVars, err>>

Disconnect ==
    /\ phase = "disconnect"
    /\ conn' = "closed"
    /\ phase' = "notify"
    /\ UNCHANGED <<cfg, version, ctx, hook, closes, checkVars, err>>

\* callHooks looks at the hooks of Client.cfg, which is a copy from before
\* processHooks has unfolded the nested lists, and calls a HookClientClosed.
CallClosedHooks ==
    /\ phase = "notify"
    /\ hook' = [hook EXCEPT !.closed = @ \/ cfg.kind = "plain"]
    /\ phase' = IF closes > 0 THEN "closed" ELSE "failed"
    /\ UNCHANGED <<cfg, version, ctx, conn, closes, checkVars, err>>

-------------------------------------------------------------------------------
CheckStep == StartCheck \/ (\E e \in Endpoints : Receive(e)) \/ CancelCheck \/ WaitWorkers
CloseStep == Disconnect \/ CallClosedHooks

StartStep ==
    RefuseConfig \/ CallNewHooks \/ DialWithBalancer \/ DialFails \/ CheckStep \/ CloseStep

Asked(e) == StatusAnswered(e) \/ StatusFails(e)

WorkerStep(e) == DialEndpoint(e) \/ DialEndpointFails(e) \/ Report(e)

Next ==
    \/ StartStep \/ Close \/ ExpireCheck
    \/ \E e \in Endpoints : WorkerStep(e) \/ Asked(e)

Spec == Init /\ [][Next]_vars

\* Goroutines run, a timer fires, and an RPC whose context is done returns. A
\* member owes no answer, and nothing forces the application to close.
Fairness ==
    /\ WF_vars(StartStep)
    /\ WF_vars(ExpireCheck)
    /\ \A e \in Endpoints :
        WF_vars(WorkerStep(e)) /\ WF_vars(checkCtx # "alive" /\ Asked(e))

FairSpec == Spec /\ Fairness

-------------------------------------------------------------------------------
(* Safety *)

Returned == phase \in {"running", "failed", "closed"}

\* When New returns, with a client or an error, no goroutine of checkVersion is
\* still at work, no connection that Status made for an endpoint is open, and
\* a client that was refused keeps no connection.
NothingLeftBehind ==
    Returned =>
        /\ \A e \in Endpoints : worker[e] \in {"off", "sent", "read"}
        /\ dialed = {}
        /\ phase = "failed" => conn # "open"

\* RejectOldCluster: a client is handed out only when the question of every
\* endpoint was answered with a current version.
AcceptedWhenAllCurrent ==
    phase \in {"running", "closed"} /\ cfg.reject =>
        \A e \in Endpoints : verdict[e] = "current"

\* The error of New says what went wrong; it is never a cancellation that
\* checkVersion itself has caused after the first error.
ErrorIsTheCause == Returned => err # "canceled"

\* "RejectOldCluster when set will refuse to create a client against an
\* outdated cluster" (config.go:64): no member of an accepted cluster is old.
AcceptedClusterIsCurrent ==
    phase = "running" /\ cfg.reject =>
        \A m \in Endpoints : Judge(version[m]) = "current"

\* "HookClientClosed is called in Close after a client has been closed"
\* (hooks.go:51-52): a hook that was told of the client is told of its end.
ClosedHookIsCalled == phase = "closed" /\ hook.new => hook.closed

(* Liveness *)

\* With InitialConnectionTimeout, or without RejectOldCluster, New returns
\* whatever the members do: no goroutine of checkVersion blocks on its report
\* after newClient stopped reading.
NewReturns == (cfg.timeout \/ ~ cfg.reject) ~> Returned
===============================================================================
