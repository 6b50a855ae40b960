----------------------------- MODULE EndpointSync -----------------------------
(***************************************************************************)
(* The endpoints of a client and everything that moves them: SetEndpoints  *)
(* and Sync called by the application, the autoSync goroutine, the manual  *)
(* resolver, gRPC building the resolver whenever the connection leaves its *)
(* idle mode, and Close.  What counts in the end is the list of addresses  *)
(* that gRPC's balancer uses.                                              *)
(*                                                                         *)
(* A list of endpoints is the set of its members: round robin makes the    *)
(* order irrelevant.                                                       *)
(***************************************************************************)
EXTENDS Integers

CONSTANTS
    Nodes,       \* endpoint URLs
    Users,       \* goroutines of the application, each makes one call
    AutoSync,    \* the autoSync goroutine
    Memberships, \* functions from Nodes to {"absent", "unnamed", "named"}
    UserLists,   \* the lists that the application configures
    None,        \* no lock holder, no list
    MaxChanges   \* bound: how often the cluster membership changes

ASSUME EndpointAssumption ==
    /\ AutoSync \notin Users
    /\ Memberships \subseteq [Nodes -> {"absent", "unnamed", "named"}]
    /\ Memberships # {}
    /\ UserLists \subseteq SUBSET Nodes
    /\ \E l \in UserLists : l # {}
    /\ None \notin Users \cup {AutoSync}
    /\ \A l \in SUBSET Nodes : None # l
    /\ MaxChanges \in Nat

Callers == Users \cup {AutoSync}

VARIABLES
    endpoints,    \* Client.endpoints
    epMu,         \* holder of Client.epMu
    resEndpoints, \* RegattaManualResolver.endpoints
    oldEndpoints, \* the list that resEndpoints replaced
    cc,           \* Resolver.CC: "none", "live", or "stale" after idling
    lastSeen,     \* manual.Resolver.lastSeenState
    conn,         \* the gRPC connection: "idle", "active" or "closed"
    balancer,     \* the addresses the connection balances over
    pc,           \* where each caller stands
    arg,          \* the list a caller is about to set or has snapshot
    build,        \* where Build stands: "none", "snapshot" or "push"
    buildSnap,    \* the list Build has snapshot
    close,        \* how far Close has come
    members,      \* the membership of the cluster
    changes,      \* how often it changed
    panicked,     \* dial indexed an empty list
    raced         \* Build overlapped SetEndpoints and nothing repaired it (history)

resolverVars == <<resEndpoints, oldEndpoints, cc, lastSeen>>
connVars == <<conn, balancer>>
buildVars == <<build, buildSnap>>
clusterVars == <<members, changes>>
vars == <<endpoints, epMu, resolverVars, connVars, pc, arg, buildVars, close,
          clusterVars, panicked, raced>>

Lists == SUBSET Nodes

TypeOK ==
    /\ endpoints \in Lists
    /\ epMu \in Callers \cup {None}
    /\ resEndpoints \in Lists
    /\ oldEndpoints \in Lists
    /\ cc \in {"none", "live", "stale"}
    /\ lastSeen = None \/ lastSeen \in Lists
    /\ conn \in {"idle", "active", "closed"}
    /\ balancer = None \/ balancer \in Lists
    /\ pc \in [Callers -> {"idle", "listing", "set", "snapshot", "push", "done"}]
    /\ arg \in [Callers -> Lists]
    /\ build \in {"none", "snapshot", "push"}
    /\ buildSnap \in Lists
    /\ close \in {"open", "canceled", "disconnected", "closed"}
    /\ members \in Memberships
    /\ changes \in 0..MaxChanges
    /\ panicked \in BOOLEAN
    /\ raced \in BOOLEAN

\* newClient has returned: resolver.New and SetEndpoints have stored the
\* configured list, and grpc.NewClient leaves the connection idle.
Init ==
    /\ endpoints \in UserLists \ {{}}
    /\ epMu = None
    /\ resEndpoints = endpoints
    /\ oldEndpoints = endpoints
    /\ cc = "none"
    /\ lastSeen = None
    /\ conn = "idle"
    /\ balancer = None
    /\ pc = [p \in Callers |-> "idle"]
    /\ arg = [p \in Callers |-> endpoints]
    /\ build = "none"
    /\ buildSnap = endpoints
    /\ close = "open"
    /\ members \in Memberships
    /\ changes = 0
    /\ panicked = FALSE
    /\ raced = FALSE

-------------------------------------------------------------------------------
(* Client.SetEndpoints and RegattaManualResolver.updateState *)

\* Where a caller goes when its call returns.
Resting(p) == IF p = AutoSync THEN "idle" ELSE "done"

\* Variant: SetEndpoints does not wait for epMu.
StoreEndpoints_unlocked(p) ==
    /\ pc[p] = "set"
    /\ epMu' = p
    /\ endpoints' = arg[p]
    /\ resEndpoints' = arg[p]
    /\ oldEndpoints' = resEndpoints
    /\ pc' = [pc EXCEPT ![p] = "snapshot"]
    /\ raced' = (raced \/ build # "none")
    /\ UNCHANGED <<cc, lastSeen, connVars, arg, buildVars, close, clusterVars, panicked>>

\* epMu is taken and both lists are replaced.
StoreEndpoints(p) ==
    /\ pc[p] = "set"
    /\ epMu = None
    /\ epMu' = p
    /\ endpoints' = arg[p]
    /\ resEndpoints' = arg[p]
    /\ oldEndpoints' = resEndpoints
    /\ pc' = [pc EXCEPT ![p] = "snapshot"]
    /\ raced' = (raced \/ build # "none")
    /\ UNCHANGED <<cc, lastSeen, connVars, arg, buildVars, close, clusterVars, panicked>>

\* updateState copies the list, if gRPC has ever built the resolver; otherwise
\* there is nothing to do.
SnapshotEndpoints(p) ==
    /\ pc[p] = "snapshot"
    /\ pc' = [pc EXCEPT ![p] = IF cc = "none" THEN Resting(p) ELSE "push"]
    /\ epMu' = IF cc = "none" THEN None ELSE epMu
    /\ arg' = [arg EXCEPT ![p] = resEndpoints]
    /\ UNCHANGED <<endpoints, resolverVars, connVars, buildVars, close,
                   clusterVars, panicked, raced>>

\* What gRPC does with an update: only the resolver of a connection that is
\* neither idle nor closed is listened to.
Balanced(list) == IF cc = "live" /\ conn = "active" THEN list ELSE balancer

\* UpdateState, and epMu is released.
PushEndpoints(p) ==
    /\ pc[p] = "push"
    /\ lastSeen' = arg[p]
    /\ balancer' = Balanced(arg[p])
    /\ epMu' = None
    /\ pc' = [pc EXCEPT ![p] = Resting(p)]
    /\ raced' = (raced /\ ~ (build = "none" /\ cc = "live" /\ conn = "active"))
    /\ UNCHANGED <<endpoints, resEndpoints, oldEndpoints, cc, conn, arg, buildVars,
                   close, clusterVars, panicked>>

-------------------------------------------------------------------------------
(* Client.Sync, autoSync, and the calls of the application *)

StartSync(p) ==
    /\ pc[p] = "idle"
    /\ pc' = [pc EXCEPT ![p] = "listing"]
    /\ UNCHANGED <<endpoints, epMu, resolverVars, connVars, arg, buildVars, close,
                   clusterVars, panicked, raced>>

\* Variants: members without a name are taken too; names instead of URLs.
ClientURLs_unnamed(m) == {n \in Nodes : m[n] # "absent"}
ClientURLs_names(m) == {m[n] : n \in Nodes}

\* The URLs of the members that have a name.
ClientURLs(m) == {n \in Nodes : m[n] = "named"}

\* A member answers MemberList with the membership of that moment. The reply
\* is on its way, and then waits for epMu, while the membership may change.
MemberList(p) ==
    /\ pc[p] = "listing"
    /\ conn = "active"
    /\ balancer # None
    /\ \E n \in balancer : members[n] # "absent"
    /\ arg' = [arg EXCEPT ![p] = ClientURLs(members)]
    /\ pc' = [pc EXCEPT ![p] = "set"]
    /\ UNCHANGED <<endpoints, epMu, resolverVars, connVars, buildVars, close,
                   clusterVars, panicked, raced>>

\* It fails or times out: Sync returns the error, autoSync logs it.
MemberListFails(p) ==
    /\ pc[p] = "listing"
    /\ pc' = [pc EXCEPT ![p] = Resting(p)]
    /\ UNCHANGED <<endpoints, epMu, resolverVars, connVars, arg, buildVars, close,
                   clusterVars, panicked, raced>>

\* The autoSync goroutine: time.After fires, also when the client was closed
\* at the same time (select chooses freely), or the context ends the loop.
Tick == StartSync(AutoSync)

AutoExit_ignored == FALSE /\ UNCHANGED vars \* Variant: no case <-c.ctx.Done()

AutoExit ==
    /\ pc[AutoSync] = "idle"
    /\ close # "open"
    /\ pc' = [pc EXCEPT ![AutoSync] = "done"]
    /\ UNCHANGED <<endpoints, epMu, resolverVars, connVars, arg, buildVars, close,
                   clusterVars, panicked, raced>>

\* An application goroutine calls SetEndpoints.
UserSet(u) ==
    /\ pc[u] = "idle"
    /\ \E l \in UserLists : arg' = [arg EXCEPT ![u] = l]
    /\ pc' = [pc EXCEPT ![u] = "set"]
    /\ UNCHANGED <<endpoints, epMu, resolverVars, connVars, buildVars, close,
                   clusterVars, panicked, raced>>

\* It calls Status or Dial: dial reads endpoints[0], without epMu. Nothing is
\* claimed of the process after that index is out of range.
UserDial(u) ==
    /\ pc[u] = "idle"
    /\ pc' = [pc EXCEPT ![u] = "done"]
    /\ panicked' = (panicked \/ endpoints = {})
    /\ UNCHANGED <<endpoints, epMu, resolverVars, connVars, arg, buildVars, close,
                   clusterVars, raced>>

-------------------------------------------------------------------------------
(* gRPC *)

\* An RPC takes the connection out of its idle mode: the resolver is built.
\* manual.Resolver.Build sets CC and sends what was last sent, if anything.
StartBuild ==
    /\ conn = "idle"
    /\ conn' = "active"
    /\ cc' = "live"
    /\ balancer' = lastSeen
    /\ build' = "snapshot"
    /\ raced' = (raced \/ epMu # None)
    /\ UNCHANGED <<endpoints, epMu, resEndpoints, oldEndpoints, lastSeen, pc, arg,
                   buildSnap, close, clusterVars, panicked>>

\* updateState, called by Build: the list is read without a lock, so that the
\* read may miss a list that is being stored.
BuildSnapshot ==
    /\ build = "snapshot"
    /\ \/ buildSnap' = resEndpoints
       \/ epMu # None /\ buildSnap' = oldEndpoints
    /\ build' = "push"
    /\ UNCHANGED <<endpoints, epMu, resolverVars, connVars, pc, arg, close,
                   clusterVars, panicked, raced>>

BuildPush ==
    /\ build = "push"
    /\ lastSeen' = buildSnap
    /\ balancer' = Balanced(buildSnap)
    /\ build' = "none"
    /\ UNCHANGED <<endpoints, epMu, resEndpoints, oldEndpoints, cc, conn, pc, arg,
                   buildSnap, close, clusterVars, panicked, raced>>

\* The connection goes back to its idle mode when no RPC used it for long.
GoIdle ==
    /\ conn = "active"
    /\ build = "none"
    /\ \A p \in Callers : pc[p] # "listing"
    /\ conn' = "idle"
    /\ cc' = "stale"
    /\ balancer' = None
    /\ UNCHANGED <<endpoints, epMu, resEndpoints, oldEndpoints, lastSeen, pc, arg,
                   buildVars, close, clusterVars, panicked, raced>>

-------------------------------------------------------------------------------
(* Client.Close, and the cluster *)

CancelContext ==
    /\ close = "open"
    /\ close' = "canceled"
    /\ UNCHANGED <<endpoints, epMu, resolverVars, connVars, pc, arg, buildVars,
                   clusterVars, panicked, raced>>

CloseConn ==
    /\ close = "canceled"
    /\ close' = "disconnected"
    /\ conn' = "closed"
    /\ balancer' = None
    /\ UNCHANGED <<endpoints, epMu, resolverVars, pc, arg, buildVars, clusterVars,
                   panicked, raced>>

\* The deferred OnClientClosed hooks.
CallClosedHooks ==
    /\ close = "disconnected"
    /\ close' = "closed"
    /\ UNCHANGED <<endpoints, epMu, resolverVars, connVars, pc, arg, buildVars,
                   clusterVars, panicked, raced>>

ChangeMembers ==
    /\ changes < MaxChanges
    /\ \E m \in Memberships \ {members} : members' = m
    /\ changes' = changes + 1
    /\ UNCHANGED <<endpoints, epMu, resolverVars, connVars, pc, arg, buildVars, close,
                   panicked, raced>>

-------------------------------------------------------------------------------
SetStep(p) == StoreEndpoints(p) \/ SnapshotEndpoints(p) \/ PushEndpoints(p)
BuildStep == BuildSnapshot \/ BuildPush
CloseStep == CloseConn \/ CallClosedHooks

Next ==
    \/ \E p \in Callers : SetStep(p) \/ MemberList(p) \/ MemberListFails(p)
    \/ Tick \/ AutoExit
    \/ \E u \in Users : StartSync(u) \/ UserSet(u) \/ UserDial(u)
    \/ StartBuild \/ BuildStep \/ GoIdle
    \/ CancelContext \/ CloseStep \/ ChangeMembers

Spec == Init /\ [][Next]_vars

Listing == \E p \in Callers : pc[p] = "listing"

\* Goroutines run, epMu is handed to each that waits for it (sync.RWMutex does
\* not starve a writer), MemberList ends (autoSync gives it five seconds and
\* the client's context), a pending RPC makes gRPC build the resolver, and
\* Close runs to its end. Nothing forces the application to act.
Fairness ==
    /\ \A p \in Callers : WF_vars(SetStep(p)) /\ SF_vars(StoreEndpoints(p))
    /\ WF_vars(MemberList(AutoSync) \/ MemberListFails(AutoSync))
    /\ WF_vars(Tick \/ AutoExit)
    /\ SF_vars(AutoExit)
    /\ WF_vars(Listing /\ StartBuild)
    /\ WF_vars(BuildStep)
    /\ WF_vars(CloseStep)

FairSpec == Spec /\ Fairness

-------------------------------------------------------------------------------
(* Safety *)

Settled == epMu = None /\ build = "none" /\ conn = "active"

\* Concurrent SetEndpoints, Sync and autoSync leave the client and the balancer
\* with the same list, however the connection goes idle and
\* is rebuilt in between, unless Build overlapped one of them.
AgreeUnlessRaced == Settled /\ ~ raced => balancer = endpoints

\* The same without the exception: "Clients are safe for concurrent use by
\* multiple goroutines" (doc.go:40), so that the list Endpoints() reports is
\* the list that RPCs are balanced over.
BalancerFollowsEndpoints == Settled => balancer = endpoints

\* "at least one Endpoint is required" (client.go:358) of a dial: Status does
\* not index an empty list, whatever Sync has stored before.
DialHasEndpoint == ~ panicked

(* Liveness *)

\* Close ends the autoSync goroutine (doc.go:26-27: without Close "the
\* connection will have leaky goroutines").
CloseEndsAutoSync == (close # "open") ~> (pc[AutoSync] = "done")

\* As long as the MemberList of autoSync is answered again and again, client
\* and balancer come to agree with the members and stay so, over stale replies
\* of earlier Syncs, lists the application sets meanwhile and races with Build.
AutoSyncConverges ==
    []<><<MemberList(AutoSync)>>_vars =>
        <>[](/\ endpoints = {n \in Nodes : members[n] = "named"}
             /\ Settled => balancer = endpoints)
===============================================================================
