-------------------------- MODULE EndpointSync_proofs --------------------------
(***************************************************************************)
(* Proofs about EndpointSync, for every set of nodes, callers and          *)
(* memberships.  The balancer follows Client.endpoints because epMu spans  *)
(* the store, the snapshot and the push of one SetEndpoints, and because   *)
(* Build, which takes no lock, repeats the list it finds: as long as the   *)
(* two do not overlap, the last push carries the last list stored.         *)
(***************************************************************************)
EXTENDS EndpointSync, TLAPS

\* epMu is held from the store to the push.
MutexInv ==
    /\ \A p \in Callers : pc[p] \in {"snapshot", "push"} <=> epMu = p
    /\ \A p \in Callers : pc[p] = "push" => arg[p] = resEndpoints /\ cc # "none"

\* Client and resolver have one list, and gRPC listens while it is active.
ConnInv ==
    /\ resEndpoints = endpoints
    /\ conn = "active" => cc = "live"
    /\ build # "none" => conn # "idle"

\* A Build that overlapped nothing repeats the list it found, and after the
\* last push the balancer has the last list.
FollowInv ==
    /\ ~ raced /\ build # "none" => epMu = None
    /\ ~ raced /\ build = "push" => buildSnap = resEndpoints
    /\ ~ raced /\ Settled => balancer = resEndpoints

Inv == TypeOK /\ MutexInv /\ ConnInv /\ FollowInv

LEMMA CallerFacts == None \notin Callers /\ AutoSync \in Callers /\ Users \subseteq Callers
BY EndpointAssumption DEF Callers

LEMMA InitInv == Init => Inv
<1> SUFFICES ASSUME Init PROVE Inv
  OBVIOUS
<1> USE EndpointAssumption, CallerFacts
<1>1. TypeOK
  <2>1. endpoints \in Lists
    BY DEF Init, Lists
  <2>2. pc \in [Callers -> {"idle", "listing", "set", "snapshot", "push", "done"}]
    BY DEF Init
  <2>3. arg \in [Callers -> Lists]
    BY <2>1 DEF Init
  <2>4. changes \in 0..MaxChanges
    BY DEF Init
  <2> QED
    BY <2>1, <2>2, <2>3, <2>4 DEF Init, TypeOK
<1>2. MutexInv
  BY DEF Init, MutexInv
<1>3. ConnInv /\ FollowInv
  BY DEF Init, ConnInv, FollowInv, Settled
<1> QED
  BY <1>1, <1>2, <1>3 DEF Inv

\* One caller moves to a resting, listing or waiting point, the lists, epMu
\* and gRPC stay as they are.
LEMMA CallerStep ==
    ASSUME Inv, NEW p \in Callers, pc[p] \notin {"snapshot", "push"},
           NEW q \in {"idle", "listing", "set", "done"}, NEW l \in Lists,
           pc' = [pc EXCEPT ![p] = q],
           arg' = arg \/ arg' = [arg EXCEPT ![p] = l],
           panicked' \in BOOLEAN,
           UNCHANGED <<endpoints, epMu, resolverVars, connVars, buildVars, close,
                       clusterVars, raced>>
    PROVE  Inv'
<1> USE DEF resolverVars, connVars, buildVars, clusterVars
<1>1. TypeOK'
  BY DEF Inv, TypeOK
<1>2. MutexInv'
  BY DEF Inv, TypeOK, MutexInv
<1>3. ConnInv' /\ FollowInv'
  BY DEF Inv, ConnInv, FollowInv, Settled
<1> QED
  BY <1>1, <1>2, <1>3 DEF Inv

\* Steps of gRPC, Close and the cluster: no caller moves.
LEMMA OtherStep ==
    ASSUME Inv, UNCHANGED <<endpoints, epMu, resEndpoints, oldEndpoints, pc, arg>>,
           cc' = cc \/ cc' \in {"live", "stale"},
           TypeOK', ConnInv', FollowInv'
    PROVE  Inv'
BY DEF Inv, MutexInv

LEMMA NextInv == Inv /\ [Next]_vars => Inv'
<1> SUFFICES ASSUME Inv, [Next]_vars PROVE Inv'
  OBVIOUS
<1> USE EndpointAssumption, CallerFacts DEF resolverVars, connVars, buildVars, clusterVars
<1>1. ASSUME NEW p \in Callers, StoreEndpoints(p) PROVE Inv'
  <2>1. TypeOK'
    BY <1>1 DEF StoreEndpoints, Inv, TypeOK, Lists
  <2>2. MutexInv'
    BY <1>1 DEF StoreEndpoints, Inv, TypeOK, MutexInv
  <2>3. ConnInv' /\ FollowInv'
    BY <1>1 DEF StoreEndpoints, Inv, ConnInv, FollowInv, Settled
  <2> QED
    BY <2>1, <2>2, <2>3 DEF Inv
<1>2. ASSUME NEW p \in Callers, SnapshotEndpoints(p) PROVE Inv'
  <2>1. epMu = p
    BY <1>2 DEF SnapshotEndpoints, Inv, MutexInv
  <2>2. TypeOK'
    BY <1>2 DEF SnapshotEndpoints, Inv, TypeOK, Lists, Resting
  <2>3. MutexInv'
    BY <1>2, <2>1 DEF SnapshotEndpoints, Inv, TypeOK, MutexInv, Resting
  <2>4. ConnInv' /\ FollowInv'
    BY <1>2, <2>1 DEF SnapshotEndpoints, Inv, ConnInv, FollowInv, Settled
  <2> QED
    BY <2>2, <2>3, <2>4 DEF Inv
<1>3. ASSUME NEW p \in Callers, PushEndpoints(p) PROVE Inv'
  <2>1. epMu = p /\ arg[p] = resEndpoints /\ cc # "none"
    BY <1>3 DEF PushEndpoints, Inv, MutexInv
  <2>2. TypeOK'
    BY <1>3 DEF PushEndpoints, Inv, TypeOK, Resting, Balanced
  <2>3. MutexInv'
    BY <1>3, <2>1 DEF PushEndpoints, Inv, TypeOK, MutexInv, Resting
  <2>4. ConnInv' /\ FollowInv'
    BY <1>3, <2>1 DEF PushEndpoints, Inv, ConnInv, FollowInv, Settled, Balanced
  <2> QED
    BY <2>2, <2>3, <2>4 DEF Inv
<1>4. ASSUME NEW p \in Callers, StartSync(p) \/ MemberListFails(p) PROVE Inv'
  <2>1. PICK q \in {"idle", "listing", "done"} : pc' = [pc EXCEPT ![p] = q]
    BY <1>4 DEF StartSync, MemberListFails, Resting
  <2>2. panicked' \in BOOLEAN /\ arg[p] \in Lists
    BY <1>4 DEF StartSync, MemberListFails, Inv, TypeOK
  <2> QED
    BY <1>4, <2>1, <2>2, CallerStep DEF StartSync, MemberListFails
<1>5. ASSUME NEW p \in Callers, MemberList(p) PROVE Inv'
  <2>1. ClientURLs(members) \in Lists
    BY DEF ClientURLs, Lists
  <2>2. panicked' \in BOOLEAN
    BY <1>5 DEF MemberList, Inv, TypeOK
  <2> QED
    BY <1>5, <2>1, <2>2, CallerStep DEF MemberList
<1>6. CASE AutoExit
  <2>1. panicked' \in BOOLEAN /\ arg[AutoSync] \in Lists
    BY <1>6 DEF AutoExit, Inv, TypeOK
  <2> QED
    BY <1>6, <2>1, CallerStep DEF AutoExit
<1>7. ASSUME NEW u \in Users, UserSet(u) PROVE Inv'
  <2>1. PICK l \in UserLists : arg' = [arg EXCEPT ![u] = l]
    BY <1>7 DEF UserSet
  <2>2. panicked' \in BOOLEAN /\ l \in Lists
    BY <1>7, <2>1 DEF UserSet, Inv, TypeOK, Lists
  <2> QED
    BY <1>7, <2>1, <2>2, CallerStep DEF UserSet
<1>8. ASSUME NEW u \in Users, UserDial(u) PROVE Inv'
  <2>1. panicked' \in BOOLEAN /\ arg[u] \in Lists
    BY <1>8 DEF UserDial, Inv, TypeOK
  <2> QED
    BY <1>8, <2>1, CallerStep DEF UserDial
<1>9. CASE StartBuild
  <2>1. TypeOK'
    BY <1>9 DEF StartBuild, Inv, TypeOK
  <2>2. ConnInv' /\ FollowInv'
    BY <1>9 DEF StartBuild, Inv, ConnInv, FollowInv, Settled
  <2> QED
    BY <1>9, <2>1, <2>2, OtherStep DEF StartBuild
<1>10. CASE BuildSnapshot
  <2>1. TypeOK'
    BY <1>10 DEF BuildSnapshot, Inv, TypeOK
  <2>2. ConnInv' /\ FollowInv'
    BY <1>10 DEF BuildSnapshot, Inv, ConnInv, FollowInv, Settled
  <2> QED
    BY <1>10, <2>1, <2>2, OtherStep DEF BuildSnapshot
<1>11. CASE BuildPush
  <2>1. TypeOK'
    BY <1>11 DEF BuildPush, Inv, TypeOK, Balanced
  <2>2. ConnInv' /\ FollowInv'
    BY <1>11 DEF BuildPush, Inv, ConnInv, FollowInv, Settled, Balanced
  <2> QED
    BY <1>11, <2>1, <2>2, OtherStep DEF BuildPush
<1>12. CASE GoIdle
  <2>1. TypeOK'
    BY <1>12 DEF GoIdle, Inv, TypeOK
  <2>2. ConnInv' /\ FollowInv'
    BY <1>12 DEF GoIdle, Inv, ConnInv, FollowInv, Settled
  <2> QED
    BY <1>12, <2>1, <2>2, OtherStep DEF GoIdle
<1>13. CASE CancelContext \/ CloseStep \/ ChangeMembers
  <2>1. TypeOK'
    BY <1>13 DEF CancelContext, CloseStep, CloseConn, CallClosedHooks, ChangeMembers,
                 Inv, TypeOK
  <2>2. ConnInv' /\ FollowInv'
    BY <1>13 DEF CancelContext, CloseStep, CloseConn, CallClosedHooks, ChangeMembers,
                 Inv, ConnInv, FollowInv, Settled
  <2> QED
    BY <1>13, <2>1, <2>2, OtherStep
    DEF CancelContext, CloseStep, CloseConn, CallClosedHooks, ChangeMembers
<1>14. CASE UNCHANGED vars
  BY <1>14 DEF vars, Inv, TypeOK, MutexInv, ConnInv, FollowInv, Settled
<1> QED
  BY <1>1, <1>2, <1>3, <1>4, <1>5, <1>6, <1>7, <1>8, <1>9, <1>10, <1>11, <1>12, <1>13, <1>14
  DEF Next, SetStep, Tick, BuildStep

\* Inv holds in every reachable state, for every choice of the constants.
THEOREM Invariance == Spec => []Inv
BY InitInv, NextInv, PTL DEF Spec

\* The balancer and Endpoints() agree unless Build (resolver.go:30-42), which
\* takes no lock, overlapped a SetEndpoints (client.go:127-133).
THEOREM Agreement == Spec => []AgreeUnlessRaced
<1>1. Inv => AgreeUnlessRaced
  BY DEF Inv, ConnInv, FollowInv, AgreeUnlessRaced
<1> QED
  BY <1>1, Invariance, PTL

\* Every goroutine of SetEndpoints, Sync and Build stands at one of its steps and
\* carries a list of endpoints (client.go:116-191, resolver.go:26-55).
THEOREM TypeCorrect == Spec => []TypeOK
<1>1. Inv => TypeOK
  BY DEF Inv
<1> QED
  BY <1>1, Invariance, PTL
\* An empty list comes from a member list without names, or from the application.
NoEmptyList ==
    /\ \A m \in Memberships : \E n \in Nodes : m[n] = "named"
    /\ {} \notin UserLists

\* No list that is stored or about to be is empty.
ListInv == endpoints # {} /\ (\A p \in Callers : pc[p] = "set" => arg[p] # {}) /\ ~ panicked

LEMMA ListInvStep ==
    ASSUME NoEmptyList, Inv, ListInv, [Next]_vars
    PROVE  ListInv'
<1> USE CallerFacts DEF ListInv, Inv, TypeOK, resolverVars, connVars, buildVars, clusterVars
<1>1. ASSUME NEW p \in Callers, SetStep(p) PROVE ListInv'
  BY <1>1 DEF SetStep, StoreEndpoints, SnapshotEndpoints, PushEndpoints, Resting
<1>2. ASSUME NEW p \in Callers, MemberList(p) PROVE ListInv'
  <2>1. ClientURLs(members) # {}
    BY DEF ClientURLs, NoEmptyList
  <2> QED
    BY <1>2, <2>1 DEF MemberList
<1>3. ASSUME NEW p \in Callers, MemberListFails(p) \/ StartSync(p) PROVE ListInv'
  BY <1>3 DEF MemberListFails, StartSync, Resting
<1>4. ASSUME NEW u \in Users, UserSet(u) PROVE ListInv'
  <2>1. PICK l \in UserLists : arg' = [arg EXCEPT ![u] = l]
    BY <1>4 DEF UserSet
  <2>2. l # {}
    BY DEF NoEmptyList
  <2> QED
    BY <1>4, <2>1, <2>2 DEF UserSet
<1>5. ASSUME NEW u \in Users, UserDial(u) PROVE ListInv'
  BY <1>5 DEF UserDial
<1>6. CASE AutoExit
  BY <1>6 DEF AutoExit
<1>7. CASE StartBuild \/ BuildStep \/ GoIdle
  BY <1>7 DEF StartBuild, BuildStep, BuildSnapshot, BuildPush, GoIdle
<1>8. CASE CancelContext \/ CloseStep \/ ChangeMembers
  BY <1>8 DEF CancelContext, CloseStep, CloseConn, CallClosedHooks, ChangeMembers
<1>9. CASE UNCHANGED vars
  BY <1>9 DEF vars
<1> QED
  BY <1>1, <1>2, <1>3, <1>4, <1>5, <1>6, <1>7, <1>8, <1>9 DEF Next, Tick

\* What the violation of DialHasEndpoint takes: as long as some member of the
\* cluster has a name and the application sets no empty list, dial
\* (client.go:358) has an endpoint, however Sync, autoSync, SetEndpoints and Status
\* interleave (client.go:116-191).
THEOREM DialUnlessNoNames ==
    ASSUME NoEmptyList
    PROVE  Spec => []DialHasEndpoint
<1>1. Init => ListInv
  BY DEF Init, ListInv
<1>2. ListInv => DialHasEndpoint
  BY DEF ListInv, DialHasEndpoint
<1>3. Inv /\ ListInv /\ [Next]_vars => ListInv'
  BY ListInvStep
<1> QED
  BY <1>1, <1>2, <1>3, Invariance, PTL DEF Spec
===============================================================================
