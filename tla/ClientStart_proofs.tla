-------------------------- MODULE ClientStart_proofs --------------------------
(***************************************************************************)
(* Proofs about ClientStart, for every number of endpoints and every       *)
(* version their members may run. The inductive invariant follows the      *)
(* phases of newClient: what the goroutines of checkVersion may be doing   *)
(* in each, what newClient has read from them, and why it stopped reading. *)
(***************************************************************************)
EXTENDS ClientStart, TLAPS

Before == {"new", "dial", "check"}
After == {"disconnect", "notify", "running", "closed", "failed"}

\* No goroutine before the check, none at work after it; an ad hoc connection
\* belongs to a goroutine that is calling.
WorkerInv ==
    /\ phase \in Before => worker = [e \in Endpoints |-> "off"]
    /\ phase \in After => \A e \in Endpoints : worker[e] \in {"off", "sent", "read"}
    /\ dialed = {e \in Endpoints : worker[e] = "call"}

\* Only successes are read before the loop ends; it ends with a success when
\* all have been read.
ReadInv ==
    /\ phase = "receive" =>
        \A e \in Endpoints : worker[e] = "read" => verdict[e] = "current"
    /\ phase \in {"cancel", "wait"} /\ err = "current" =>
        \A e \in Endpoints : verdict[e] = "current" /\ worker[e] = "read"
    /\ phase \notin {"running", "closed", "disconnect", "notify"} => closes = 0
    /\ (cfg.reject /\ (phase \in {"running", "closed"} \/ closes > 0)) =>
        \A e \in Endpoints : verdict[e] = "current"

\* The check is not cancelled as long as its reports are read.
CancelInv ==
    /\ phase \in Before => checkCtx = "none"
    /\ phase \in {"receive", "cancel"} =>
        /\ checkCtx \in {"alive", "expired"}
        /\ \A e \in Endpoints : verdict[e] # "canceled"
    /\ phase \in Before => \A e \in Endpoints : verdict[e] = "none"
    /\ err # "canceled"

ConnInv ==
    /\ phase \in {"new", "dial"} => conn = "none"
    /\ phase \in {"notify", "closed", "failed"} => conn # "open"
    /\ phase = "check" => cfg.reject

Inv == TypeOK /\ WorkerInv /\ ReadInv /\ CancelInv /\ ConnInv

LEMMA InitInv == Init => Inv
  BY StartAssumption
  DEF Init, Inv, TypeOK, WorkerInv, ReadInv, CancelInv, ConnInv, Before, After,
      Phases, Verdicts, Configs

\* The verdict of a version is one of those that a goroutine may report.
LEMMA JudgeType == \A v : Judge(v) \in {"old", "syntax", "current"}
  BY DEF Judge

\* A goroutine that was calling or dialling comes to a verdict, which is not a
\* cancellation while reports are read.
LEMMA ConcludeInv ==
  ASSUME Inv, NEW e \in Endpoints, worker[e] \in {"dial", "call"},
         NEW v \in Verdicts, Conclude(e, v),
         v = "canceled" => checkCtx = "canceled"
  PROVE  Inv'
<1>1. phase \notin Before \cup After
  BY DEF Inv, WorkerInv
<1>2. phase \in {"receive", "cancel", "wait"}
  BY <1>1 DEF Inv, TypeOK, Phases, Before, After
<1>3. TypeOK'
  BY DEF Conclude, Inv, TypeOK
<1>4. WorkerInv'
  BY <1>1 DEF Conclude, Inv, TypeOK, WorkerInv
<1>5. ReadInv'
  BY <1>2 DEF Conclude, Inv, TypeOK, ReadInv, WorkerInv
<1>6. CancelInv' /\ ConnInv'
  BY <1>1, <1>2 DEF Conclude, Inv, TypeOK, CancelInv, ConnInv
<1> QED
  BY <1>3, <1>4, <1>5, <1>6 DEF Inv

LEMMA NextInv == Inv /\ [Next]_vars => Inv'
<1> SUFFICES ASSUME Inv, [Next]_vars PROVE Inv'
  OBVIOUS
<1> USE StartAssumption DEF Inv, TypeOK, WorkerInv, ReadInv, CancelInv, ConnInv,
      Before, After, Phases, Verdicts, Configs, checkVars
<1>1. CASE RefuseConfig
  BY <1>1 DEF RefuseConfig
<1>2. CASE CallNewHooks
  <2>1. TypeOK'
    BY <1>2 DEF CallNewHooks
  <2>2. (WorkerInv /\ ReadInv)'
    BY <1>2 DEF CallNewHooks
  <2>3. (CancelInv /\ ConnInv)'
    BY <1>2 DEF CallNewHooks
  <2> QED BY <2>1, <2>2, <2>3
<1>3. CASE DialWithBalancer
  BY <1>3 DEF DialWithBalancer
<1>4. CASE DialFails
  BY <1>4 DEF DialFails
<1>5. CASE StartCheck
  BY <1>5 DEF StartCheck
<1>6. ASSUME NEW e \in Endpoints, DialEndpoint(e)
      PROVE  Inv'
  <2>1. phase \in {"receive", "cancel", "wait"}
    BY <1>6 DEF DialEndpoint
  <2> QED
    BY <1>6, <2>1 DEF DialEndpoint
<1>7. ASSUME NEW e \in Endpoints, DialEndpointFails(e) \/ Asked(e)
      PROVE  Inv'
  BY <1>7, ConcludeInv, JudgeType
  DEF DialEndpointFails, Asked, StatusAnswered, StatusFails
<1>8. ASSUME NEW e \in Endpoints, Report(e)
      PROVE  Inv'
  <2>1. phase \in {"receive", "cancel", "wait"}
    BY <1>8 DEF Report
  <2> QED
    BY <1>8, <2>1 DEF Report
<1>9. ASSUME NEW e \in Endpoints, Receive(e)
      PROVE  Inv'
  <2>1. phase' \in {"receive", "cancel"} /\ err' = verdict[e]
    BY <1>9 DEF Receive
  <2>2. CASE verdict[e] = "current" /\ AllRead'
    BY <1>9, <2>2 DEF Receive, AllRead
  <2>3. CASE verdict[e] = "current" /\ ~ AllRead'
    BY <1>9, <2>3 DEF Receive, AllRead
  <2>4. CASE verdict[e] # "current"
    BY <1>9, <2>4 DEF Receive
  <2> QED
    BY <2>2, <2>3, <2>4
<1>10. CASE CancelCheck
  BY <1>10 DEF CancelCheck
<1>11. CASE WaitWorkers
  BY <1>11 DEF WaitWorkers
<1>12. CASE ExpireCheck
  BY <1>12 DEF ExpireCheck
<1>13. CASE Close
  BY <1>13 DEF Close
<1>14. CASE CloseStep
  <2>1. CASE Disconnect
    BY <1>14, <2>1 DEF Disconnect
  <2>2. CASE CallClosedHooks
    <3>1. PICK b \in BOOLEAN : hook' = [hook EXCEPT !.closed = b]
      BY <2>2 DEF CallClosedHooks
    <3>2. hook' \in [new : BOOLEAN, closed : BOOLEAN]
      BY <3>1
    <3>3. phase' = (IF closes > 0 THEN "closed" ELSE "failed")
      BY <2>2 DEF CallClosedHooks
    <3> QED
      BY <2>2, <3>2, <3>3 DEF CallClosedHooks
  <2> QED
    BY <1>14, <2>1, <2>2 DEF CloseStep
<1>15. CASE UNCHANGED vars
  BY <1>15 DEF vars
<1> QED
  BY <1>1, <1>2, <1>3, <1>4, <1>5, <1>6, <1>7, <1>8, <1>9, <1>10, <1>11, <1>12,
     <1>13, <1>14, <1>15
  DEF Next, StartStep, CheckStep, WorkerStep

\* Inv holds in every reachable state, for every set of endpoints and versions.
THEOREM Invariance == Spec => []Inv
  BY InitInv, NextInv, PTL DEF Spec

\* However many endpoints there are: when New returns, every goroutine of
\* checkVersion (client.go:416-442) has ended, and so have the connections that
\* Status made for single endpoints (cluster.go:80-91).
THEOREM NothingLeft == Spec => []NothingLeftBehind
<1>1. Inv => NothingLeftBehind
  BY DEF Inv, WorkerInv, ConnInv, NothingLeftBehind, Returned, After
<1> QED
  BY <1>1, Invariance, PTL

\* A client that checked the versions of its cluster was given a current one
\* for every endpoint: the loop of checkVersion (client.go:445-449) does not
\* end early with a success.
THEOREM AcceptedOnAllAnswers == Spec => []AcceptedWhenAllCurrent
<1>1. Inv => AcceptedWhenAllCurrent
  BY DEF Inv, ReadInv, AcceptedWhenAllCurrent
<1> QED
  BY <1>1, Invariance, PTL

\* The error that New returns is not the cancellation that checkVersion causes
\* itself (client.go:450).
THEOREM CauseReported == Spec => []ErrorIsTheCause
<1>1. Inv => ErrorIsTheCause
  BY DEF Inv, CancelInv, ErrorIsTheCause
<1> QED
  BY <1>1, Invariance, PTL

\* newClient (client.go:295-386) and each goroutine of checkVersion stand at one
\* of their steps, with a verdict that they can reach, for every set of endpoints.
THEOREM TypeCorrect == Spec => []TypeOK
<1>1. Inv => TypeOK
  BY DEF Inv
<1> QED
  BY <1>1, Invariance, PTL

\* Close calls a hook that implements all interfaces and is listed by itself,
\* and no other one.
HookInv ==
    /\ hook \in [new : BOOLEAN, closed : BOOLEAN]
    /\ hook.closed => cfg.kind = "plain"
    /\ phase = "closed" /\ cfg.kind = "plain" => hook.closed

\* A success came from some member.
SourceInv ==
    \A e \in Endpoints : verdict[e] = "current" =>
        \E m \in Endpoints : Judge(version[m]) = "current"

LEMMA ConcludeSource ==
    ASSUME Inv, SourceInv, NEW e \in Endpoints, NEW v, Conclude(e, v),
           v = "current" => \E m \in Endpoints : Judge(version[m]) = "current"
    PROVE  SourceInv'
BY DEF Conclude, Inv, TypeOK, SourceInv

LEMMA HookAndSourceStep ==
    ASSUME Inv, HookInv, SourceInv, [Next]_vars
    PROVE  HookInv' /\ SourceInv'
<1> USE DEF checkVars
<1>1. CASE RefuseConfig \/ DialWithBalancer \/ DialFails \/ StartCheck \/ CancelCheck
           \/ WaitWorkers \/ Close \/ Disconnect \/ ExpireCheck
  BY <1>1 DEF RefuseConfig, DialWithBalancer, DialFails, StartCheck, CancelCheck,
     WaitWorkers, Close, Disconnect, ExpireCheck, Inv, TypeOK, ReadInv, HookInv, SourceInv
<1>2. CASE CallNewHooks
  <2>1. hook' = [new |-> TRUE, closed |-> hook.closed]
    BY <1>2 DEF CallNewHooks, HookInv
  <2> QED
    BY <1>2, <2>1 DEF CallNewHooks, HookInv, SourceInv
<1>3. CASE CallClosedHooks
  <2>1. hook' = [new |-> hook.new, closed |-> hook.closed \/ cfg.kind = "plain"]
    BY <1>3 DEF CallClosedHooks, HookInv
  <2> QED
    BY <1>3, <2>1 DEF CallClosedHooks, HookInv, SourceInv
<1>4. ASSUME NEW e \in Endpoints, Receive(e) \/ DialEndpoint(e) \/ Report(e)
      PROVE  HookInv' /\ SourceInv'
  BY <1>4 DEF Receive, DialEndpoint, Report, HookInv, SourceInv
<1>5. ASSUME NEW e \in Endpoints, DialEndpointFails(e) \/ Asked(e)
      PROVE  HookInv' /\ SourceInv'
  <2>1. PICK v : Conclude(e, v) /\
                 (v = "current" => \E m \in Endpoints : Judge(version[m]) = "current")
    <3>1. CASE DialEndpointFails(e)
      BY <3>1 DEF DialEndpointFails
    <3>2. CASE StatusAnswered(e)
      BY <3>2 DEF StatusAnswered
    <3>3. CASE StatusFails(e)
      BY <3>3 DEF StatusFails, Inv, TypeOK
    <3> QED
      BY <1>5, <3>1, <3>2, <3>3 DEF Asked
  <2>2. HookInv'
    BY <2>1 DEF Conclude, HookInv
  <2> QED
    BY <2>1, <2>2, ConcludeSource
<1>6. CASE UNCHANGED vars
  BY <1>6 DEF vars, HookInv, SourceInv
<1> QED
  BY <1>1, <1>2, <1>3, <1>4, <1>5, <1>6
  DEF Next, StartStep, CheckStep, CloseStep, WorkerStep

LEMMA HookAndSource == Spec => [](HookInv /\ SourceInv)
<1>1. Init => HookInv /\ SourceInv
  BY DEF Init, HookInv, SourceInv
<1>2. Inv /\ HookInv /\ SourceInv /\ [Next]_vars => HookInv' /\ SourceInv'
  BY HookAndSourceStep
<1> QED
  BY <1>1, <1>2, Invariance, PTL DEF Spec

\* What the violation of ClosedHookIsCalled takes: a hook that is listed by itself
\* and has all methods of hooks.go is told of the end of every client; one within
\* a list of hooks, or with another name for its method, never is (Close,
\* client.go:98-109; callHooks, hooks.go:35-41).
THEOREM OnlyPlainHooksHear ==
    Spec => [](/\ cfg.kind = "plain" => ClosedHookIsCalled
               /\ cfg.kind # "plain" => ~ hook.closed)
<1>1. HookInv => /\ cfg.kind = "plain" => ClosedHookIsCalled
                 /\ cfg.kind # "plain" => ~ hook.closed
  BY DEF HookInv, ClosedHookIsCalled
<1> QED
  BY <1>1, HookAndSource, PTL

\* An accepted cluster has a member that is current.
SomeMemberIsCurrent ==
    phase \in {"running", "closed"} /\ cfg.reject =>
        \E m \in Endpoints : Judge(version[m]) = "current"

\* What RejectOldCluster is worth although Status asks the members that the
\* balancer picks and not the endpoint it is called with (client.go:416-455): an
\* accepted cluster has a member that is current, and AcceptedClusterIsCurrent
\* holds if the client was given one endpoint.
THEOREM AcceptedClusterHasCurrent ==
    Spec => [](/\ SomeMemberIsCurrent
               /\ (\E e \in Endpoints : Endpoints = {e}) => AcceptedClusterIsCurrent)
<1>1. Inv /\ SourceInv => SomeMemberIsCurrent
  BY StartAssumption DEF Inv, ReadInv, SourceInv, SomeMemberIsCurrent
<1>2. SomeMemberIsCurrent =>
        ((\E e \in Endpoints : Endpoints = {e}) => AcceptedClusterIsCurrent)
  BY DEF SomeMemberIsCurrent, AcceptedClusterIsCurrent
<1> QED
  BY <1>1, <1>2, HookAndSource, Invariance, PTL
===============================================================================
