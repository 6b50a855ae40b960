-------------------------- MODULE UnaryRetry_proofs --------------------------
(***************************************************************************)
(* Proofs about UnaryRetry, for every set of calls, every number of        *)
(* attempts and all endpoint counts.  What the retry loop knows about a    *)
(* mutation is not visible in the properties themselves: an attempt that   *)
(* was passed over never left the client, unless a server answered it with *)
(* a context code.  Inv adds that fact and the shape of the loop.          *)
(***************************************************************************)
EXTENDS UnaryRetry, TLAPS

Running(c) == phase[c] \in {"idle", "wait", "backoff", "invoke", "inflight"}

\* Attempt a did not leave the client, or a server answered it with a context
\* code and the loop went on.
Harmless(c, a) ==
    req[c][a] = "unsent" \/ answer[c][a].code \in ContextCodes \cap ServerCodes

\* The loop variable stays in range while the loop runs, nothing is returned
\* before it ends, and attempts that are still to come were not sent.
LoopInv ==
    \A c \in Calls :
        /\ Running(c) => attempt[c] \in Attempts /\ err[c] = None
        /\ \A a \in Attempts :
            \/ a < attempt[c]
            \/ a = attempt[c] /\ phase[c] \in {"inflight", "returned", "done"}
            \/ req[c][a] = "unsent"

\* Every attempt of a mutation that was retried is harmless.
RetryInv ==
    \A c \in Mutations : \A a \in Attempts : a < attempt[c] => Harmless(c, a)

\* A mutation fails with "no transport" only after harmless attempts, and the
\* last of them did not leave.
NoTransportInv ==
    \A c \in Mutations :
        err[c].desc = "noTransport" =>
            \A a \in Attempts :
                req[c][a] = "unsent" \/ (a < attempt[c] /\ Harmless(c, a))

\* Success is reported only for a request that a server executed.
OkInv == \A c \in Calls : err[c] = OK => Effects(c) # {}

Inv == TypeOK /\ LoopInv /\ RetryInv /\ NoTransportInv /\ OkInv

-------------------------------------------------------------------------------
\* The initial states of the client: no call started, nothing sent.
LEMMA InitInv == Init => Inv
<1> SUFFICES ASSUME Init PROVE Inv
  OBVIOUS
<1> USE RetryAssumption DEF Init
<1>1. TypeOK
  <2>1. phase \in [Calls -> Phases] /\ ctx \in [Calls -> {"alive"} \cup ContextCodes]
    BY DEF Phases
  <2>5. attempt \in [Calls -> 0..Max] /\ burst \in [Calls -> Nat]
    OBVIOUS
  <2>6. endpoints \in EndpointCounts /\ closed \in BOOLEAN
    OBVIOUS
  <2>2. err \in [Calls -> Errors \cup {OK, None}]
    OBVIOUS
  <2>3. req \in [Calls -> [Attempts -> {"unsent", "sent", "executed", "lost"}]]
    OBVIOUS
  <2>4. answer \in [Calls -> [Attempts -> Errors \cup {OK, None}]]
    OBVIOUS
  <2> QED
    BY <2>1, <2>2, <2>3, <2>4, <2>5, <2>6 DEF TypeOK
<1>2. LoopInv
  BY DEF LoopInv, Running, Attempts, None
<1>3. RetryInv
  BY DEF RetryInv, Mutations, Harmless
<1>4. NoTransportInv
  BY DEF NoTransportInv, Mutations, None
<1>5. OkInv
  BY DEF OkInv, None, OK
<1> QED
  BY <1>1, <1>2, <1>3, <1>4, <1>5 DEF Inv

\* What gRPC may hand to the loop: an error of an attempt that did not leave
\* the client, or the outcome of one that did.
Received(c, e) ==
    \/ phase[c] = "invoke" /\ e \in Errors
    \/ /\ phase[c] = "inflight"
       /\ e \in Errors \cup {OK}
       /\ e.desc = "other"
       /\ e.code \in ContextCodes => e.code \in ServerCodes \/ ctx[c] # "alive"
       /\ e = OK => req[c][attempt[c]] = "executed"

\* The loop body after the invoker returned (interceptor.go:38-56) keeps Inv.
LEMMA ReceiveInv ==
    ASSUME Inv, NEW c \in Calls, NEW e, Received(c, e), Receive(c, e)
    PROVE  Inv'
<1> USE RetryAssumption
<1>0. e \in Errors \cup {OK} /\ Running(c)
  BY DEF Received, Running
<1>1. attempt[c] \in Attempts /\ err[c] = None
  BY <1>0 DEF Inv, LoopInv
<1>2. TypeOK'
  <2>1. /\ phase' \in [Calls -> Phases]
        /\ ctx' \in [Calls -> {"alive"} \cup ContextCodes]
        /\ endpoints' \in EndpointCounts
        /\ closed' \in BOOLEAN
        /\ burst' \in [Calls -> Nat]
        /\ req' \in [Calls -> [Attempts -> {"unsent", "sent", "executed", "lost"}]]
    BY DEF Inv, TypeOK, Receive, Phases
  <2>2. attempt' \in [Calls -> 0..Max]
    BY <1>1 DEF Inv, TypeOK, Receive, NextAttempt, AttemptsLeft, Attempts
  <2>3. err' \in [Calls -> Errors \cup {OK, None}]
    BY <1>0 DEF Inv, TypeOK, Receive
  <2>4. answer' \in [Calls -> [Attempts -> Errors \cup {OK, None}]]
    BY <1>0, <1>1 DEF Inv, TypeOK, Receive
  <2> QED
    BY <2>1, <2>2, <2>3, <2>4 DEF TypeOK
<1>3. LoopInv'
  <2> SUFFICES ASSUME NEW d \in Calls
               PROVE  (/\ Running(d) => attempt[d] \in Attempts /\ err[d] = None
                       /\ \A a \in Attempts :
                           \/ a < attempt[d]
                           \/ a = attempt[d] /\ phase[d] \in {"inflight", "returned", "done"}
                           \/ req[d][a] = "unsent")'
    BY DEF LoopInv
  <2>1. CASE d # c
    BY <2>1 DEF Inv, TypeOK, LoopInv, Running, Receive
  <2>2. CASE d = c
    BY <1>0, <1>1, <2>2 DEF Inv, TypeOK, LoopInv, Running, Receive, NextAttempt, AttemptsLeft, Attempts, Received
  <2> QED
    BY <2>1, <2>2
<1>4. ASSUME NEW d \in Mutations, NEW a \in Attempts, Harmless(d, a), d # c \/ a # attempt[c]
      PROVE  Harmless(d, a)'
  BY <1>4 DEF Harmless, Receive, Inv, TypeOK, Mutations
<1>5. answer'[c][attempt[c]] = e /\ req' = req
  BY <1>1 DEF Receive, Inv, TypeOK
<1>6. phase[c] = "invoke" => req[c][attempt[c]] = "unsent"
  BY <1>1 DEF Inv, LoopInv, Attempts
<1>7. RetryInv'
  <2> SUFFICES ASSUME NEW d \in Mutations, NEW a \in Attempts, a < attempt'[d]
               PROVE  Harmless(d, a)'
    BY DEF RetryInv, Mutations, RetryPolicy
  <2>1. CASE a < attempt[d]
    BY <2>1, <1>4, <1>1 DEF Inv, RetryInv, Attempts
  <2>2. CASE ~ (a < attempt[d])
    <3>1. d = c /\ a = attempt[c] /\ e # OK /\ Retries("nonRepeatable", ctx[c] = "alive", e)
      BY <2>2, <1>1 DEF Receive, NextAttempt, AttemptsLeft, Inv, TypeOK, Mutations, Attempts
    <3>2. CASE phase[c] = "invoke"
      BY <3>1, <3>2, <1>5, <1>6 DEF Harmless
    <3>3. CASE phase[c] = "inflight"
      <4>1. e.desc = "other" /\ (e.code \in ContextCodes => e.code \in ServerCodes \/ ctx[c] # "alive")
        BY <3>3 DEF Received
      <4>2. ~ isSafeRetry("nonRepeatable", e)
        BY <4>1 DEF isSafeRetry, isSafeRetryMutableRPC
      <4>3. e.code \in ContextCodes \cap ServerCodes
        BY <3>1, <4>1, <4>2 DEF Retries, isContextError
      <4> QED
        BY <4>3, <3>1, <1>5 DEF Harmless
    <3> QED
      BY <3>2, <3>3 DEF Received
  <2> QED
    BY <2>1, <2>2
<1>8. NoTransportInv'
  <2> SUFFICES ASSUME NEW d \in Mutations, err'[d].desc = "noTransport", NEW a \in Attempts
               PROVE  (req[d][a] = "unsent" \/ (a < attempt[d] /\ Harmless(d, a)))'
    BY DEF NoTransportInv, Mutations, RetryPolicy
  <2>1. CASE d # c
    BY <2>1, <1>4 DEF Inv, NoTransportInv, Receive, TypeOK, Mutations
  <2>2. CASE d = c
    <3>1. e.desc = "noTransport" /\ phase[c] = "invoke"
      BY <2>2, <1>1 DEF Receive, Inv, TypeOK, None, Received
    <3>2. \A b \in Attempts : b >= attempt[c] => req[c][b] = "unsent"
      BY <3>1, <1>1 DEF Inv, LoopInv, Attempts
    <3>3. CASE a >= attempt[c]
      BY <3>2, <3>3, <1>5, <2>2
    <3>4. CASE a < attempt[c]
      <4>1. Harmless(c, a)'
        BY <3>4, <1>4, <1>1, <2>2 DEF Inv, RetryInv, Attempts
      <4>2. attempt'[c] >= attempt[c]
        BY <1>1, <2>2 DEF Receive, NextAttempt, Inv, TypeOK, Attempts
      <4> QED
        BY <3>4, <4>1, <4>2, <1>1, <2>2 DEF Receive, NextAttempt, Inv, TypeOK, Attempts
    <3> QED
      BY <3>3, <3>4, <1>1 DEF Attempts
  <2> QED
    BY <2>1, <2>2
<1>9. OkInv'
  <2> SUFFICES ASSUME NEW d \in Calls, err'[d] = OK
               PROVE  Effects(d)' # {}
    BY DEF OkInv
  <2>1. CASE err[d] = OK
    BY <2>1, <1>5 DEF Inv, OkInv, Effects
  <2>2. CASE err[d] # OK
    <3>1. d = c /\ e = OK /\ phase[c] = "inflight"
      BY <2>2 DEF Receive, Inv, TypeOK, Received, Errors, Codes, ContextCodes, OK
    <3>2. req[c][attempt[c]] = "executed"
      BY <3>1 DEF Received
    <3> QED
      BY <3>1, <3>2, <1>1, <1>5 DEF Effects
  <2> QED
    BY <2>1, <2>2
<1> QED
  BY <1>2, <1>3, <1>7, <1>8, <1>9 DEF Inv

-------------------------------------------------------------------------------
\* Steps of the goroutine and the application that touch neither requests nor
\* results: only the phase moves, forward in the loop.
LEMMA PhaseInv ==
    ASSUME Inv, NEW c \in Calls, Running(c),
           UNCHANGED <<attempt, err, req, answer>>,
           NEW p \in {"wait", "backoff", "invoke"},
           phase[c] # "inflight",
           phase' = [phase EXCEPT ![c] = p],
           TypeOK'
    PROVE  Inv'
<1>1. LoopInv'
  BY DEF Inv, LoopInv, Running, TypeOK, Phases
<1>2. RetryInv' /\ NoTransportInv' /\ OkInv'
  BY DEF Inv, RetryInv, NoTransportInv, OkInv, Harmless, Effects, Mutations, RetryPolicy
<1> QED
  BY <1>1, <1>2 DEF Inv

\* Steps that leave the loops and what the servers hold as they are.
LEMMA FrameInv ==
    ASSUME Inv, UNCHANGED <<phase, attempt, err, req, answer>>, TypeOK'
    PROVE  Inv'
BY DEF Inv, LoopInv, Running, RetryInv, NoTransportInv, OkInv, Harmless, Effects,
       Mutations, RetryPolicy

\* The call ends with e, which says neither success nor "no transport".
LEMMA EndInv ==
    ASSUME Inv, NEW c \in Calls, NEW e, NEW p \in {"returned", "done"},
           phase' = [phase EXCEPT ![c] = p],
           p = "done" => phase[c] = "returned",
           err' = [err EXCEPT ![c] = e],
           e = err[c] \/ (e.code \in ContextCodes /\ e.desc = "other"),
           phase[c] # "inflight",
           UNCHANGED <<attempt, req, answer>>,
           TypeOK'
    PROVE  Inv'
<1>1. LoopInv'
  BY DEF Inv, LoopInv, Running, TypeOK, Phases
<1>2. RetryInv'
  BY DEF Inv, RetryInv, Harmless, Mutations, RetryPolicy
<1>3. NoTransportInv'
  BY DEF Inv, TypeOK, NoTransportInv, Harmless, Mutations, RetryPolicy
<1>4. OkInv'
  <2> SUFFICES ASSUME NEW d \in Calls, err'[d] = OK PROVE Effects(d)' # {}
    BY DEF OkInv
  <2>1. err[d] = OK
    BY DEF Inv, TypeOK, ContextCodes, OK
  <2> QED
    BY <2>1 DEF Inv, OkInv, Effects
<1> QED
  BY <1>1, <1>2, <1>3, <1>4 DEF Inv

\* A request at a server is executed or lost; an unsent one stays unsent.
LEMMA ServerInv ==
    ASSUME Inv, NEW c \in Calls, NEW a \in Attempts, NEW r \in {"executed", "lost"},
           req[c][a] = "sent",
           req' = [req EXCEPT ![c][a] = r],
           UNCHANGED <<phase, attempt, ctx, err, answer, endpoints, closed, burst>>
    PROVE  Inv'
<1>1. TypeOK'
  BY DEF Inv, TypeOK
<1>2. \A d \in Calls : \A b \in Attempts :
        /\ req[d][b] = "unsent" <=> req'[d][b] = "unsent"
        /\ req[d][b] = "executed" => req'[d][b] = "executed"
  BY DEF Inv, TypeOK
<1>3. LoopInv'
  BY <1>2 DEF Inv, LoopInv, Running
<1>4. RetryInv' /\ NoTransportInv'
  BY <1>2 DEF Inv, RetryInv, NoTransportInv, Harmless, Mutations, RetryPolicy
<1>5. OkInv'
  BY <1>2 DEF Inv, OkInv, Effects
<1> QED
  BY <1>1, <1>3, <1>4, <1>5 DEF Inv

\* Every step of Next keeps Inv.
LEMMA NextInv == Inv /\ [Next]_vars => Inv'
<1> SUFFICES ASSUME Inv, [Next]_vars PROVE Inv'
  OBVIOUS
<1> USE RetryAssumption
<1>1. ASSUME NEW c \in Calls, CallStep(c) PROVE Inv'
  <2>1. CASE Start(c)
    <3>1. TypeOK'
      BY <2>1 DEF Start, Inv, TypeOK, Phases
    <3> QED
      BY <2>1, <3>1, PhaseInv DEF Start, Running
  <2>2. CASE SkipBackoff(c)
    <3>1. TypeOK'
      BY <2>2 DEF SkipBackoff, Inv, TypeOK, Phases
    <3> QED
      BY <2>2, <3>1, PhaseInv DEF SkipBackoff, Running
  <2>3. CASE StartBackoff(c)
    <3>1. TypeOK'
      BY <2>3 DEF StartBackoff, Inv, TypeOK, Phases
    <3> QED
      BY <2>3, <3>1, PhaseInv DEF StartBackoff, Running
  <2>4. CASE TimerFires(c)
    <3>1. TypeOK'
      BY <2>4 DEF TimerFires, Inv, TypeOK, Phases
    <3> QED
      BY <2>4, <3>1, PhaseInv DEF TimerFires, Running
  <2>5. CASE BackoffCanceled(c)
    <3> DEFINE e == [code |-> ctx[c], desc |-> "other"]
    <3>1. e \in Errors /\ e.code \in ContextCodes /\ e.desc = "other"
      BY <2>5 DEF BackoffCanceled, Inv, TypeOK, Errors, Codes, Descs
    <3>2. TypeOK'
      BY <2>5, <3>1 DEF BackoffCanceled, Inv, TypeOK, Phases
    <3> HIDE DEF e
    <3>3. phase' = [phase EXCEPT ![c] = "returned"] /\ err' = [err EXCEPT ![c] = e]
      BY <2>5 DEF BackoffCanceled, e
    <3>4. phase[c] # "inflight" /\ UNCHANGED <<attempt, req, answer>>
      BY <2>5 DEF BackoffCanceled
    <3> QED
      BY <3>1, <3>2, <3>3, <3>4, EndInv
  <2>6. CASE Return(c)
    <3>1. PICK e : e = toErr(ctx[c], err[c])
      OBVIOUS
    <3>2. err[c] \in Errors \cup {OK, None}
      BY DEF Inv, TypeOK
    <3>3. \/ e = err[c]
          \/ e \in Errors /\ e.code \in ContextCodes /\ e.desc = "other"
      BY <3>1 DEF toErr, isContextError, Inv, TypeOK, Errors, Codes, Descs
    <3>4. phase[c] = "returned" /\ phase' = [phase EXCEPT ![c] = "done"]
      BY <2>6 DEF Return
    <3>5. err' = [err EXCEPT ![c] = e] /\ UNCHANGED <<attempt, req, answer>>
      BY <2>6, <3>1 DEF Return
    <3>6. TypeOK'
      BY <2>6, <3>2, <3>3, <3>5 DEF Return, Inv, TypeOK, Phases
    <3> QED
      BY <3>3, <3>4, <3>5, <3>6, EndInv
  <2> QED
    BY <1>1, <2>1, <2>2, <2>3, <2>4, <2>5, <2>6 DEF CallStep
<1>2. ASSUME NEW c \in Calls, Send(c) PROVE Inv'
  <2>1. phase[c] = "invoke" /\ attempt[c] \in Attempts
    BY <1>2 DEF Send, Inv, LoopInv, Running
  <2>2. TypeOK'
    BY <1>2, <2>1 DEF Send, Inv, TypeOK, Phases
  <2>3. LoopInv'
    BY <1>2, <2>1 DEF Send, Inv, TypeOK, LoopInv, Running
  <2>4. RetryInv'
    BY <1>2, <2>1 DEF Send, Inv, TypeOK, RetryInv, Harmless, Mutations, RetryPolicy, Attempts
  <2>5. NoTransportInv'
    BY <1>2, <2>1 DEF Send, Inv, TypeOK, LoopInv, Running, None, NoTransportInv,
                      Harmless, Mutations, RetryPolicy
  <2>6. OkInv'
    <3>1. req[c][attempt[c]] = "unsent"
      BY <2>1 DEF Inv, LoopInv, Attempts
    <3>2. \A d \in Calls : Effects(d) \subseteq Effects(d)'
      BY <1>2, <2>1, <3>1 DEF Send, Inv, TypeOK, Effects
    <3> QED
      BY <1>2, <3>2 DEF Send, Inv, OkInv
  <2> QED
    BY <2>2, <2>3, <2>4, <2>5, <2>6 DEF Inv
<1>3. ASSUME NEW c \in Calls, FailUnsent(c) PROVE Inv'
  BY <1>3, ReceiveInv DEF FailUnsent, Received, LocalErrors
<1>4. ASSUME NEW c \in Calls, Answer(c) PROVE Inv'
  <2>1. CASE req[c][attempt[c]] = "executed" /\ Receive(c, OK)
    BY <1>4, <2>1, ReceiveInv DEF Answer, Received, OK, ContextCodes
  <2>2. ASSUME NEW e \in SentErrors(ctx[c], ServerCodes), Receive(c, e)
        PROVE  Inv'
    <3>1. e \in Errors /\ e # OK /\ e.desc = "other"
      BY <2>2 DEF SentErrors, Errors, Codes, OK, ContextCodes
    <3>2. e.code \in ContextCodes => e.code \in ServerCodes \/ ctx[c] # "alive"
      BY <2>2 DEF SentErrors, ContextCodes
    <3> QED
      BY <1>4, <2>2, <3>1, <3>2, ReceiveInv DEF Received, Answer
  <2> QED
    BY <1>4, <2>1, <2>2 DEF Answer
<1>5. ASSUME NEW c \in Calls, ServerStep(c) PROVE Inv'
  BY <1>5, ServerInv DEF ServerStep, Execute, Lose
<1>6. ASSUME NEW c \in Calls, EndContext(c) PROVE Inv'
  <2>1. TypeOK'
    BY <1>6 DEF EndContext, Inv, TypeOK
  <2> QED
    BY <1>6, <2>1, FrameInv DEF EndContext
<1>7. CASE Close
  BY <1>7, FrameInv DEF Close, Inv, TypeOK
<1>8. CASE SetEndpoints
  BY <1>8, FrameInv DEF SetEndpoints, Inv, TypeOK
<1>9. CASE UNCHANGED vars
  BY <1>9, FrameInv DEF vars, Inv, TypeOK
<1> QED
  BY <1>1, <1>2, <1>3, <1>4, <1>5, <1>6, <1>7, <1>8, <1>9 DEF Next

\* Inv holds in every reachable state, for every choice of the constants.
THEOREM Invariance == Spec => []Inv
BY InitInv, NextInv, PTL DEF Spec

\* Type correctness of the retry loop: in particular its loop variable never
\* leaves 0..Max (interceptor.go:34).
THEOREM TypeCorrect == Spec => []TypeOK
<1>1. Inv => TypeOK
  BY DEF Inv
<1> QED
  BY <1>1, Invariance, PTL

-------------------------------------------------------------------------------
\* The gap in the write-at-most-once semantics of isSafeRetryMutableRPC has one
\* shape only: a server's context code for the earlier attempt.
THEOREM DuplicatesExplained == Spec => []DuplicateOnlyAfterContextError
<1>1. Inv => DuplicateOnlyAfterContextError
  <2> SUFFICES ASSUME Inv, NEW c \in Mutations, NEW a \in Attempts, NEW b \in Attempts,
                      a < b, req[c][a] = "executed", req[c][b] = "executed"
               PROVE  answer[c][a].code \in ContextCodes
    BY DEF DuplicateOnlyAfterContextError
  <2>1. b <= attempt[c]
    BY RetryAssumption DEF Inv, TypeOK, LoopInv, Mutations, Attempts
  <2>2. a < attempt[c]
    BY <2>1, RetryAssumption DEF Inv, TypeOK, Mutations, Attempts
  <2> QED
    BY <2>2 DEF Inv, RetryInv, Harmless
<1> QED
  BY <1>1, Invariance, PTL

\* A mutation that failed for want of a connection was never sent, so that the
\* application may repeat it, whatever the loop retried before it gave up.
THEOREM NoTransportIsSafe == Spec => []NoTransportMeansUnsent
<1>1. Inv => NoTransportMeansUnsent
  BY DEF Inv, NoTransportInv, Harmless, NoTransportMeansUnsent, SawContextError
<1> QED
  BY <1>1, Invariance, PTL

-------------------------------------------------------------------------------
(* Reads *)

\* Attempts that were passed over have an answer, and a call that failed with
\* Unavailable has used all of them if it is a read.
AnswerInv ==
    \A c \in Calls :
        /\ \A a \in Attempts : a < attempt[c] => answer[c][a] # None
        /\ (c \notin Mutations /\ err[c].code = "Unavailable") =>
                \A a \in Attempts : answer[c][a] # None

\* What the loop does with a result keeps the answers complete.
LEMMA ReceiveAnswers ==
    ASSUME Inv, AnswerInv, NEW c \in Calls, NEW e \in Errors \cup {OK},
           phase[c] \in {"invoke", "inflight"}, Receive(c, e)
    PROVE  AnswerInv'
<1> USE RetryAssumption
<1>1. attempt[c] \in Attempts /\ err[c] = None
  BY DEF Inv, LoopInv, Running
<1>2. e # None
  BY DEF None, Errors, Codes, ContextCodes, OK
<1>3. answer'[c][attempt[c]] = e
  BY <1>1 DEF Receive, Inv, TypeOK
<1>4. \A d \in Calls : \A a \in Attempts : answer[d][a] # None => answer'[d][a] # None
  BY <1>1, <1>2 DEF Receive, Inv, TypeOK
<1>5. ASSUME NEW a \in Attempts, a <= attempt[c] PROVE answer'[c][a] # None
  BY <1>1, <1>2, <1>3, <1>4, <1>5 DEF AnswerInv, Attempts
<1> SUFFICES ASSUME NEW d \in Calls
             PROVE  (/\ \A a \in Attempts : a < attempt[d] => answer[d][a] # None
                     /\ (d \notin Mutations /\ err[d].code = "Unavailable") =>
                             \A a \in Attempts : answer[d][a] # None)'
  BY DEF AnswerInv
<1>6. CASE d # c
  BY <1>4, <1>6 DEF AnswerInv, Receive, Inv, TypeOK, Mutations, RetryPolicy
<1>7. CASE d = c
  <2>1. attempt'[c] \in {attempt[c], attempt[c] + 1}
    BY <1>1 DEF Receive, NextAttempt, Inv, TypeOK
  <2>2. \A a \in Attempts : a < attempt'[c] => answer'[c][a] # None
    BY <1>1, <1>5, <2>1 DEF Attempts
  <2>3. ASSUME c \notin Mutations, err'[c].code = "Unavailable", NEW a \in Attempts
        PROVE  answer'[c][a] # None
    <3>1. e.code = "Unavailable" /\ err'[c] = e
      BY <1>1, <2>3 DEF Receive, Inv, TypeOK, None
    <3>2. RetryPolicy(c) = "repeatable"
      BY <2>3 DEF Mutations, RetryPolicy
    <3>3. Retries(RetryPolicy(c), ctx[c] = "alive", e) /\ e # OK
      BY <3>1, <3>2 DEF Retries, isSafeRetry, isContextError, isSafeRetryImmutableRPC,
                        ContextCodes, OK
    <3>4. CASE Max = 0
      BY <1>5, <1>1, <3>4 DEF Attempts
    <3>5. CASE Max # 0
      <4>1. ~ AttemptsLeft(attempt[c], Max)
        <5>1. err'[c] # err[c]
          BY <1>1, <1>2, <3>1
        <5> QED
          BY <3>3, <3>5, <5>1 DEF Receive, Inv, TypeOK
      <4> QED
        BY <1>1, <1>5, <3>5, <4>1 DEF AttemptsLeft, Attempts
    <3> QED
      BY <3>4, <3>5
  <2> QED
    BY <1>7, <2>2, <2>3 DEF Mutations, RetryPolicy
<1> QED
  BY <1>6, <1>7

\* All other steps leave the answers and where the loop stands alone.
LEMMA AnswerStep == Inv /\ AnswerInv /\ [Next]_vars => AnswerInv'
<1> SUFFICES ASSUME Inv, AnswerInv, [Next]_vars PROVE AnswerInv'
  OBVIOUS
<1>1. ASSUME NEW c \in Calls, UNCHANGED <<attempt, answer>>,
             \A d \in Calls : d # c => err'[d] = err[d],
             err'[c] = err[c] \/ err'[c].code \in ContextCodes
      PROVE  AnswerInv'
  BY <1>1 DEF AnswerInv, ContextCodes, Mutations, RetryPolicy
<1>2. ASSUME UNCHANGED <<attempt, err, answer>> PROVE AnswerInv'
  BY <1>2 DEF AnswerInv, Mutations, RetryPolicy
<1>3. ASSUME NEW c \in Calls, CallStep(c) PROVE AnswerInv'
  <2>1. CASE BackoffCanceled(c)
    <3>1. /\ \A d \in Calls : d # c => err'[d] = err[d]
          /\ err'[c].code = ctx[c] /\ ctx[c] \in ContextCodes
          /\ UNCHANGED <<attempt, answer>>
      BY <2>1 DEF BackoffCanceled, Inv, TypeOK
    <3> QED
      BY <1>1, <3>1
  <2>2. CASE Return(c)
    <3>1. /\ \A d \in Calls : d # c => err'[d] = err[d]
          /\ err'[c] = toErr(ctx[c], err[c])
          /\ UNCHANGED <<attempt, answer>>
      BY <2>2 DEF Return, Inv, TypeOK
    <3>2. err'[c] = err[c] \/ err'[c].code \in ContextCodes
      BY <3>1 DEF toErr, isContextError, Inv, TypeOK
    <3> QED
      BY <1>1, <3>1, <3>2
  <2>3. CASE Start(c) \/ SkipBackoff(c) \/ StartBackoff(c) \/ TimerFires(c)
    BY <1>2, <2>3 DEF Start, SkipBackoff, StartBackoff, TimerFires
  <2> QED
    BY <1>3, <2>1, <2>2, <2>3 DEF CallStep
<1>4. ASSUME NEW c \in Calls, FailUnsent(c) \/ Answer(c) PROVE AnswerInv'
  BY <1>4, ReceiveAnswers DEF FailUnsent, Answer, LocalErrors, SentErrors
<1>5. CASE Close \/ SetEndpoints \/ UNCHANGED vars
          \/ \E c \in Calls : Send(c) \/ ServerStep(c) \/ EndContext(c)
  BY <1>2, <1>5 DEF Close, SetEndpoints, vars, Send, ServerStep, Execute, Lose, EndContext
<1> QED
  BY <1>3, <1>4, <1>5 DEF Next

\* A read that fails with Unavailable was answered on each attempt that the
\* options allow, whichever other errors came in between.
THEOREM ReadsUseAllAttempts == Spec => []UnavailableReadUsedAllAttempts
<1>1. Init => AnswerInv
  BY RetryAssumption DEF Init, AnswerInv, Attempts, None
<1>2. AnswerInv => UnavailableReadUsedAllAttempts
  BY DEF AnswerInv, UnavailableReadUsedAllAttempts
<1> QED
  BY <1>1, <1>2, AnswerStep, Invariance, PTL DEF Spec

-------------------------------------------------------------------------------
(* Backoff *)

\* A number has one quotient and one remainder.
LEMMA OneRemainder ==
    ASSUME NEW q \in Nat \ {0}, NEW k \in Int, NEW j \in Int,
           NEW r \in 0..(q - 1), NEW s \in 0..(q - 1),
           q * k + r = q * j + s
    PROVE  r = s
<1>1. CASE k = j
  BY <1>1
<1>2. ASSUME NEW m \in Int, NEW n \in Int, m < n PROVE q * n >= q * m + q
  <2>1. q * n >= q * (m + 1)
    BY <1>2
  <2> QED
    BY <2>1
<1>3. CASE k < j
  BY <1>2, <1>3
<1>4. CASE j < k
  BY <1>2, <1>4
<1> QED
  BY <1>1, <1>3, <1>4

\* Going back one step from a number that is no multiple.
LEMMA PreviousRemainder ==
    ASSUME NEW q \in Nat \ {0}, NEW a \in Nat \ {0}, a % q # 0
    PROVE  ((a - 1) % q) + 1 = a % q
<1>1. a = q * (a \div q) + (a % q) /\ a % q \in 0..(q - 1) /\ a \div q \in Int
  OBVIOUS
<1>2. /\ a - 1 = q * ((a - 1) \div q) + ((a - 1) % q)
      /\ (a - 1) % q \in 0..(q - 1) /\ (a - 1) \div q \in Int
  OBVIOUS
<1>3. q * (a \div q) + ((a % q) - 1) = q * ((a - 1) \div q) + ((a - 1) % q)
  BY <1>1, <1>2
<1>4. (a % q) - 1 \in 0..(q - 1)
  BY <1>1
<1> QED
  BY <1>1, <1>2, <1>3, <1>4, OneRemainder

\* The number of invocations that attempt a may look back on, itself included,
\* when waits happen at the multiples of q.
Run(a, q) == (a % q) + 1

\* Per phase: how many invocations were made without a wait, given that every
\* quorum-th attempt waits and that attempts are made one after the other.
BurstInv ==
    \A c \in Calls :
        /\ burst[c] \in Nat
        /\ burst[c] <= Quorum(endpoints)
        /\ phase[c] \in {"invoke", "inflight"} =>
                burst[c] <= Run(attempt[c], Quorum(endpoints))
        /\ phase[c] = "wait" =>
                burst[c] <= IF attempt[c] = 0 THEN 0 ELSE Run(attempt[c] - 1, Quorum(endpoints))
        /\ phase[c] = "idle" => burst[c] = 0 /\ attempt[c] = 0

\* A quorum is positive; a run is between 1 and the quorum, grows by one per
\* attempt and starts over at a multiple.
LEMMA RunFacts ==
    ASSUME TypeOK
    PROVE  /\ Quorum(endpoints) \in Nat \ {0}
           /\ \A a \in Nat : Run(a, Quorum(endpoints)) \in 1..Quorum(endpoints)
           /\ Run(0, Quorum(endpoints)) = 1
           /\ \A a \in Nat \ {0} : ~ backoffWaits(a, endpoints) =>
                Run(a, Quorum(endpoints)) = Run(a - 1, Quorum(endpoints)) + 1
<1>1. endpoints \in Nat
  BY RetryAssumption DEF TypeOK
<1> DEFINE q == Quorum(endpoints)
<1>2. q \in Nat \ {0}
  BY <1>1 DEF Quorum
<1>6. \A a \in Nat : (~ backoffWaits(a, endpoints)) <=> (a = 0 \/ a % q # 0)
  BY <1>1, <1>2 DEF backoffWaits
<1> HIDE DEF q
<1>3. \A a \in Nat : Run(a, q) \in 1..q
  BY <1>2 DEF Run
<1>4. Run(0, q) = 1
  <2>1. 0 % q = 0
    BY <1>2
  <2> QED
    BY <2>1 DEF Run
<1>5. ASSUME NEW a \in Nat \ {0}, a % q # 0 PROVE Run(a, q) = Run(a - 1, q) + 1
  <2>1. ((a - 1) % q) + 1 = a % q
    BY <1>2, <1>5, PreviousRemainder
  <2> QED
    BY <2>1 DEF Run
<1> QED
  BY <1>2, <1>3, <1>4, <1>5, <1>6 DEF q

\* Each step keeps the count.
LEMMA BurstStep == Inv /\ BurstInv /\ [Next]_vars => BurstInv'
<1> SUFFICES ASSUME Inv, BurstInv, [Next]_vars PROVE BurstInv'
  OBVIOUS
<1> DEFINE q == Quorum(endpoints)
<1>0. TypeOK
  BY DEF Inv
<1>1. /\ q \in Nat \ {0}
      /\ \A a \in Nat : Run(a, q) \in 1..q
      /\ Run(0, q) = 1
      /\ \A a \in Nat \ {0} : ~ backoffWaits(a, endpoints) => Run(a, q) = Run(a - 1, q) + 1
  BY <1>0, RunFacts
<1>2. attempt \in [Calls -> Nat] /\ phase \in [Calls -> Phases] /\ burst \in [Calls -> Nat]
  BY <1>0, RetryAssumption DEF TypeOK
<1> HIDE DEF q
<1>b. \A c \in Calls :
        /\ burst[c] \in Nat
        /\ burst[c] <= q
        /\ phase[c] \in {"invoke", "inflight"} => burst[c] <= Run(attempt[c], q)
        /\ phase[c] = "wait" =>
                burst[c] <= IF attempt[c] = 0 THEN 0 ELSE Run(attempt[c] - 1, q)
        /\ phase[c] = "idle" => burst[c] = 0 /\ attempt[c] = 0
  BY DEF BurstInv, q
\* A step of one call: what has to be shown of it.
<1>3. ASSUME NEW c \in Calls, UNCHANGED endpoints,
             \A d \in Calls : d # c => UNCHANGED <<phase[d], attempt[d], burst[d]>>,
             /\ burst'[c] \in Nat /\ burst'[c] <= q
             /\ phase'[c] \in {"invoke", "inflight"} => burst'[c] <= Run(attempt'[c], q)
             /\ phase'[c] = "wait" =>
                    burst'[c] <= IF attempt'[c] = 0 THEN 0 ELSE Run(attempt'[c] - 1, q)
             /\ phase'[c] # "idle"
      PROVE  BurstInv'
  <2>1. Quorum(endpoints)' = q
    BY <1>3 DEF q
  <2>2. ASSUME NEW d \in Calls
        PROVE  /\ burst'[d] \in Nat
               /\ burst'[d] <= q
               /\ phase'[d] \in {"invoke", "inflight"} => burst'[d] <= Run(attempt'[d], q)
               /\ phase'[d] = "wait" =>
                     burst'[d] <= IF attempt'[d] = 0 THEN 0 ELSE Run(attempt'[d] - 1, q)
               /\ phase'[d] = "idle" => burst'[d] = 0 /\ attempt'[d] = 0
    <3>1. CASE d = c
      BY <1>3, <3>1
    <3>2. CASE d # c
      BY <1>3, <3>2, <1>b
    <3> QED
      BY <3>1, <3>2
  <2> QED
    BY <2>1, <2>2 DEF BurstInv
<1>4. ASSUME NEW c \in Calls, CallStep(c) PROVE BurstInv'
  <2>0. \A d \in Calls : d # c => UNCHANGED <<phase[d], attempt[d], burst[d]>>
    BY <1>2, <1>4 DEF CallStep, Start, SkipBackoff, StartBackoff, TimerFires,
                      BackoffCanceled, Return
  <2>1. CASE Start(c)
    <3>1. /\ phase'[c] \in {"invoke", "wait"} /\ attempt'[c] = 0 /\ burst'[c] = 0
          /\ UNCHANGED endpoints
      BY <1>2, <1>b, <2>1 DEF Start
    <3> QED
      BY <1>1, <1>3, <2>0, <3>1
  <2>2. CASE SkipBackoff(c)
    <3>1. /\ phase[c] = "wait" /\ phase'[c] = "invoke" /\ burst'[c] = burst[c] + 1
          /\ UNCHANGED <<attempt, endpoints>> /\ ~ backoffWaits(attempt[c], endpoints)
      BY <1>2, <2>2 DEF SkipBackoff
    <3>2. attempt[c] \in Nat /\ burst[c] \in Nat
      BY <1>2
    <3>3. burst'[c] \in Nat /\ burst'[c] <= Run(attempt[c], q)
      BY <1>1, <1>b, <3>1, <3>2
    <3>4. burst'[c] <= q
      BY <1>1, <3>2, <3>3
    <3> QED
      BY <1>3, <2>0, <3>1, <3>3, <3>4
  <2>3. CASE TimerFires(c)
    <3>1. phase'[c] = "invoke" /\ burst'[c] = 1 /\ UNCHANGED <<attempt, endpoints>>
      BY <1>2, <2>3 DEF TimerFires
    <3>2. 1 <= Run(attempt[c], q) /\ 1 <= q
      BY <1>1, <1>2
    <3> QED
      BY <1>3, <2>0, <3>1, <3>2
  <2>4. CASE StartBackoff(c) \/ BackoffCanceled(c) \/ Return(c)
    <3>1. /\ phase'[c] \in {"backoff", "returned", "done"} /\ burst'[c] = burst[c]
          /\ UNCHANGED endpoints
      BY <1>2, <2>4 DEF StartBackoff, BackoffCanceled, Return
    <3> QED
      BY <1>3, <1>b, <2>0, <3>1
  <2> QED
    BY <1>4, <2>1, <2>2, <2>3, <2>4 DEF CallStep
<1>5. ASSUME NEW c \in Calls, NEW e, phase[c] \in {"invoke", "inflight"}, Receive(c, e)
      PROVE  BurstInv'
  <2>0. \A d \in Calls : d # c => UNCHANGED <<phase[d], attempt[d], burst[d]>>
    BY <1>2, <1>5 DEF Receive
  <2>1. /\ phase'[c] \in {"wait", "returned"} /\ burst'[c] = burst[c] /\ UNCHANGED endpoints
        /\ phase'[c] = "wait" => attempt'[c] = attempt[c] + 1
    BY <1>2, <1>5 DEF Receive, NextAttempt
  <2>2. attempt[c] \in Nat /\ burst[c] \in Nat /\ burst[c] <= q /\ burst[c] <= Run(attempt[c], q)
    BY <1>2, <1>5, <1>b
  <2>3. phase'[c] = "wait" =>
          burst'[c] <= IF attempt'[c] = 0 THEN 0 ELSE Run(attempt'[c] - 1, q)
    BY <2>1, <2>2
  <2> QED
    BY <1>3, <2>0, <2>1, <2>2, <2>3
<1>6. ASSUME NEW c \in Calls, Send(c) PROVE BurstInv'
  <2>1. /\ \A d \in Calls : d # c => UNCHANGED <<phase[d], attempt[d], burst[d]>>
        /\ phase[c] = "invoke" /\ phase'[c] = "inflight"
        /\ UNCHANGED <<attempt, burst, endpoints>>
    BY <1>2, <1>6 DEF Send
  <2> QED
    BY <1>3, <1>b, <2>1
<1>7. CASE SetEndpoints
  <2>1. TypeOK' /\ UNCHANGED <<phase, attempt>> /\ \A c \in Calls : burst'[c] = 0
    BY <1>0, <1>7 DEF SetEndpoints, TypeOK
  <2>2. /\ Quorum(endpoints)' \in Nat \ {0}
        /\ \A a \in Nat : Run(a, Quorum(endpoints)') \in 1..(Quorum(endpoints)')
    <3>1. endpoints' \in Nat
      BY <2>1, RetryAssumption DEF TypeOK
    <3>4. \A n \in Nat : Quorum(n) \in Nat \ {0}
      BY DEF Quorum
    <3>2. Quorum(endpoints)' \in Nat \ {0}
      BY <3>1, <3>4
    <3> QED
      BY <3>2 DEF Run
  <2> QED
    BY <1>2, <1>b, <2>1, <2>2 DEF BurstInv
<1>8. CASE Close \/ UNCHANGED vars \/ \E c \in Calls : ServerStep(c) \/ EndContext(c)
  BY <1>8 DEF BurstInv, Close, vars, ServerStep, Execute, Lose, EndContext
<1> QED
  BY <1>4, <1>5, <1>6, <1>7, <1>8 DEF Next, FailUnsent, Answer

\* However the number of endpoints changes during a call, no more than a
\* quorum of attempts is made without a wait between them.
THEOREM BackoffHolds == Spec => []BackoffEachQuorum
<1>1. Init => BurstInv
  <2> SUFFICES ASSUME Init PROVE BurstInv
    OBVIOUS
  <2>1. endpoints \in Nat /\ \A c \in Calls : burst[c] = 0 /\ phase[c] = "idle" /\ attempt[c] = 0
    BY RetryAssumption DEF Init
  <2> QED
    BY <2>1 DEF BurstInv, Quorum
<1>2. BurstInv => BackoffEachQuorum
  BY DEF BurstInv, BackoffEachQuorum
<1> QED
  BY <1>1, <1>2, BurstStep, Invariance, PTL DEF Spec

-------------------------------------------------------------------------------
(* Calls that did not go on after a context code *)

\* Then at most one attempt of a mutation ever leaves the client, and none if
\* the call ended with "no transport".
LEMMA SingleRequest ==
    ASSUME Inv, NEW c \in Mutations, ~ Excused(c)
    PROVE  /\ \A a, b \in Attempts : req[c][a] # "unsent" /\ req[c][b] # "unsent" => a = b
           /\ err[c].desc = "noTransport" => \A a \in Attempts : req[c][a] = "unsent"
<1>1. \A a \in Attempts : a < attempt[c] /\ Harmless(c, a) => req[c][a] = "unsent"
  BY DEF Harmless, Excused
<1>2. \A a \in Attempts : req[c][a] # "unsent" => a = attempt[c]
  BY <1>1, RetryAssumption DEF Inv, TypeOK, LoopInv, RetryInv, Mutations, Attempts
<1> QED
  BY <1>1, <1>2 DEF Inv, NoTransportInv

\* Servers that never answer with a context code excuse nothing.
LEMMA NothingExcused ==
    ASSUME ServerCodes \cap ContextCodes = {}, Inv, NEW c \in Mutations
    PROVE  ~ Excused(c)
BY DEF Excused, Inv, RetryInv, Harmless

\* The write-at-most-once semantics that isSafeRetryMutableRPC is written for.
THEOREM AtMostOnce ==
    ASSUME ServerCodes \cap ContextCodes = {}
    PROVE  Spec => []WriteAtMostOnce
<1>1. Inv => WriteAtMostOnce
  <2> SUFFICES ASSUME Inv, NEW c \in Mutations, NEW a \in Attempts, NEW b \in Attempts,
                      req[c][a] = "executed", req[c][b] = "executed"
               PROVE  a = b
    BY DEF WriteAtMostOnce
  <2> QED
    BY SingleRequest, NothingExcused
<1> QED
  BY <1>1, Invariance, PTL

-------------------------------------------------------------------------------
(* Refinement of WriteOnce *)

\* Whether c is excused changes only where the loop goes on, and never back.
LEMMA ExcusedStays ==
    ASSUME Inv, UNCHANGED <<attempt, answer>>,
           \A d \in Calls : \A a \in Attempts :
               (a < attempt[d] => (req[d][a] = "unsent" <=> req'[d][a] = "unsent"))
    PROVE  UNCHANGED excusedBar
<1>1. \A d \in Calls : Excused(d)' = Excused(d)
  BY DEF Excused
<1> QED
  BY <1>1 DEF excusedBar, Mutations, RetryPolicy

\* Steps inside the loop are invisible to the application and the servers.
LEMMA InnerStep ==
    ASSUME NEW c \in Calls, Inv,
           phase[c] \notin {"idle", "done"},
           NEW p \in Phases \ {"idle", "done"},
           phase' = [phase EXCEPT ![c] = p],
           \A d \in Calls : d # c => err'[d] = err[d],
           \A d \in Calls : Effects(d)' = Effects(d)
    PROVE  UNCHANGED <<statusBar, effectsBar>>
<1>1. \A d \in Mutations : Outcome(d)' = Outcome(d)
  BY DEF Outcome, Inv, TypeOK, Mutations
<1>2. \A d \in Mutations : Effects(d)' = Effects(d)
  BY DEF Mutations
<1> QED
  BY <1>1, <1>2 DEF statusBar, effectsBar, Mutations, RetryPolicy

\* Steps that move no call and execute nothing.
LEMMA OuterStep ==
    ASSUME UNCHANGED <<phase, err>>,
           \A d \in Calls : Effects(d)' = Effects(d)
    PROVE  UNCHANGED <<statusBar, effectsBar>>
<1>1. \A d \in Mutations : Outcome(d)' = Outcome(d)
  BY DEF Outcome
<1>2. \A d \in Mutations : Effects(d)' = Effects(d)
  BY DEF Mutations
<1> QED
  BY <1>1, <1>2 DEF statusBar, effectsBar, Mutations, RetryPolicy

\* The goroutine of c starts or returns: Issue and Reply of WriteOnce for a
\* mutation, nothing for a read.
LEMMA EdgeStep ==
    ASSUME NEW c \in Calls, Inv, UNCHANGED req, phase' # phase,
           NEW p \in Phases, phase' = [phase EXCEPT ![c] = p],
           \A d \in Calls : d # c => err'[d] = err[d]
    PROVE  /\ c \notin Mutations => UNCHANGED <<statusBar, effectsBar>>
           /\ c \in Mutations => /\ statusBar' = [statusBar EXCEPT ![c] = Outcome(c)']
                                 /\ UNCHANGED effectsBar
<1>1. \A d \in Mutations : d # c => Outcome(d)' = Outcome(d)
  BY DEF Outcome, Inv, TypeOK, Mutations
<1>2. \A d \in Mutations : Effects(d)' = Effects(d)
  BY DEF Effects
<1>3. Mutations' = Mutations
  BY DEF Mutations, RetryPolicy
<1> QED
  BY <1>1, <1>2, <1>3 DEF statusBar, effectsBar

\* One step of the retry loop, gRPC, a server or the application is a step of
\* WriteOnce or invisible to it.
LEMMA StepRefines ==
    ASSUME Inv, [Next]_vars
    PROVE  [WO!Next]_<<statusBar, effectsBar, excusedBar>>
<1>1. ASSUME NEW c \in Calls, Start(c)
      PROVE  [WO!Next]_<<statusBar, effectsBar, excusedBar>>
  <2>1. PICK p \in Phases : p \notin {"idle", "done"} /\ phase' = [phase EXCEPT ![c] = p]
    BY <1>1 DEF Start, Phases
  <2>2. phase[c] = "idle" /\ phase'[c] = p
    BY <1>1, <2>1 DEF Start, Inv, TypeOK
  <2>3. UNCHANGED <<req, err>> /\ phase' # phase
    BY <1>1, <2>1, <2>2 DEF Start
  <2>6. UNCHANGED excusedBar
    BY <1>1, <2>3, ExcusedStays DEF Start
  <2>4. CASE c \notin Mutations
    BY <2>1, <2>3, <2>4, <2>6, EdgeStep
  <2>5. CASE c \in Mutations
    <3>1. statusBar' = [statusBar EXCEPT ![c] = Outcome(c)'] /\ UNCHANGED effectsBar
      BY <2>1, <2>3, <2>5, EdgeStep
    <3>2. statusBar[c] = "idle" /\ Outcome(c)' = "pending"
      BY <2>1, <2>2, <2>5 DEF statusBar, Outcome
    <3> QED
      BY <2>5, <2>6, <3>1, <3>2 DEF WO!Next, WO!Issue
  <2> QED
    BY <2>4, <2>5
<1>2. ASSUME NEW c \in Calls, Return(c)
      PROVE  [WO!Next]_<<statusBar, effectsBar, excusedBar>>
  <2>1. /\ phase[c] = "returned" /\ phase' = [phase EXCEPT ![c] = "done"]
        /\ phase'[c] = "done" /\ phase' # phase /\ UNCHANGED req
        /\ \A d \in Calls : d # c => err'[d] = err[d]
        /\ err'[c] = toErr(ctx[c], err[c])
    BY <1>2 DEF Return, Inv, TypeOK
  <2>4. UNCHANGED excusedBar
    BY <1>2, ExcusedStays DEF Return
  <2>2. CASE c \notin Mutations
    BY <2>1, <2>2, <2>4, EdgeStep DEF Phases
  <2>3. CASE c \in Mutations
    <3>1. statusBar' = [statusBar EXCEPT ![c] = Outcome(c)'] /\ UNCHANGED effectsBar
      BY <2>1, <2>3, EdgeStep DEF Phases
    <3>2. statusBar[c] = "pending" /\ effectsBar[c] = Effects(c)
      BY <2>1, <2>3 DEF statusBar, effectsBar, Outcome
    <3>3. Outcome(c)' \in {"ok", "unsent", "unknown"}
      BY <2>1 DEF Outcome
    <3>4. Outcome(c)' = "ok" => Effects(c) # {}
      <4>1. Outcome(c)' = "ok" => err'[c] = OK
        BY <2>1 DEF Outcome
      <4>2. err'[c] = OK => err[c] = OK
        BY <2>1 DEF toErr, OK, Inv, TypeOK, ContextCodes, isContextError
      <4> QED
        BY <4>1, <4>2 DEF Inv, OkInv
    <3>5. Outcome(c)' = "unsent" => Effects(c) = {} \/ c \in excusedBar
      <4>1. Outcome(c)' = "unsent" => err'[c].desc = "noTransport"
        BY <2>1 DEF Outcome
      <4>2. err'[c].desc = "noTransport" => err[c].desc = "noTransport"
        BY <2>1 DEF toErr
      <4> QED
        BY <4>1, <4>2, <2>3, SingleRequest DEF Effects, excusedBar
    <3>6. WO!Reply(c, Outcome(c)')
      BY <2>3, <2>4, <3>1, <3>2, <3>4, <3>5 DEF WO!Reply
    <3> QED
      BY <2>3, <3>3, <3>6 DEF WO!Next
  <2> QED
    BY <2>2, <2>3
<1>3. ASSUME NEW c \in Calls, NEW e, Receive(c, e), phase[c] \in {"invoke", "inflight"}
      PROVE  [WO!Next]_<<statusBar, effectsBar, excusedBar>>
  <2>1. PICK p \in {"wait", "returned"} : phase' = [phase EXCEPT ![c] = p]
    BY <1>3 DEF Receive
  <2>2. \A d \in Calls : (d # c => err'[d] = err[d]) /\ Effects(d)' = Effects(d)
    BY <1>3 DEF Receive, Effects, Inv, TypeOK
  <2>3. UNCHANGED <<statusBar, effectsBar>>
    BY <1>3, <2>1, <2>2, InnerStep DEF Phases
  <2>4. \A d \in Calls : d # c => Excused(d)' = Excused(d)
    BY <1>3 DEF Receive, Excused, Inv, TypeOK
  <2>5. Excused(c) => Excused(c)'
    <3>1. attempt[c] \in Attempts
      BY <1>3 DEF Inv, LoopInv, Running
    <3>2. \A a \in Attempts : a < attempt[c] =>
            a < attempt'[c] /\ req'[c][a] = req[c][a] /\ answer'[c][a] = answer[c][a]
      BY <1>3, <3>1, RetryAssumption DEF Receive, NextAttempt, Inv, TypeOK, Attempts
    <3> QED
      BY <3>2 DEF Excused
  <2>6. Mutations' = Mutations
    BY DEF Mutations, RetryPolicy
  <2>7. CASE c \in Mutations /\ Excused(c)' /\ ~ Excused(c)
    <3>1. excusedBar' = excusedBar \cup {c}
      BY <2>4, <2>6, <2>7 DEF excusedBar, Mutations
    <3>2. statusBar[c] = "pending"
      BY <1>3, <2>7 DEF statusBar, Outcome
    <3> QED
      BY <2>3, <2>7, <3>1, <3>2 DEF WO!Next, WO!Excuse
  <2>8. CASE ~ (c \in Mutations /\ Excused(c)' /\ ~ Excused(c))
    <3>1. UNCHANGED excusedBar
      BY <2>4, <2>5, <2>6, <2>8 DEF excusedBar, Mutations
    <3> QED
      BY <2>3, <3>1
  <2> QED
    BY <2>7, <2>8
<1>4. ASSUME NEW c \in Calls,
             SkipBackoff(c) \/ StartBackoff(c) \/ TimerFires(c) \/ BackoffCanceled(c)
      PROVE  UNCHANGED <<statusBar, effectsBar, excusedBar>>
  <2>1. PICK p \in {"backoff", "invoke", "returned"} : phase' = [phase EXCEPT ![c] = p]
    BY <1>4 DEF SkipBackoff, StartBackoff, TimerFires, BackoffCanceled
  <2>2. phase[c] \in {"wait", "backoff"}
    BY <1>4 DEF SkipBackoff, StartBackoff, TimerFires, BackoffCanceled
  <2>3. \A d \in Calls : (d # c => err'[d] = err[d]) /\ Effects(d)' = Effects(d)
    BY <1>4 DEF SkipBackoff, StartBackoff, TimerFires, BackoffCanceled, Effects, Inv, TypeOK
  <2>4. UNCHANGED excusedBar
    BY <1>4, ExcusedStays DEF SkipBackoff, StartBackoff, TimerFires, BackoffCanceled
  <2> QED
    BY <2>1, <2>2, <2>3, <2>4, InnerStep DEF Phases
<1>5. ASSUME NEW c \in Calls, Send(c)
      PROVE  UNCHANGED <<statusBar, effectsBar, excusedBar>>
  <2>1. phase[c] = "invoke" /\ attempt[c] \in Attempts /\ req[c][attempt[c]] = "unsent"
    BY <1>5 DEF Send, Inv, LoopInv, Running, Attempts
  <2>2. \A d \in Calls : err'[d] = err[d] /\ Effects(d)' = Effects(d)
    BY <1>5, <2>1 DEF Send, Effects, Inv, TypeOK
  <2>3. phase' = [phase EXCEPT ![c] = "inflight"]
    BY <1>5 DEF Send
  <2>4. \A d \in Calls : \A a \in Attempts :
            a < attempt[d] => (req[d][a] = "unsent" <=> req'[d][a] = "unsent")
    BY <1>5, <2>1, RetryAssumption DEF Send, Inv, TypeOK, Attempts
  <2>5. UNCHANGED excusedBar
    BY <1>5, <2>4, ExcusedStays DEF Send
  <2> QED
    BY <2>1, <2>2, <2>3, <2>5, InnerStep DEF Phases
<1>6. ASSUME NEW c \in Calls, NEW a \in Attempts, Lose(c, a)
      PROVE  UNCHANGED <<statusBar, effectsBar, excusedBar>>
  <2>1. \A d \in Calls : Effects(d)' = Effects(d)
    BY <1>6 DEF Lose, Effects, Inv, TypeOK
  <2>2. UNCHANGED excusedBar
    BY <1>6, ExcusedStays DEF Lose, Inv, TypeOK
  <2> QED
    BY <1>6, <2>1, <2>2, OuterStep DEF Lose
<1>7. ASSUME NEW c \in Calls, NEW a \in Attempts, Execute(c, a)
      PROVE  [WO!Next]_<<statusBar, effectsBar, excusedBar>>
  <2>1. /\ \A d \in Calls : d # c => Effects(d)' = Effects(d)
        /\ Effects(c)' = Effects(c) \cup {a}
        /\ UNCHANGED <<phase, err>> /\ req[c][a] = "sent"
    BY <1>7 DEF Execute, Effects, Inv, TypeOK
  <2>2. Mutations' = Mutations
    BY DEF Mutations, RetryPolicy
  <2>3. UNCHANGED statusBar
    BY <2>1, <2>2 DEF statusBar, Outcome
  <2>6. UNCHANGED excusedBar
    BY <1>7, ExcusedStays DEF Execute, Inv, TypeOK
  <2>4. CASE c \notin Mutations
    BY <2>1, <2>2, <2>3, <2>4, <2>6 DEF effectsBar, Mutations
  <2>5. CASE c \in Mutations
    <3>2. effectsBar' = [effectsBar EXCEPT ![c] = @ \cup {a}] /\ effectsBar[c] = Effects(c)
      BY <2>1, <2>2, <2>5 DEF effectsBar, Mutations
    <3>1. CASE Excused(c)
      BY <2>3, <2>5, <2>6, <3>1, <3>2 DEF WO!Next, WO!Apply, excusedBar
    <3>3. CASE ~ Excused(c)
      <4>1. Effects(c) = {} /\ err[c].desc # "noTransport"
        BY <2>1, <2>5, <3>3, SingleRequest DEF Effects
      <4>3. phase[c] # "idle"
        <5>1. ~ (a < attempt[c])
          BY <2>1, <2>5, <3>3 DEF Inv, RetryInv, Harmless, Excused
        <5> QED
          BY <2>1, <5>1 DEF Inv, LoopInv
      <4>4. err[c] # OK
        BY <4>1 DEF Inv, OkInv
      <4>5. statusBar[c] \in {"pending", "unknown"}
        BY <2>5, <4>1, <4>3, <4>4 DEF statusBar, Outcome
      <4> QED
        BY <2>3, <2>5, <2>6, <3>2, <4>1, <4>5 DEF WO!Next, WO!Apply
    <3> QED
      BY <3>1, <3>3
  <2> QED
    BY <2>4, <2>5
<1>8. CASE (\E c \in Calls : EndContext(c)) \/ Close \/ SetEndpoints \/ UNCHANGED vars
  <2>1. UNCHANGED <<statusBar, effectsBar>>
    BY <1>8, OuterStep DEF EndContext, Close, SetEndpoints, vars, Effects
  <2>2. UNCHANGED excusedBar
    BY <1>8, ExcusedStays DEF EndContext, Close, SetEndpoints, vars
  <2> QED
    BY <2>1, <2>2
<1> QED
  BY <1>1, <1>2, <1>3, <1>4, <1>5, <1>6, <1>7, <1>8
  DEF Next, CallStep, ServerStep, FailUnsent, Answer

\* The retry loop implements WriteOnce, whatever servers answer.
THEOREM Refinement == Spec => ImplementsWriteOnce
<1>1. Init => WO!Init
  BY RetryAssumption DEF Init, WO!Init, statusBar, effectsBar, excusedBar, Excused,
                         Outcome, Effects, Mutations
<1>2. Inv /\ [Next]_vars => [WO!Next]_<<statusBar, effectsBar, excusedBar>>
  BY StepRefines
<1> QED
  BY <1>1, <1>2, Invariance, PTL DEF Spec, ImplementsWriteOnce, WO!Spec
===============================================================================
