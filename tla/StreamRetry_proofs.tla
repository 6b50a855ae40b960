-------------------------- MODULE StreamRetry_proofs --------------------------
(***************************************************************************)
(* Proofs about StreamRetry, for every number of attempts, pages and       *)
(* ignored errors.  The invariant ties the consumer's pages to the         *)
(* position in the current stream: while nothing was received the stream   *)
(* may be replaced, afterwards it never is.                                *)
(***************************************************************************)
EXTENDS StreamRetry, TLAPS

\* The pages of the scan of stream s up to page n.
Pages(s, n) == [i \in 1..n |-> <<s, i>>]

\* The callback got what the current stream delivered.
YieldInv == yielded = Pages(stream.id, stream.pos)

\* A retry is under way only while nothing was received.
GoodInv ==
    /\ ~ receivedGood => stream.pos = 0
    /\ phase \in {"idle", "wait", "backoff", "reopen"} => ~ receivedGood

\* A stream ends with EOF after its last page; errors are counted.
EndInv ==
    /\ stream.pos <= stream.pages
    /\ stream.end = EOF => stream.pos = stream.pages
    /\ phase = "eof" => stream.end = EOF
    /\ phase \notin {"error", "stopped", "failed"} => errors < MaxErrors

Inv == TypeOK /\ YieldInv /\ GoodInv /\ EndInv

LEMMA NewStreamFacts ==
    ASSUME NEW s \in Nat, NEW n \in 0..MaxPages
    PROVE  /\ NewStream(s, n) \in Streams
           /\ NewStream(s, n).id = s /\ NewStream(s, n).pages = n
           /\ NewStream(s, n).pos = 0 /\ NewStream(s, n).end = None
BY StreamAssumption DEF NewStream, Streams

\* Nothing delivered, nothing yielded.
LEMMA NoPages == \A s : Pages(s, 0) = <<>>
BY DEF Pages

LEMMA InitInv == Init => Inv
<1> SUFFICES ASSUME Init PROVE Inv
  OBVIOUS
<1>1. stream \in Streams /\ stream.pos = 0 /\ stream.pages = 0 /\ stream.end = None
  BY NewStreamFacts, StreamAssumption DEF Init
<1>2. TypeOK
  <2>1. yielded \in Seq(Nat \X (1..MaxPages))
    BY DEF Init
  <2>2. attempt \in 0..(Max - 1) /\ errors \in 0..MaxErrors
    BY StreamAssumption DEF Init
  <2>3. phase \in Phases /\ lastErr \in Errors \cup {None}
    BY DEF Init, Phases
  <2> QED
    BY <1>1, <2>1, <2>2, <2>3 DEF Init, TypeOK
<1>3. YieldInv
  BY <1>1, NoPages DEF Init, YieldInv
<1>4. GoodInv /\ EndInv
  BY <1>1, StreamAssumption DEF Init, GoodInv, EndInv, None, EOF
<1> QED
  BY <1>2, <1>3, <1>4 DEF Inv

\* A stream is opened while nothing was received.
LEMMA FreshStream ==
    ASSUME Inv, ~ receivedGood, NEW n \in 0..MaxPages,
           stream' = NewStream(stream.id + 1, n),
           phase' = "recv", errors < MaxErrors,
           UNCHANGED <<attempt, ctx, receivedGood, lastErr, yielded, errors>>
    PROVE  Inv'
<1>1. stream.id + 1 \in Nat
  BY DEF Inv, TypeOK, Streams
<1>2. stream' \in Streams /\ stream'.pos = 0 /\ stream'.pages = n /\ stream'.end = None
  BY <1>1, NewStreamFacts
<1>3. TypeOK'
  BY <1>2 DEF Inv, TypeOK, Phases
<1>4. YieldInv'
  BY <1>2, NoPages DEF Inv, GoodInv, YieldInv
<1>5. GoodInv' /\ EndInv'
  BY <1>2 DEF Inv, GoodInv, EndInv, None, EOF
<1> QED
  BY <1>3, <1>4, <1>5 DEF Inv

\* The consumer gets an error; what it was given so far stays.
LEMMA ErrorInv ==
    ASSUME Inv, NEW e \in Errors, phase \in {"recv", "backoff", "reopen"}, Yield(e),
           UNCHANGED <<ctx, receivedGood, yielded>>,
           \/ UNCHANGED stream
           \/ stream.end # EOF /\ stream' = [stream EXCEPT !.end = e]
    PROVE  Inv'
<1>1. e # EOF
  BY DEF Errors, Codes, ContextCodes, EOF
<1>2. /\ stream' \in Streams /\ stream'.id = stream.id /\ stream'.pos = stream.pos
      /\ stream'.pages = stream.pages /\ (stream'.end = EOF => stream.end = EOF)
  BY <1>1 DEF Inv, TypeOK, Streams
<1>3. TypeOK'
  BY <1>2, StreamAssumption DEF Inv, TypeOK, EndInv, Yield, Phases
<1>4. YieldInv'
  BY <1>2 DEF Inv, YieldInv
<1>5. GoodInv' /\ EndInv'
  BY <1>2 DEF Inv, GoodInv, EndInv, Yield
<1> QED
  BY <1>3, <1>4, <1>5 DEF Inv

LEMMA NextInv == Inv /\ [Next]_vars => Inv'
<1> SUFFICES ASSUME Inv, [Next]_vars PROVE Inv'
  OBVIOUS
<1> USE StreamAssumption
<1>1. CASE Open
  BY <1>1, FreshStream DEF Open, Inv, GoodInv, EndInv
<1>2. CASE OpenFails
  <2>1. lastErr' \in Errors
    BY <1>2 DEF OpenFails, LocalErrors, toErr, Inv, TypeOK, Errors, Codes, Descs
  <2> QED
    BY <1>2, <2>1 DEF OpenFails, Inv, TypeOK, YieldInv, GoodInv, EndInv, Phases
<1>3. CASE ReceivePage
  <2>1. /\ stream' \in Streams /\ stream'.id = stream.id /\ stream'.pos = stream.pos + 1
        /\ stream'.pages = stream.pages /\ stream'.end = stream.end
    <3>1. stream.pos + 1 \in 0..MaxPages
      BY <1>3 DEF ReceivePage, Inv, TypeOK, Streams
    <3>2. stream' = [stream EXCEPT !.pos = stream.pos + 1] /\ stream \in Streams
      BY <1>3 DEF ReceivePage, Inv, TypeOK
    <3> QED
      BY <3>1, <3>2 DEF Streams
  <2>2. yielded' = Pages(stream.id, stream.pos + 1)
    BY <1>3 DEF ReceivePage, Inv, TypeOK, Streams, YieldInv, Pages
  <2>3. <<stream.id, stream.pos + 1>> \in Nat \X (1..MaxPages)
    BY <1>3 DEF ReceivePage, Inv, TypeOK, Streams
  <2>4. TypeOK'
    BY <1>3, <2>1, <2>3 DEF ReceivePage, Inv, TypeOK, Phases
  <2>5. GoodInv' /\ EndInv'
    BY <1>3, <2>1 DEF ReceivePage, Inv, TypeOK, Streams, GoodInv, EndInv, None, EOF
  <2> QED
    BY <2>1, <2>2, <2>4, <2>5 DEF Inv, YieldInv
<1>4. CASE ReceiveEOF
  <2>1. /\ stream' \in Streams /\ stream'.id = stream.id /\ stream'.pos = stream.pos
        /\ stream'.pages = stream.pages /\ stream'.end = EOF
    BY <1>4 DEF ReceiveEOF, Inv, TypeOK, Streams
  <2>2. TypeOK'
    BY <1>4, <2>1 DEF ReceiveEOF, Inv, TypeOK, Phases
  <2>3. YieldInv' /\ GoodInv'
    BY <1>4, <2>1 DEF ReceiveEOF, Inv, YieldInv, GoodInv
  <2>4. EndInv'
    BY <1>4, <2>1 DEF ReceiveEOF, Inv, EndInv
  <2> QED
    BY <2>2, <2>3, <2>4 DEF Inv
<1>5. CASE ReceiveError
  <2>1. PICK e \in IF stream.end = None THEN SentErrors(ctx, ServerCodes) ELSE {stream.end} :
            /\ stream' = [stream EXCEPT !.end = e]
            /\ IF IndicatesRetry(e) /\ AttemptsLeft(attempt, Max)
               THEN /\ phase' = "wait" /\ attempt' = NextAttempt(attempt)
                    /\ lastErr' = e /\ UNCHANGED errors
               ELSE Yield(e)
    BY <1>5 DEF ReceiveError
  <2>2. e \in Errors
    BY <1>5, <2>1 DEF ReceiveError, SentErrors, Inv, TypeOK, Streams
  <2>3. CASE IndicatesRetry(e) /\ AttemptsLeft(attempt, Max)
    <3>1. e # EOF
      BY <2>2 DEF Errors, Codes, ContextCodes, EOF
    <3>2. /\ stream' \in Streams /\ stream'.id = stream.id /\ stream'.pos = stream.pos
          /\ stream'.pages = stream.pages /\ stream'.end # EOF
      BY <2>1, <2>2, <3>1 DEF Inv, TypeOK, Streams
    <3>3. TypeOK'
      BY <1>5, <2>1, <2>2, <2>3, <3>2 DEF ReceiveError, NextAttempt, AttemptsLeft, Inv, TypeOK, Phases
    <3>4. YieldInv'
      BY <1>5, <3>2 DEF ReceiveError, Inv, YieldInv
    <3>5. GoodInv' /\ EndInv'
      BY <1>5, <2>1, <2>3, <3>2 DEF ReceiveError, IndicatesRetry, Inv, GoodInv, EndInv
    <3> QED
      BY <3>3, <3>4, <3>5 DEF Inv
  <2>4. CASE ~ (IndicatesRetry(e) /\ AttemptsLeft(attempt, Max))
    BY <1>5, <2>1, <2>2, <2>4, ErrorInv DEF ReceiveError
  <2> QED
    BY <2>3, <2>4
<1>6. CASE SkipBackoff \/ StartBackoff \/ TimerFires
  BY <1>6 DEF SkipBackoff, StartBackoff, TimerFires, Inv, TypeOK, YieldInv, GoodInv,
              EndInv, Phases
<1>7. CASE BackoffCanceled
  <2>1. [code |-> ctx, desc |-> "other"] \in Errors
    BY <1>7 DEF BackoffCanceled, Inv, TypeOK, Errors, Codes, Descs
  <2> QED
    BY <1>7, <2>1, ErrorInv DEF BackoffCanceled
<1>8. CASE Reopen
  BY <1>8, FreshStream DEF Reopen, Inv, GoodInv, EndInv
<1>9. CASE ReopenFails
  BY <1>9, ErrorInv DEF ReopenFails, LocalErrors
<1>10. CASE Continue \/ Resume
  BY <1>10 DEF Continue, Resume, Inv, TypeOK, YieldInv, GoodInv, EndInv, Phases
<1>11. CASE Stop \/ EndContext
  BY <1>11 DEF Stop, EndContext, Inv, TypeOK, YieldInv, GoodInv, EndInv, Phases
<1>12. CASE UNCHANGED vars
  BY <1>12 DEF vars, Inv, TypeOK, YieldInv, GoodInv, EndInv
<1> QED
  BY <1>1, <1>2, <1>3, <1>4, <1>5, <1>6, <1>7, <1>8, <1>9, <1>10, <1>11, <1>12
  DEF Next, Receive, Backoff, Reestablish

\* Inv holds in every reachable state, for every choice of the constants.
THEOREM Invariance == Spec => []Inv
BY InitInv, NextInv, PTL DEF Spec

\* The consumer of an iteration sees one scan in order, whatever was retried
\* (receivedGood in serverStreamingRetryingStream, interceptor.go:173-195).
THEOREM OneScanOnly == Spec => []OneScan
<1>1. Inv => OneScan
  BY DEF Inv, TypeOK, Streams, YieldInv, Pages, OneScan
<1> QED
  BY <1>1, Invariance, PTL

\* An iteration that ends without an error has yielded its whole scan.
THEOREM EOFIsComplete == Spec => []CompleteAtEOF
<1>1. Inv => CompleteAtEOF
  BY DEF Inv, TypeOK, Streams, YieldInv, EndInv, Pages, CompleteAtEOF
<1> QED
  BY <1>1, Invariance, PTL

\* Type correctness: the loop variable of RecvMsg stays below the maximum, and
\* the consumer's errors below the bound.
THEOREM TypeCorrect == Spec => []TypeOK
<1>1. Inv => TypeOK
  BY DEF Inv
<1> QED
  BY <1>1, Invariance, PTL

-------------------------------------------------------------------------------
(* Refinement of Scan *)

\* A scan ends as broken or as complete, and as many pages were seen as it
\* delivered.
LEMMA ScanFacts ==
    ASSUME Inv
    PROVE  /\ Len(yielded) = stream.pos
           /\ stream.pos \in Nat /\ stream.id \in Nat
           /\ stream.end \in Errors <=> stream.end \notin {None, EOF}
           /\ ~ receivedGood => yielded = <<>>
<1>1. stream.pos \in Nat /\ stream.id \in Nat /\ stream.end \in Errors \cup {None, EOF}
  BY DEF Inv, TypeOK, Streams
<1>2. Len(yielded) = stream.pos
  BY <1>1 DEF Inv, YieldInv, Pages
<1>3. None \notin Errors /\ EOF \notin Errors
  BY DEF None, EOF, Errors, Codes, ContextCodes
<1>4. ~ receivedGood => yielded = <<>>
  BY NoPages DEF Inv, YieldInv, GoodInv
<1> QED
  BY <1>1, <1>2, <1>3, <1>4

\* Each step of the iterator, the retrying stream or the consumer is a step of
\* Scan or invisible to it.
LEMMA StepImplements == Inv /\ [Next]_vars => [S!Next]_S!scanVars
<1> SUFFICES ASSUME Inv, [Next]_vars PROVE [S!Next]_S!scanVars
  OBVIOUS
<1> USE DEF S!scanVars
<1>0. /\ Len(yielded) = stream.pos
      /\ stream.end \in Errors <=> stream.end \notin {None, EOF}
      /\ ~ receivedGood => yielded = <<>>
      /\ stream \in Streams
  BY ScanFacts DEF Inv, TypeOK
\* A new stream, opened while nothing was received.
<1>1. CASE Open \/ Reopen
  <2>1. PICK n \in 0..MaxPages : stream' = NewStream(stream.id + 1, n)
    BY <1>1 DEF Open, Reopen
  <2>2. /\ stream'.id = stream.id + 1 /\ stream'.pages \in 0..MaxPages
        /\ stream'.end = None
    BY <2>1 DEF NewStream
  <2>3. ~ (stream'.end \in Errors)
    BY <2>2 DEF None, Errors, Codes, ContextCodes
  <2>4. View \in {"before", "waiting"} /\ View' = "waiting" /\ yielded = <<>> /\ yielded' = yielded
    BY <1>0, <1>1 DEF Open, Reopen, View, Inv, GoodInv
  <2>5. S!Begin
    BY <2>2, <2>3, <2>4 DEF S!Begin
  <2> QED
    BY <2>5 DEF S!Next
<1>2. CASE OpenFails
  <2>1. S!Refuse
    BY <1>2 DEF OpenFails, View, S!Refuse
  <2> QED
    BY <2>1 DEF S!Next
<1>3. CASE ReceivePage
  <2>1. /\ stream'.id = stream.id /\ stream'.pages = stream.pages
        /\ stream'.end = stream.end /\ stream.end = None
    BY <1>0, <1>3 DEF ReceivePage, Streams
  <2>2. View = "waiting" /\ View' = "page"
    BY <1>3 DEF ReceivePage, View
  <2>3. S!Page
    BY <1>0, <1>3, <2>1, <2>2 DEF ReceivePage, S!Page
  <2> QED
    BY <2>3 DEF S!Next
<1>4. CASE ReceiveEOF
  <2>1. /\ stream'.id = stream.id /\ stream'.pages = stream.pages /\ stream'.end = EOF
        /\ stream.pos = stream.pages
    BY <1>0, <1>4 DEF ReceiveEOF, Streams, Inv, EndInv
  <2>2. ~ (stream.end \in Errors) /\ ~ (stream'.end \in Errors)
    BY <1>0, <1>4, <2>1 DEF ReceiveEOF, EOF, Errors, Codes, ContextCodes
  <2>3. View = "waiting" /\ View' = "end" /\ yielded' = yielded
    BY <1>4 DEF ReceiveEOF, View
  <2>4. S!End
    BY <1>0, <2>1, <2>2, <2>3 DEF S!End
  <2> QED
    BY <2>4 DEF S!Next
<1>5. CASE ReceiveError \/ BackoffCanceled \/ ReopenFails
  <2>1. View = "waiting" /\ View' \in {"waiting", "error"} /\ yielded' = yielded
    BY <1>5 DEF ReceiveError, BackoffCanceled, ReopenFails, Yield, View
  <2>2. /\ stream'.id = stream.id /\ stream'.pages = stream.pages
        /\ (stream.end \in Errors) => (stream'.end \in Errors)
    <3>1. CASE ReceiveError
      <4>1. PICK e \in IF stream.end = None THEN SentErrors(ctx, ServerCodes) ELSE {stream.end} :
                stream' = [stream EXCEPT !.end = e]
        BY <3>1 DEF ReceiveError
      <4> QED
        BY <1>0, <4>1 DEF SentErrors, Streams
    <3>2. CASE BackoffCanceled \/ ReopenFails
      BY <3>2 DEF BackoffCanceled, ReopenFails
    <3> QED
      BY <1>5, <3>1, <3>2
  <2>3. S!Fail
    <3>1. (stream'.end \in Errors) \in BOOLEAN
      OBVIOUS
    <3> QED
      BY <2>1, <2>2, <3>1 DEF S!Fail
  <2> QED
    BY <2>3 DEF S!Next
<1>6. CASE Stop
  <2>1. S!Leave
    BY <1>6 DEF Stop, View, S!Leave
  <2> QED
    BY <2>1 DEF S!Next
<1>7. CASE Continue \/ Resume
  <2>1. S!Ask
    BY <1>7 DEF Continue, Resume, View, S!Ask
  <2> QED
    BY <2>1 DEF S!Next
<1>8. CASE SkipBackoff \/ StartBackoff \/ TimerFires \/ EndContext \/ UNCHANGED vars
  BY <1>8 DEF SkipBackoff, StartBackoff, TimerFires, EndContext, vars, View
<1> QED
  BY <1>1, <1>2, <1>3, <1>4, <1>5, <1>6, <1>7, <1>8
  DEF Next, Receive, Backoff, Reestablish

\* The iterator over the retrying stream implements Scan, for every number of
\* attempts, pages and ignored errors.
THEOREM ScanRefinement == Spec => ImplementsScan
<1>1. Init => S!Init
  <2> SUFFICES ASSUME Init PROVE S!Init
    OBVIOUS
  <2>1. stream.id = 0 /\ stream.pages = 0 /\ stream.end = None
    BY DEF Init, NewStream
  <2>2. ~ (stream.end \in Errors)
    BY <2>1 DEF None, Errors, Codes, ContextCodes
  <2> QED
    BY <2>1, <2>2 DEF Init, S!Init, View
<1> QED
  BY <1>1, StepImplements, Invariance, PTL DEF Spec, ImplementsScan, S!Spec
===============================================================================
