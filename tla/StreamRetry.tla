------------------------------ MODULE StreamRetry ------------------------------
(***************************************************************************)
(* One iteration over a table: KV.Iterate opens a server stream through    *)
(* streamClientInterceptor, the iterator calls Recv, the retrying stream   *)
(* re-establishes the gRPC stream while nothing was received yet, and the  *)
(* consumer gets pages and errors through its callback.                    *)
(*                                                                         *)
(* Each gRPC stream is a scan of its own: a server fixes how many pages it *)
(* has when the stream opens, so that pages of two streams do not fit      *)
(* together.                                                               *)
(***************************************************************************)
EXTENDS RetryRules, Sequences

CONSTANTS
    Max,         \* callOpts.max, the attempts of one Recv
    MaxPages,    \* bound: pages of one scan
    MaxErrors,   \* bound: errors after which the consumer gives up
    ServerCodes  \* the status codes with which servers end a stream

ASSUME StreamAssumption ==
    /\ Max \in Nat \ {0}
    /\ MaxPages \in Nat
    /\ MaxErrors \in Nat \ {0}
    /\ ServerCodes \subseteq Codes

VARIABLES
    phase,        \* where the goroutine of the consumer stands
    attempt,      \* the loop variable of RecvMsg, 0 for its first receive
    ctx,          \* the context of the iteration
    receivedGood, \* serverStreamingRetryingStream.receivedGood
    stream,       \* the current gRPC stream
    lastErr,      \* the error that the next yield or return carries
    yielded,      \* the pages the callback got (history)
    errors        \* the errors the callback got

vars == <<phase, attempt, ctx, receivedGood, stream, lastErr, yielded, errors>>

\* A stream: its number, the pages of its scan, how many were received, and
\* how it ended. Once it has ended, every receive from it returns that again.
EOF == [code |-> "EOF", desc |-> "other"]
Streams == [id : Nat, pages : 0..MaxPages, pos : 0..MaxPages,
            end : Errors \cup {None, EOF}]
NewStream(id, pages) == [id |-> id, pages |-> pages, pos |-> 0, end |-> None]

Phases == {"idle", "recv", "wait", "backoff", "reopen",
           "page", "error", "eof", "stopped", "failed"}

\* In these phases the consumer has control.
AtConsumer == {"page", "error", "eof", "stopped", "failed"}

TypeOK ==
    /\ phase \in Phases
    /\ attempt \in 0..(Max - 1)
    /\ ctx \in {"alive"} \cup ContextCodes
    /\ receivedGood \in BOOLEAN
    /\ stream \in Streams
    /\ lastErr \in Errors \cup {None}
    /\ yielded \in Seq(Nat \X (1..MaxPages))
    /\ errors \in 0..MaxErrors

Init ==
    /\ phase = "idle"
    /\ attempt = 0
    /\ ctx = "alive"
    /\ receivedGood = FALSE
    /\ stream = NewStream(0, 0)
    /\ lastErr = None
    /\ yielded = <<>>
    /\ errors = 0

-------------------------------------------------------------------------------
(* Opening the iteration *)

\* NewStream, SendMsg and CloseSend of the generated client succeed. SendMsg
\* buffers the request, which every later stream gets again.
Open ==
    /\ phase = "idle"
    /\ \E n \in 0..MaxPages : stream' = NewStream(stream.id + 1, n)
    /\ phase' = "recv"
    /\ UNCHANGED <<attempt, ctx, receivedGood, lastErr, yielded, errors>>

\* They do not: the interceptor does not retry here, and Do returns the error.
\* The connection may be closed at any time, which is why TRUE stands here.
OpenFails ==
    /\ phase = "idle"
    /\ \E e \in LocalErrors(ctx, TRUE) : lastErr' = toErr(ctx, e)
    /\ phase' = "failed"
    /\ UNCHANGED <<attempt, ctx, receivedGood, stream, yielded, errors>>

-------------------------------------------------------------------------------
(* RecvMsg *)

\* A page arrives and goes to the consumer's callback.
ReceivePage ==
    /\ phase = "recv"
    /\ stream.end = None
    /\ stream.pos < stream.pages
    /\ stream' = [stream EXCEPT !.pos = @ + 1]
    /\ receivedGood' = TRUE
    /\ yielded' = Append(yielded, <<stream.id, stream.pos + 1>>)
    /\ phase' = "page"
    /\ UNCHANGED <<attempt, ctx, lastErr, errors>>

\* The server ended its scan: io.EOF counts as a good receive and ends the
\* iterator's loop without a further call of the callback.
ReceiveEOF ==
    /\ phase = "recv"
    /\ \/ stream.end = None /\ stream.pos = stream.pages
       \/ stream.end = EOF
    /\ stream' = [stream EXCEPT !.end = EOF]
    /\ receivedGood' = TRUE
    /\ phase' = "eof"
    /\ UNCHANGED <<attempt, ctx, lastErr, yielded, errors>>

\* The error goes to the callback of the consumer, whatever it is.
Yield(e) ==
    /\ phase' = "error"
    /\ lastErr' = e
    /\ errors' = errors + 1
    /\ UNCHANGED attempt

\* Variant: earlier receives are not taken into account.
IndicatesRetry_always(e) == Retries("repeatable", ctx = "alive", e)

\* receiveMsgAndIndicateRetry: nothing is retried after a good receive.
IndicatesRetry(e) ==
    /\ ~ receivedGood
    /\ Retries("repeatable", ctx = "alive", e)

\* Variant: a receive that is to be retried is repeated on the failed stream.
ReceiveError_again ==
    /\ phase = "recv"
    /\ stream.end # EOF
    /\ \E e \in IF stream.end = None THEN SentErrors(ctx, ServerCodes) ELSE {stream.end} :
        /\ stream' = [stream EXCEPT !.end = e]
        /\ IF IndicatesRetry(e) THEN UNCHANGED <<phase, attempt, lastErr, errors>>
           ELSE Yield(e)
    /\ UNCHANGED <<ctx, receivedGood, yielded>>

\* The stream fails, or has failed before; RecvMsg tries again or gives up.
ReceiveError ==
    /\ phase = "recv"
    /\ stream.end # EOF
    /\ \E e \in IF stream.end = None THEN SentErrors(ctx, ServerCodes) ELSE {stream.end} :
        /\ stream' = [stream EXCEPT !.end = e]
        /\ IF IndicatesRetry(e) /\ AttemptsLeft(attempt, Max)
           THEN /\ phase' = "wait"
                /\ attempt' = NextAttempt(attempt)
                /\ lastErr' = e
                /\ UNCHANGED errors
           ELSE Yield(e)
    /\ UNCHANGED <<ctx, receivedGood, yielded>>

\* waitRetryBackoff: which attempts wait depends on the number of endpoints,
\* which is not part of this module.
SkipBackoff ==
    /\ phase = "wait"
    /\ phase' = "reopen"
    /\ UNCHANGED <<attempt, ctx, receivedGood, stream, lastErr, yielded, errors>>

StartBackoff ==
    /\ phase = "wait"
    /\ phase' = "backoff"
    /\ UNCHANGED <<attempt, ctx, receivedGood, stream, lastErr, yielded, errors>>

TimerFires ==
    /\ phase = "backoff"
    /\ phase' = "reopen"
    /\ UNCHANGED <<attempt, ctx, receivedGood, stream, lastErr, yielded, errors>>

BackoffCanceled ==
    /\ phase = "backoff"
    /\ ctx # "alive"
    /\ Yield([code |-> ctx, desc |-> "other"])
    /\ UNCHANGED <<ctx, receivedGood, stream, yielded>>

\* reestablishStreamAndResendBuffer and setStream.
Reopen ==
    /\ phase = "reopen"
    /\ \E n \in 0..MaxPages : stream' = NewStream(stream.id + 1, n)
    /\ phase' = "recv"
    /\ UNCHANGED <<attempt, ctx, receivedGood, lastErr, yielded, errors>>

\* A stream that cannot be re-established ends RecvMsg at once; the failed
\* stream stays the current one.
ReopenFails ==
    /\ phase = "reopen"
    /\ \E e \in LocalErrors(ctx, TRUE) : Yield(e)
    /\ UNCHANGED <<ctx, receivedGood, stream, yielded>>

-------------------------------------------------------------------------------
(* The consumer *)

\* The callback returned true: the iterator calls Recv again, after an error
\* as well as after a page. A consumer goes on after fewer than MaxErrors.
Continue ==
    /\ phase = "page" \/ (phase = "error" /\ errors < MaxErrors)
    /\ phase' = "recv"
    /\ attempt' = 0
    /\ UNCHANGED <<ctx, receivedGood, stream, lastErr, yielded, errors>>

\* The callback returned false.
Stop ==
    /\ phase \in {"page", "error"}
    /\ phase' = "stopped"
    /\ UNCHANGED <<attempt, ctx, receivedGood, stream, lastErr, yielded, errors>>

\* The consumer ranges over the same iterator again.
Resume ==
    /\ \/ phase = "stopped" /\ errors < MaxErrors
       \/ phase = "eof"
    /\ phase' = "recv"
    /\ attempt' = 0
    /\ UNCHANGED <<ctx, receivedGood, stream, lastErr, yielded, errors>>

EndContext ==
    /\ ctx = "alive"
    /\ \E why \in ContextCodes : ctx' = why
    /\ UNCHANGED <<phase, attempt, receivedGood, stream, lastErr, yielded, errors>>

-------------------------------------------------------------------------------
Receive == ReceivePage \/ ReceiveEOF \/ ReceiveError

Backoff == SkipBackoff \/ StartBackoff \/ TimerFires \/ BackoffCanceled

Reestablish == Reopen \/ ReopenFails

Next ==
    \/ Open \/ OpenFails \/ Receive \/ Backoff \/ Reestablish
    \/ Continue \/ Stop \/ Resume \/ EndContext

Spec == Init /\ [][Next]_vars

\* The goroutine runs, gRPC returns from opening a stream and from a receive
\* when the context is done, and the callback returns. Until then gRPC may wait
\* for a transport, and a server owes no page, no end and no error.
Fairness ==
    /\ WF_vars(Backoff)
    /\ WF_vars(ctx # "alive" /\ (Reestablish \/ Receive))
    /\ WF_vars(Continue \/ Stop)

FairSpec == Spec /\ Fairness

-------------------------------------------------------------------------------
(* Safety *)

\* The consumer sees the pages of a single scan, in order, none twice and none
\* left out, whatever streams failed before, through errors it ignores and
\* across iterations it breaks off and resumes (receivedGood is what keeps a
\* second scan from being appended to the first).
OneScan ==
    \E s \in {stream.id} : yielded = [i \in 1..Len(yielded) |-> <<s, i>>]

\* An iteration that ends without an error has yielded the whole scan: a
\* broken stream is never taken for its end.
CompleteAtEOF == phase = "eof" => Len(yielded) = stream.pages

(* Refinement of Scan *)

\* How the iteration looks to its consumer.
View ==
    CASE phase = "idle" -> "before"
      [] phase = "failed" -> "refused"
      [] phase = "stopped" -> "left"
      [] phase = "eof" -> "end"
      [] phase \in {"page", "error"} -> phase
      [] OTHER -> "waiting"

S == INSTANCE Scan WITH
        scan <- stream.id, total <- stream.pages, seen <- yielded,
        broken <- stream.end \in Errors, view <- View

\* The iterator over the retrying stream implements Scan: the errors that it
\* hides, the streams it replaces and the errors that a consumer ignores never
\* join two scans, leave a gap, or pass a broken scan off as a complete one.
ImplementsScan == S!Spec

(* Liveness *)

\* A consumer is not left waiting in Recv after its context is done.
DoneContextEndsRecv ==
    (ctx # "alive" /\ phase \notin {"idle"} \cup AtConsumer) ~> (phase \in AtConsumer)

\* A consumer that ignores a bounded number of errors leaves the iteration
\* when its context is done.
IterationEnds ==
    (ctx # "alive" /\ phase # "idle") ~> (phase \in {"eof", "stopped", "failed"})
===============================================================================
