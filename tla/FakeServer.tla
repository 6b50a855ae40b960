------------------------------ MODULE FakeServer ------------------------------
(***************************************************************************)
(* NewFake: a server with a script of responses, and the clients of a test *)
(* that call it through the retrying interceptors.  gRPC runs every        *)
(* handler on a goroutine of its own; the handlers append to               *)
(* recordedRequests and count fakeResponsesIdx without a lock, and the     *)
(* loads and stores of that are separate steps here.                       *)
(*                                                                         *)
(* A caller of Iterate goes on as soon as its stream is open; the server's *)
(* handler may start later, and retries of a stream happen when the caller *)
(* reads from it.                                                          *)
(***************************************************************************)
EXTENDS Operations, RetryRules

CONSTANTS
    Callers,  \* goroutines of the test
    Tests,    \* what the goroutines call, and the list that NewFake is given
    MaxAttempts \* bound: attempts of a call (callOpts.max)

\* A scripted response: the kind of its OpResponse, and its error. An iterErr is
\* an iteration that yields an error.
Kinds == {"get", "iter", "iterErr", "put", "del", "txn"}
Responses == [kind : Kinds, err : {OK} \cup {e \in Errors : e.code # "notStatus"}]

ASSUME FakeAssumption ==
    /\ \A test \in Tests : test = [program |-> test.program, script |-> test.script]
    /\ \A test \in Tests : test.script \in Seq(Responses)
    /\ \A test \in Tests : \A c \in Callers :
        /\ Len(test.program[c]) \in Nat
        /\ DOMAIN test.program[c] = 1..Len(test.program[c])
    /\ \A test \in Tests : \A c \in Callers : \A i \in DOMAIN test.program[c] :
        /\ IsCall(test.program[c][i])
        /\ OpsOfCall(test.program[c][i]) # {}
        /\ Sendable(OpOfCall(test.program[c][i]))
    /\ MaxAttempts \in Nat \ {0}

VARIABLES
    program,           \* the calls that each of Callers makes in this test
    fakeResponses,     \* the script of this test
    recordedRequests,  \* the slice of the server
    fakeResponsesIdx,  \* its counter
    handlers,          \* a record per RPC, in the order in which they were sent
    made,              \* how many calls of its program each caller has made
    waiting,           \* the RPC that a caller waits for, 0 if none
    open,              \* the streams of a caller that it has not read
    crashed,           \* a handler panicked, which ends the process
    history            \* what happened, for the properties only

vars == <<program, fakeResponses, recordedRequests, fakeResponsesIdx, handlers,
          made, waiting, open, crashed, history>>

\* The kind of response that the handler of each operation asks for.
KindFor == [range |-> "get", iterate |-> "iter", put |-> "put",
            delete |-> "del", txn |-> "txn"]

\* retryKVClient: which calls may be repeated.
PolicyOf(call) == IF call.t \in {"range", "iterate"} THEN "repeatable" ELSE "nonRepeatable"

CallOf(h) == program[handlers[h].c][handlers[h].i]
OpOfRPC(h) == OpOfCall(CallOf(h))
RecordOf(h) == Recorded(Request(OpOfRPC(h)))

\* An RPC and where its handler stands. header, choice and count are what the
\* handler has loaded; turn is its place in the order of starts (history).
NewRPC(c, i, attempt) ==
    [c |-> c, i |-> i, attempt |-> attempt, pc |-> "sent", turn |-> 0,
     header |-> <<>>, choice |-> 0, count |-> 0, answer |-> None]

Touching == {"append", "written", "pick", "load", "store"}
Started == {h \in DOMAIN handlers : handlers[h].pc # "sent"}
Busy == {h \in DOMAIN handlers : handlers[h].pc \in Touching}

Init ==
    /\ \E test \in Tests : program = test.program /\ fakeResponses = test.script
    /\ recordedRequests = <<>>
    /\ fakeResponsesIdx = 0
    /\ handlers = <<>>
    /\ made = [c \in Callers |-> 0]
    /\ waiting = [c \in Callers |-> 0]
    /\ open = [c \in Callers |-> {}]
    /\ crashed = FALSE
    /\ history = [starts |-> 0, overlapped |-> FALSE, gaveUp |-> FALSE, leftOpen |-> FALSE]

Places == {"sent", "append", "written", "pick", "load", "store", "respond", "done"}

\* The choices, loads and counts stay within what the handlers have done.
TypeOK ==
    /\ [program |-> program, script |-> fakeResponses] \in Tests
    /\ Len(recordedRequests) <= history.starts
    /\ fakeResponsesIdx \in 0..history.starts
    /\ made \in [Callers -> Nat]
    /\ waiting \in [Callers -> 0..Len(handlers)]
    /\ open \in [Callers -> SUBSET DOMAIN handlers]
    /\ crashed \in BOOLEAN
    /\ history \in [starts : 0..Len(handlers), overlapped : BOOLEAN, gaveUp : BOOLEAN,
                   leftOpen : BOOLEAN]
    /\ \A h \in DOMAIN handlers :
        /\ handlers[h].c \in Callers
        /\ handlers[h].i \in 1..made[handlers[h].c]
        /\ handlers[h].attempt \in 0..(MaxAttempts - 1)
        /\ handlers[h].pc \in Places
        /\ handlers[h].turn \in 0..history.starts
        /\ handlers[h].choice \in 0..Len(fakeResponses)
        /\ handlers[h].count \in 0..history.starts
        /\ handlers[h].answer \in Errors \cup {OK, None}

-------------------------------------------------------------------------------
(* Callers *)

\* The next call of a caller. Iterate returns when the request is on its way.
Call(c) ==
    /\ ~ crashed /\ waiting[c] = 0 /\ made[c] < Len(program[c])
    /\ LET i == made[c] + 1
           h == Len(handlers) + 1
       IN  /\ handlers' = Append(handlers, NewRPC(c, i, 0))
           /\ IF program[c][i].t = "iterate"
              THEN open' = [open EXCEPT ![c] = @ \cup {h}] /\ UNCHANGED waiting
              ELSE waiting' = [waiting EXCEPT ![c] = h] /\ UNCHANGED open
    /\ made' = [made EXCEPT ![c] = @ + 1]
    /\ history' = [history EXCEPT !.leftOpen = @ \/ open[c] # {}]
    /\ UNCHANGED <<program, fakeResponses, recordedRequests, fakeResponsesIdx, crashed>>

\* The caller reads a stream to its end.
ReadStream(c) ==
    /\ ~ crashed /\ waiting[c] = 0
    /\ \E h \in open[c] :
        /\ waiting' = [waiting EXCEPT ![c] = h]
        /\ open' = [open EXCEPT ![c] = @ \ {h}]
    /\ UNCHANGED <<program, fakeResponses, recordedRequests, fakeResponsesIdx,
                   handlers, made, crashed, history>>

\* Whether the interceptor sends the request of h again.
Again(h) ==
    /\ handlers[h].answer # OK
    /\ Retries(PolicyOf(CallOf(h)), TRUE, handlers[h].answer)
    /\ AttemptsLeft(handlers[h].attempt, MaxAttempts)

\* An answer reaches the interceptor, which returns it to the caller, or the
\* request is sent again.
Answered(c) ==
    /\ ~ crashed /\ waiting[c] # 0 /\ handlers[waiting[c]].pc = "done"
    /\ LET h == waiting[c]
       IN  IF Again(h)
           THEN /\ handlers' = Append(handlers,
                        NewRPC(c, handlers[h].i, NextAttempt(handlers[h].attempt)))
                /\ waiting' = [waiting EXCEPT ![c] = Len(handlers) + 1]
           ELSE /\ waiting' = [waiting EXCEPT ![c] = 0]
                /\ UNCHANGED handlers
    /\ UNCHANGED <<program, fakeResponses, recordedRequests, fakeResponsesIdx,
                   made, open, crashed, history>>

\* The context of a call ends: the caller goes on, the handler is not told.
GiveUp(c) ==
    /\ ~ crashed /\ waiting[c] # 0
    /\ waiting' = [waiting EXCEPT ![c] = 0]
    /\ history' = [history EXCEPT !.gaveUp = TRUE]
    /\ UNCHANGED <<program, fakeResponses, recordedRequests, fakeResponsesIdx,
                   handlers, made, open, crashed>>

-------------------------------------------------------------------------------
(* Handlers *)

\* A handler starts: append loads the slice.
LoadRecorded(h) ==
    /\ ~ crashed /\ handlers[h].pc = "sent"
    /\ handlers' = [handlers EXCEPT ![h].pc = "append", ![h].header = recordedRequests,
                                    ![h].turn = history.starts + 1]
    /\ history' = [history EXCEPT !.starts = @ + 1, !.overlapped = @ \/ Busy # {}]
    /\ UNCHANGED <<program, fakeResponses, recordedRequests, fakeResponsesIdx,
                   made, waiting, open, crashed>>

\* append writes its element into the array of the slice, or into a new one if
\* that is full. The array may be that of a longer slice which another handler
\* has stored since.
WriteElement(h) ==
    /\ ~ crashed /\ handlers[h].pc = "append"
    /\ handlers' = [handlers EXCEPT ![h].pc = "written"]
    /\ LET n == Len(handlers[h].header) + 1
       IN  \/ UNCHANGED recordedRequests
           \/ /\ n <= Len(recordedRequests)
              /\ recordedRequests' = [recordedRequests EXCEPT ![n] = RecordOf(h)]
    /\ UNCHANGED <<program, fakeResponses, fakeResponsesIdx, made, waiting, open,
                   crashed, history>>

\* append stores the slice. Its last element is what the handler wrote, or what
\* another one wrote to the same place.
StoreRecorded(h) ==
    /\ ~ crashed /\ handlers[h].pc = "written"
    /\ \E g \in DOMAIN handlers :
        /\ handlers[g].pc \notin {"sent", "append"}
        /\ Len(handlers[g].header) = Len(handlers[h].header)
        /\ recordedRequests' = Append(handlers[h].header, RecordOf(g))
    /\ handlers' = [handlers EXCEPT ![h].pc =
                        IF fakeResponses = <<>> THEN "respond" ELSE "pick"]
    /\ UNCHANGED <<program, fakeResponses, fakeResponsesIdx, made, waiting, open,
                   crashed, history>>

\* Variant: the counter is not taken modulo the length of the script.
PickResponse_capped(h) ==
    /\ ~ crashed /\ handlers[h].pc = "pick"
    /\ handlers' = [handlers EXCEPT ![h].pc = "load", ![h].choice =
            IF fakeResponsesIdx < Len(fakeResponses) THEN fakeResponsesIdx + 1
            ELSE Len(fakeResponses)]
    /\ UNCHANGED <<program, fakeResponses, recordedRequests, fakeResponsesIdx,
                   made, waiting, open, crashed, history>>

\* The counter is loaded to choose a response, round robin.
PickResponse(h) ==
    /\ ~ crashed /\ handlers[h].pc = "pick"
    /\ handlers' = [handlers EXCEPT ![h].pc = "load",
                        ![h].choice = (fakeResponsesIdx % Len(fakeResponses)) + 1]
    /\ UNCHANGED <<program, fakeResponses, recordedRequests, fakeResponsesIdx,
                   made, waiting, open, crashed, history>>

\* It is loaded again to be incremented.
LoadIdx(h) ==
    /\ ~ crashed /\ handlers[h].pc = "load"
    /\ handlers' = [handlers EXCEPT ![h].pc = "store", ![h].count = fakeResponsesIdx]
    /\ UNCHANGED <<program, fakeResponses, recordedRequests, fakeResponsesIdx,
                   made, waiting, open, crashed, history>>

\* Variant: the counter stays where it is.
StoreIdx_stuck(h) ==
    /\ ~ crashed /\ handlers[h].pc = "store"
    /\ handlers' = [handlers EXCEPT ![h].pc = "respond"]
    /\ UNCHANGED <<program, fakeResponses, recordedRequests, fakeResponsesIdx,
                   made, waiting, open, crashed, history>>

StoreIdx(h) ==
    /\ ~ crashed /\ handlers[h].pc = "store"
    /\ fakeResponsesIdx' = handlers[h].count + 1
    /\ handlers' = [handlers EXCEPT ![h].pc = "respond"]
    /\ UNCHANGED <<program, fakeResponses, recordedRequests, made, waiting, open,
                   crashed, history>>

\* The response chosen, a success if there is no script. An error is returned
\* before the kind of the response matters.
Response(h) ==
    IF fakeResponses = <<>> THEN [kind |-> KindFor[CallOf(h).t], err |-> OK]
    ELSE fakeResponses[handlers[h].choice]

Respond(h) ==
    /\ ~ crashed /\ handlers[h].pc = "respond"
    /\ Response(h).err # OK \/ Response(h).kind = KindFor[CallOf(h).t]
    /\ handlers' = [handlers EXCEPT ![h].pc = "done", ![h].answer = Response(h).err]
    /\ UNCHANGED <<program, fakeResponses, recordedRequests, fakeResponsesIdx,
                   made, waiting, open, crashed, history>>

\* A response of another kind is a nil pointer to this handler, and an iteration
\* that yields an error has a nil page.
Panic(h) ==
    /\ ~ crashed /\ handlers[h].pc = "respond"
    /\ Response(h).err = OK /\ Response(h).kind # KindFor[CallOf(h).t]
    /\ crashed' = TRUE
    /\ UNCHANGED <<program, fakeResponses, recordedRequests, fakeResponsesIdx,
                   handlers, made, waiting, open, history>>

Next ==
    \/ \E c \in Callers : Call(c) \/ ReadStream(c) \/ Answered(c) \/ GiveUp(c)
    \/ \E h \in DOMAIN handlers :
        \/ LoadRecorded(h) \/ WriteElement(h) \/ StoreRecorded(h)
        \/ PickResponse(h) \/ LoadIdx(h) \/ StoreIdx(h)
        \/ Respond(h) \/ Panic(h)

Spec == Init /\ [][Next]_vars

-------------------------------------------------------------------------------
(* Properties *)

\* A call with a prefix is recorded as a request for the keys that start with
\* it: also if it ends in the largest byte, is empty, or comes with options
\* before and after. Keys of a table are not empty.
PrefixCovers ==
    \A h \in DOMAIN handlers :
        AsksForPrefix(CallOf(h)) =>
            \A k \in Keys \ {<<>>} :
                InRange(k, RecordOf(h)) <=> IsPrefix(CallOf(h).key, k)

\* Whatever is in recordedRequests is what the caller of some request expects
\* to find: apart from those named in Ignored, no option is lost between the
\* call, the request (alone or in a transaction) and the record.
RecordedIsExpected ==
    \A n \in DOMAIN recordedRequests :
        \E h \in Started : recordedRequests[n] = Expected(OpOfRPC(h))

\* While no two handlers have overlapped: every handler that has appended is
\* recorded at its turn, retries included, and gets the response of its turn.
OrderlyUnlessOverlapped ==
    ~ history.overlapped =>
        \A h \in Started :
            /\ handlers[h].pc \notin {"append", "written"} =>
                 /\ handlers[h].turn <= Len(recordedRequests)
                 /\ recordedRequests[handlers[h].turn] = RecordOf(h)
            /\ handlers[h].pc \in {"load", "store", "respond", "done"} /\ fakeResponses # <<>> =>
                 handlers[h].choice = ((handlers[h].turn - 1) % Len(fakeResponses)) + 1

\* A test with one caller, which waits for the end of each call and reads each
\* stream before its next call, and whose script has a success of the right
\* kind for each call in order, gets that script: nothing crashes, and the
\* n-th call gets the n-th response.
Scripted(c) ==
    /\ \A d \in Callers \ {c} : program[d] = <<>>
    /\ Len(program[c]) <= Len(fakeResponses)
    /\ \A i \in DOMAIN program[c] :
        fakeResponses[i] = [kind |-> KindFor[program[c][i].t], err |-> OK]

SequentialTestGetsItsScript ==
    \A c \in Callers :
        Scripted(c) /\ ~ history.gaveUp /\ ~ history.leftOpen =>
            /\ ~ crashed /\ ~ history.overlapped
            /\ \A h \in DOMAIN handlers :
                handlers[h].choice \in {0, handlers[h].i}
===============================================================================
