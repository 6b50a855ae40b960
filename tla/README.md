# A verification of the regatta Go client

This directory holds TLA+ models of the regatta client library (the Go module
`github.com/jamf/regatta-go`), configurations with which TLC checks them, and
proofs that TLAPS checks. File and line references are to the repository.

## The system

A program makes one `Client` (`client.go`) and uses it from many goroutines.
Its parts, their state, and what makes them correct:

| Part | State | Operations | Interacts with | Correct when |
|---|---|---|---|---|
| unary retry (`interceptor.go` 22-58, 218-338; policies in `kv.go` 475-557, `tables.go`, `cluster.go`) | the attempt, the last error | every unary RPC | gRPC, the endpoints (for the backoff), the caller's context | a mutation is not executed twice, a read tries on, every call returns when its context is done |
| streaming retry (`interceptor.go` 68-216) and iterator (`kv.go` 348-374) | `receivedGood`, the buffered request, the current gRPC stream | open, `Recv`, re-establish | gRPC, the consumer's callback | a consumer sees one scan, none of it twice, and knows its end from a failure |
| endpoints, `Sync`, `autoSync` (`client.go` 116-191) | `Client.endpoints` under `epMu` | `SetEndpoints`, `Sync`, `Endpoints`, the ticker | `MemberList`, the resolver | the client and the balancer use the same, current list |
| resolver (`internal/resolver`) | its own endpoint list, gRPC's `ClientConn` | `Build` (called by gRPC), `SetEndpoints` | gRPC's balancer | the balancer gets the last list |
| start and close (`client.go` 97-109, 295-386) | context, connection, hooks | `New`, `Close` | all others | `New` returns and leaves nothing behind; hooks see both ends |
| version check (`client.go` 404-453), `Status` (`cluster.go` 47-91) | a goroutine per endpoint, a channel, a `WaitGroup` | `checkVersion` | the cluster API | accepts current clusters only, never hangs |
| hook chain and KV facade (`kv.go` 242-473, `hooks.go`) | an immutable chain | `Do` and its wrappers | plugins | each call passes every hook once |
| operations (`op.go`), transactions (`txn.go`) | an `Op` under construction; a `txn` under a mutex | options, `If`/`Then`/`Else`/`Commit` | KV | the request means what the calls say |
| fake server (`fake.go`) | recorded requests, an index | the KV handlers | a real client over an in-memory listener | records every request, answers in turn |
| plugins (`plugin/`) | metrics in a registry, spans | the hook interfaces | the client | registered once, counted once |
| compression pools (`internal/snappy`) | two `sync.Pool`s | (de)compress | gRPC | an object has one user, a message arrives as it was sent |
| generated protocol code (`internal/proto/*_vtproto.pb.go`) | none | `MarshalVT`, `SizeVT`, `UnmarshalVT` of 51 messages | a codec of gRPC, the compressor | the three agree on every field, nothing that is cut off is taken for a message, unknown fields are kept |
| endpoint interpretation, TLS, credentials, metadata, logging | none that changes | pure functions, I/O | start | - |

The hard behaviour is in the first six: a request that was reported as failed
may still be executed; a call retries while its context, the endpoints and the
connection change; gRPC calls into the resolver on its own goroutines; `Close`
does not wait for `autoSync`; the goroutines of the version check report to a
reader that may have stopped reading. Next come what goroutines share without
thinking of it: a `Txn`, the counters of a plugin, the compressor's codecs, the
fake server of a test. The generated code is sequential; what can go wrong in it
is that three traversals of a message disagree.

## The modules

| Module | Models | State and actions |
|---|---|---|
| `RetryRules` | `isContextError`, `isSafeRetry*`, `toErr`, the counting of attempts, `roundRobinQuorumBackoff`, and the errors that gRPC may report before and after a request left | pure operators |
| `UnaryRetry` | `unaryClientInterceptor` for a set of calls, with gRPC and servers around it | one action per step of the loop (`SkipBackoff`, `StartBackoff`, `TimerFires`, `BackoffCanceled`, `Receive`), of gRPC (`Send`, `FailUnsent`, `Answer`), of the servers (`Execute`, `Lose`) and the application (`Start`, `EndContext`, `Close`, `SetEndpoints`) |
| `WriteOnce` | what a caller may rely on: an at-most-once write, unless it is excused | `Issue`, `Excuse`, `Apply`, `Reply` |
| `StreamRetry` | `streamClientInterceptor`, `RecvMsg` and the iterator | one action per outcome of a receive, per step of a retry, per decision of the consumer (`Continue`, `Stop`, `Resume`) |
| `Scan` | what a consumer of an iteration may rely on: one scan, in order, complete at its end | `Begin`, `Page`, `Fail`, `End`, `Leave`, `Ask` |
| `EndpointSync` | `SetEndpoints`, `Sync`, `autoSync`, the resolver, gRPC's idle mode, the order of `Close`, `Dial`'s use of `endpoints[0]` | each call of `SetEndpoints` is three steps (store, snapshot, push), `Build` is three steps on a goroutine of gRPC |
| `ClientStart` | `newClient`, `checkVersion`, `Status`, `Close`, and which hooks are called | a step per phase of `newClient`; per endpoint a goroutine with dial, question, report |
| `KVCalls` | `newKV`, `hookedKV.Do`, `kv.Do`, `Table`, and a `Txn` that goroutines share (`txn.go`) | a goroutine's call step by step: `Lock`, `Check`, `Fill`, `Commit`, down the chain (`EnterHook`, `HookAnswers`, `Send`), `Answer`, up again (`LeaveHook`, `LeaveDo`, `Return`) |
| `Transaction` | what the callers of one `Txn` may rely on | `Give`, `Promise`, `Request` |
| `Operations` | `op.go`: the options, the constructors, `getPrefix`; the requests that `KV.Do` makes; the `Op` that the fake server makes of them again | pure operators |
| `FakeServer` | the fake server (`fake.go`) and the retrying clients of a test, over `Operations` and `RetryRules` | callers (`Call`, `ReadStream`, `Answered`, `GiveUp`); each handler as loads and stores of the shared slice and counter (`LoadRecorded`, `WriteElement`, `StoreRecorded`, `PickResponse`, `LoadIdx`, `StoreIdx`), then `Respond` or `Panic` |
| `SnappyPool` | the pooled writers and readers of `internal/snappy`, used by concurrent messages | per message: get, reset, write, close, put; get, reset, read, end of file, put, or an abandoned read |
| `RegattaWire`, `MvccWire`, `ReplicationWire`, `MaintenanceWire` | the statements of `MarshalToSizedBufferVT`, `SizeVT` and `UnmarshalVT` of every message, a row per statement, in the vocabulary of `WireRows` | tables |
| `WireFormat` | what those methods do with one field: varints, tags, lengths, `Skip`, what is counted and what is written of them | pure operators, none recursive |
| `Codec` | what they do with a message: the rows one after another, oneofs, maps, nested messages, unknown fields, the buffer that is filled from its end; and what a message is | pure operators, none recursive: the calls for nested messages are constants |
| `MessagePath` | a message on its way: `Codec` and `SnappyPool` composed | `Send`, `Carry` (a step of `SnappyPool`), `Receive` |

Composition: `UnaryRetry`, `StreamRetry` and `FakeServer` share the rules of
`RetryRules`; `FakeServer` runs on `Operations`; `KVCalls` assumes of the call
below the hooks what `UnaryRetry` checks (it returns when its context is done);
`MessagePath` puts `Codec` around `SnappyPool`. `UnaryRetry` implements
`WriteOnce`, `StreamRetry` implements `Scan`, `KVCalls` implements
`Transaction`, each with a refinement mapping at the end of the module.

`*MC` modules give constants their values; `*_proofs` modules hold the
theorems (`FakeServer_proofs` also those of `Operations`; `Codec_proofs` those of
`WireFormat` and `Codec`; `MessagePath_proofs` those of `SnappyPool` and of the whole path). Operators whose name ends in `_` and a word (`StoreEndpoints_unlocked`)
are deliberate variants: each is a mistake that the code could contain and that
one of the properties detects; no specification uses them.

Abstractions worth knowing:

* Errors are a code and a description. `Internal` stands for every code that
  no rule treats specially, `notStatus` for an error that is no gRPC status,
  `noTransport` for the two messages of `isSafeRetryMutableRPC`.
* Time is not modelled: timers, timeouts and deadlines may fire at any moment.
* A request that left the client is executed or lost at any later moment, once
  or never; only a success reply says that it was executed.
* Each gRPC stream has a number of pages fixed when it opens. Pages of two
  streams do not fit together.
* A list of endpoints is a set: round robin makes the order irrelevant. gRPC
  builds the resolver when the connection leaves its idle mode and ignores
  updates of a resolver whose connection is idle.
* In `ClientStart` the channel of `checkVersion` is the set of goroutines whose
  report is not read yet: the channel is as large as their number, and the
  order in which concurrent reports arrive is arbitrary.
* In `Operations` a field of `Op` that 0 or false switches off is a member of a
  set, so that numbers are on or off. The revision filters are left out: no
  option sets them. A server takes a nil and an empty end for the same.
* The append of a handler of the fake server loads the slice, writes an
  element and stores a slice. Two handlers may write to one array or, if it was
  full, to two; `StoreRecorded` and `WriteElement` allow the outcomes of both.
  Answers carry an error or none; the contents of responses are left out.
* In `KVCalls` a builder call brings no operand or one, which says who gave it
  and whether it is an operation that no transaction takes. A hook passes the
  call on, repeats it after an error, or answers by itself; plugins count in a
  deferred function, which sees a panic as a call without an error
  (`rprom.go`). `Commit` looks at its error twice (`txn.go:113-118`); the second
  look can find nothing, so that an error made by a hook reaches the caller as
  it is. `Get`, `Delete` and `Iterate` go the way of `Put`.
* In `SnappyPool` the compressed format is the identity on the message's parts:
  it is a library's. A pool may hand out any object that it holds, or a new one.
* In `Codec` every zero value is the empty sequence and a number is the sequence
  of its 7-bit groups, so that a length, a tag and a 64-bit value need no
  arithmetic on 2^64. `google.protobuf.Struct` is opaque bytes, groups (wire type
  3) occur in no message, and the order in which a map is written is that of a
  sequence of entries, any of them.
* `MarshalVT` of a message calls that of the messages in it, and so do `SizeVT` and
  `UnmarshalVT`. In `Codec` these calls are the constants `NestedEncoded`,
  `NestedSizeVT` and `NestedFill`, and `NestedAssumption` says that on the model's
  messages they are what they stand for: `Encoded`, `SizeVT` and `Fill` themselves.
  `MessagePathMC` ties the knot. `Messages` is closed under nesting, and
  `MessageAssumption` says what a message of a type is. It holds no nil elements in lists and
  maps, which come back as empty messages, no map with two equal keys, and nothing of 2^28 bytes.
* The parts of a map's entry are read as far as the entry goes; the code compares them with the end of
  the message (`regatta_vtproto.pb.go:4169`, `4197`). The two differ only for bytes that no
  `MarshalVT` has written.
* The client leaves encoding to gRPC's default codec for the protobuf types, and
  nothing in the repository calls the generated methods: they are
  there for a codec that does. `MessagePath` stands for a program with such a
  codec on both sides. The format is the same.
* `InitialConnectionTimeout` does not make `New` wait: `WaitForStateChange`
  returns when the state is other than `Ready`, and a new connection is idle.

## What the runs check

| Run | Checks | Bounds |
|---|---|---|
| `unary` | `DuplicateOnlyAfterContextError`, `NoTransportMeansUnsent`, `UnavailableReadUsedAllAttempts`, `BackoffEachQuorum`, `ImplementsWriteOnce`, `DoneContextEndsCall`, `CloseEndsCalls`, types | a Put or a Range; 3 attempts, 1 or 3 endpoints that change; servers that answer a success, `Canceled`, `Unavailable`, `Internal` or never |
| `unary_once` | `WriteAtMostOnce` is violated | 2 attempts, 3 endpoints |
| `stream` | `OneScan`, `CompleteAtEOF`, `ImplementsScan`, `DoneContextEndsRecv`, `IterationEnds`, types | 3 attempts, 2 pages, 3 ignored errors, all codes |
| `sync` | `AgreeUnlessRaced`, `CloseEndsAutoSync`, `AutoSyncConverges`, types | 2 nodes, 1 goroutine and `autoSync`, one membership change |
| `sync_race` | `BalancerFollowsEndpoints` is violated | 1 goroutine, fixed membership |
| `sync_dial` | `DialHasEndpoint` is violated | members that may have no name |
| `start` | `NothingLeftBehind`, `AcceptedWhenAllCurrent`, `ErrorIsTheCause`, `NewReturns`, types | 2 endpoints, 4 kinds of version, `Close` twice |
| `start_old` | `AcceptedClusterIsCurrent` is violated | 2 endpoints, an old and a current version |
| `start_nested` | `ClosedHookIsCalled` is violated | the same |
| `kv` | `ImplementsTransaction`, `EveryHookSees`, `OutermostCounts`, `CallsReturn`, types | 2 goroutines, 3 calls, two lists of hooks |
| `wire` | `Delivered`, `PrefixRefused`, `UnknownKept`, `OneUser`, `Intact` | each of 51 types: empty, each field set alone to each of its values, all fields set, nested 3 deep; or two of three `PutRequest`s at once with 2 writers and 2 readers |
| `fake` | `PrefixCovers`, `RecordedIsExpected`, `OrderlyUnlessOverlapped`, `SequentialTestGetsItsScript`, types | tests of one call of every kind, with any 2 options, alone or in a transaction; tests of 2 goroutines or 2 calls with 2 attempts and scripts of at most 3 responses; keys of at most 2 bytes with 3 values |

Why the bounds are enough. Calls of one client share nothing that a call
changes, only the number of endpoints and whether the connection is closed,
and those change at any time; so one call, a Put or a Range, stands for
many (`MaxCalls`). Three attempts allow a retry after a retry, and with quorums 1
and 2 a wait before, between and after them. The rules tell the two context
codes apart nowhere, so servers answer one of them; contexts end with both.
Two pages separate a stream that
failed before, between and after its pages. A user goroutine, `autoSync` and
`Build` are three parties in the resolver at once, with different lists.
Two version goroutines allow one to be read and one to be outstanding. Two
handlers that overlap show every loss of an update, and two attempts of two
calls use three responses and more, so that short scripts start over. Keys of
two bytes with values 0, 1 and the largest have every form that `getPrefix`
tells apart (nothing to cut, one byte to cut, nothing to increment), and two
options are enough for one to follow another of any kind. Three calls on a `Txn`
are a clause, another one or a commit, and a second commit, by two goroutines in
every order; the two lists of hooks have a hook that repeats requests inside of
a plugin, and one that answers by itself inside of a plugin, next to two that the chain
leaves out. In `wire` numbers have one byte, two bytes and, if negative, ten;
one value has 128 bytes, so that its length has two; two messages with two
codecs of each kind meet in the pools in every order. The
bounds that are not the program's own are named in the modules (`MaxPages`,
`MaxErrors`, `MaxChanges`, `MaxCloses`, `MaxCalls`, `MaxDepth`). The theorems remove the bounds
for the safety properties listed below.

Deadlock is not checked: every model has behaviours that legitimately end
(calls have returned, the iteration is over, the client is closed). That
nothing ends too early is what the liveness properties say.

### What the violated properties show

* `unary_once`: a server that answers `Canceled` or `DeadlineExceeded` to a
  mutation while the client's context is alive makes the client send it again
  (`interceptor.go:44-50`), whatever the retry policy; the first request may
  still be executed. The comment at `interceptor.go:314-321` promises
  write-at-most-once. `unary` and the theorems show that this is the only way.
* `sync_race`: `Build` updates the balancer without `epMu` (`resolver.go:40`),
  so that a list it has read can overwrite the list of a concurrent
  `SetEndpoints`. `sync` shows that nothing else makes them differ, and
  that a later sync repairs it.
* `sync_dial`: `Sync` stores an empty list when no member has a name; the next
  `Status` or `Dial` indexes it (`client.go:248`).
* `start_old`: `Status` makes a connection to the endpoint and then asks over
  the client's own connection (`cluster.go:58`), so that the answers of
  `checkVersion` may all come from one member.
* `start_nested`: hooks in nested lists are told of the new client only, as
  the client keeps the unprocessed list (`client.go:313`, `348`). The metrics
  plugin is not told either: its method is called `OnClientClose`
  (`rprom.go:118`), which is not the method of `HookClientClosed`.

## Fairness

* `UnaryRetry`, `StreamRetry`: the goroutine of a call runs, timers fire. gRPC
  returns from a call or a receive whose context is done or whose connection
  is closed, which is its documented behaviour; until then it may wait for a
  transport (the client's default is `WaitForReady`) and for a server, neither
  of which owes anything. A consumer's callback returns.
* `EndpointSync`: goroutines run; `sync.RWMutex` does not starve a writer,
  hence strong fairness for taking `epMu`; `select` chooses `ctx.Done()` in the
  end when it is always ready at its turn, hence strong fairness for
  `AutoExit`; `MemberList` ends, because `autoSync` gives it five seconds; an
  RPC that is waiting makes gRPC build the resolver. `AutoSyncConverges` assumes
  in its premise that syncs are answered again and again.
* `KVCalls`: goroutines run; `sync.Mutex` starves nobody, hence strong fairness
  for `Lock`; the generated client returns, which it does at the latest when the
  context of the call is done (`UnaryRetry`), so that `CallsReturn` is about
  calls whose contexts end. `Commit` holds the lock while it calls.
* `ClientStart`: goroutines run, the timer of `InitialConnectionTimeout` fires,
  an RPC whose context is done returns. Without that timeout `New` may wait for
  ever for a member, so `NewReturns` is stated for configurations that have it or check no version.

## What is proved

For every value of the constants, from the assumptions named in the modules
(`RetryAssumption`, `StreamAssumption`, `EndpointAssumption`, `StartAssumption`,
`CallsAssumption`, `PoolAssumption`, `KeyAssumption`, `FakeAssumption`, `TablesAssumption`,
`MessageAssumption`, `NestedAssumption`, `PathAssumption`). They say
what kind of value each constant is; `CallsAssumption` also says that the hooks
`getHooks` selects are a list of hooks, and `FakeAssumption` that a program is a list of
calls with the arguments that the signatures in `kv.go` and `op.go` allow. The theorems
about encoding a value have its conditions in their statements: a number has at most 64
bits, and a length is below `Huge`, 2^28, far above the largest message that gRPC
accepts. Those about messages need that the three tables of each type fit each other:
`TablesAssumption` is about the constant tables of the four wire modules only, so that TLC, which
evaluates the assumptions in the runs, decides it once and for all.

| Module | Theorem | States |
|---|---|---|
| `UnaryRetry_proofs` | `TypeCorrect` | `TypeOK` |
| | `DuplicatesExplained` | `DuplicateOnlyAfterContextError` |
| | `NoTransportIsSafe` | `NoTransportMeansUnsent` |
| | `AtMostOnce` | `WriteAtMostOnce`, if servers answer no context code |
| | `Refinement` | `ImplementsWriteOnce` |
| | `ReadsUseAllAttempts` | `UnavailableReadUsedAllAttempts` |
| | `BackoffHolds` | `BackoffEachQuorum` |
| `StreamRetry_proofs` | `TypeCorrect` | `TypeOK` |
| | `OneScanOnly`, `EOFIsComplete` | `OneScan`, `CompleteAtEOF` |
| | `ScanRefinement` | `ImplementsScan` |
| `EndpointSync_proofs` | `TypeCorrect`, `Agreement` | `TypeOK`, `AgreeUnlessRaced` |
| | `DialUnlessNoNames` | `DialHasEndpoint`, if some member always has a name and no empty list is set |
| `ClientStart_proofs` | `TypeCorrect` | `TypeOK` |
| | `NothingLeft`, `AcceptedOnAllAnswers`, `CauseReported` | the three safety properties of `start` |
| | `OnlyPlainHooksHear` | `ClosedHookIsCalled` for hooks that are listed by themselves; no other hook is called by `Close` |
| | `AcceptedClusterHasCurrent` | some member of an accepted cluster is current; with one endpoint, `AcceptedClusterIsCurrent` |
| `KVCalls_proofs` | `TypeCorrect` | `TypeOK` |
| | `NoWayAround`, `CountsAgree` | `EveryHookSees`, `OutermostCounts` |
| | `TransactionRefinement` | `ImplementsTransaction` |
| `Codec_proofs` | `VarintRoundTrip`, `LengthRoundTrip`, `BytesRoundTrip`, `FieldRoundTrip` | numbers, lengths, bytes and fields are read as they were written, whatever follows |
| | `VarintCut`, `BytesCut`, `FieldCut` | none of them is read when its end is missing |
| | `UnknownFieldKept` | a reader without a case for a field keeps its bytes |
| | `FieldSize` | what is counted for a field are the bytes that are written |
| | `MessageRoundTrip` | every message comes out of its encoding again |
| | `MessageCut` | a message that has lost its end is refused, or is the encoding of a shorter one |
| `MessagePath_proofs` | `OneUserEach`, `ArrivesIntact` | `OneUser`, `Intact` |
| | `EveryMessageDelivered`, `CutMessageRefused` | `Delivered`, `PrefixRefused` |
| | `FieldSurvives` | `UnknownKept` |
| `FakeServer_proofs` | `PrefixIsExact` | the range that `WithPrefix` gives an operation holds exactly the keys with the prefix |
| | `PrefixOfCallIsExact` | the same of a call with any options around `WithPrefix` that say nothing of the range |
| | `NothingElseIgnored` | what is recorded of a call is what was meant, but for what `Ignored` names |
| | `TypeCorrect` | `TypeOK` |
| | `PrefixAlwaysCovers`, `RecordsExpected` | `PrefixCovers`, `RecordedIsExpected` |
| | `RecordedInOrder` | `OrderlyUnlessOverlapped` |
| | `InTurn` | `SequentialTestGetsItsScript` |

The arguments:

* **UnaryRetry.** The safety properties are not inductive: whether a retry is
  safe depends on what the loop has seen of all earlier attempts. The invariant
  adds, per phase, which attempts have an answer and that every answered
  attempt before the current one was retryable; an attempt that was answered
  with "no connection" was never sent, since only a local failure carries that text. Two
  sent attempts of a mutation therefore have a context code between them. The
  refinement maps a call to its outcome, the set of attempts that took effect,
  and whether the loop went on after a context code, which excuses it; a call
  that is not excused has at most one attempt sent, and each step is a step of
  `WriteOnce` or a stutter. `BackoffEachQuorum` is about the attempts since
  the last wait or `SetEndpoints`; the invariant says that, while an attempt is
  made, they are at most the remainder of its number by the quorum, plus one. The
  remainder is unique, so that an attempt without a wait adds one to it and a
  multiple of the quorum, which waits, starts over.
* **StreamRetry.** `yielded` is always the prefix of the current stream's scan
  that has been received; a new stream is opened only while `receivedGood` is
  false, and then nothing was yielded. The mapping to `Scan` makes a stream that
  was replaced before its first page a scan that the consumer never saw.
* **EndpointSync.** A setter that holds `epMu` carries the client's list; a
  `Build` that overlapped no setter carries the same one; so whoever pushes
  last pushes the list of the client.
* **ClientStart.** Per phase: what the goroutines may be doing, that only
  successes were read before the loop ended, and that the context of the check
  is not cancelled while reports are read.
* **KVCalls.** The lock has one holder, which is the one goroutine between
  `Lock` and `Return` of a call on the `Txn`; what it has read of the clauses is
  still there when it writes or commits. Where a goroutine is in the chain is
  determined by its path: the levels it has entered are those above the level
  it is at. What the outermost plugin counted differs from
  what callers were told by the goroutines between the two.
* **SnappyPool.** A writer or reader that a message holds is in no pool, exists,
  and is held by no other message; so its target and its rest are that
  message's. What was read and the rest of the reader together are the
  message. `OneUserEach` and `ArrivesIntact` are about `PoolSpec`; every step of `MessagePath` except
  `Receive`, which comes after them, is a step of `PoolNext`.
* **WireFormat.** All bytes of a number but the last have the high bit, so that the
  first byte without it is the last, whatever follows; with one byte less there
  is none, and the reader meets the end of its input. A length of at most four
  groups is the sum of its digits, which determines it. A field is a tag, perhaps a length, and the
  rest; cut anywhere, one of the three is incomplete. `Skip` finds the same end
  as the case that knows the field. The theorems are about every row and case that agree on field
  number and wire type (`SameTag`), as all those of the tables do.
* **Codec.** The loop of `UnmarshalVT` is a recursive function, whose equation is
  shown to have exactly one solution; then `Fill` of a field and what follows is `Fill`
  of what follows, from the message with that field (`Carries`). The rows are
  written from the last to the first: each takes the message with the rows
  after it to the one with its own field as well (`Partial`), lists and maps element by
  element. What is counted are the same rows in another order, and a sum does not depend on the
  order. All this presumes that the messages within come out of
  their encodings. Those are shorter than that of the message, because a tag and a
  length are in front of them; so there is no message with a shortest encoding
  that does not come out of it. A message that is cut ends within
  some field, where the field theorems apply, or between two
  elements: then what is left is the encoding of the message without the
  elements that follow, which is what `UnmarshalVT` makes of it.
* **MessagePath.** From `Send` on the data of a transfer are the encoding of its message; the pools
  deliver them unchanged (`PoolInv`), so that `Receive` decodes that encoding. `UnknownKept`
  is about a program without case `c`. If another case has the field (a list of
  numbers has one for the packed form and one for single elements) and reads what `MarshalVT`
  writes, that program does what the new one does. Otherwise all that is written of the field is
  unknown to it (`Loses`). It reads the message chunk by chunk: a chunk of the field,
  or of what was unknown already, is added to its unknown fields, and any other gives
  its field (`OldRead`). Its message `Old` is of its own type, with fewer rows, and it is
  written without a panic (`OldMarshal`). The program with all cases finds in
  the unknown fields first the field, then what was unknown to it as well, or the other
  way round (`KeptRead`), and the other fields as they were (`OldReadAgain`).
* **Operations.** A key is in the range of a prefix when it is neither less
  than the prefix nor not less than its end. Both comparisons are decided at
  the first difference, whose existence follows from the well-ordering of the
  naturals; the end differs from the prefix at its last byte that can be
  incremented, behind which the prefix has largest bytes only, so that a key
  between the two cannot leave the prefix. The options of a call are a fold. Its
  defining equation gives the operation after each option, and, again by
  well-ordering, there is no first option that breaks what holds of the one before:
  every option keeps the shape of the operation (`Made`), and only those about the
  range touch key and end. The request and what is recorded of it are then compared
  field by field.
* **FakeServer.** As long as no handler started while another was between its
  first load and its last store, at most one handler is at work, and it was the
  last to start: what it has loaded is what the variables still hold. The
  lengths of the slice and the counter are then the numbers of handlers that
  have passed them. For `InTurn`: a caller that has read its streams calls
  when every handler is done, so that only the last handler is not, the counter
  is one behind the call, and the response it selects is a success, after which
  nothing is sent again. The types say that no counter is ahead of the number
  of handlers that have started; that number is a cardinality, and the counter is
  compared with the number of handlers that have stored it. `PrefixCovers` and
  `RecordedIsExpected` hold even if handlers overlap: whatever is lost, each element
  of the slice was written by a handler for the call that it serves, and of such
  an element the theorems of `Operations` say what it is.

Four of the violated properties have a theorem that says what it takes to violate them.
`AtMostOnce`: without a context code from a server, no mutation takes effect twice.
`DialUnlessNoNames`: if some member has a name and the application never sets
an empty list, every list on its way to `SetEndpoints` is non-empty.
`OnlyPlainHooksHear`: hooks that are
neither nested nor miss a method are called. `AcceptedClusterHasCurrent`: every success that
`checkVersion` counts was given by some current member, if not by the one that was asked.

Every invariant and action property that a passing run checks has a theorem. Only
model-checked are the liveness properties, since fairness and `ENABLED` are beyond the prover.

## What is not modelled

* `UnmarshalVTUnsafe`, which shares memory with its input, and the pools of
  `Command` and `SnapshotChunk` (`CommandFromVTPool` and the like): nothing in the
  repository calls them. One observation: `Command.ResetVT`
  (`mvcc_vtproto.pb.go:954`) keeps a non-nil empty `RangeEnd`, so that a command
  taken from the pool is encoded with a present, empty `range_end`.
* Getters, descriptors and service stubs of the generated code: no decisions.
* Endpoint interpretation, a pure function over strings that a table in the
  repository tests; TLS files; credentials; request metadata; logs and spans.
* The contents of responses, in the fake server as in the client, and the
  builder of comparisons (`op.go:405-500`), which copy fields.
* `WithPrefix` given twice: the second one takes the prefix of what the first
  made of an empty key (`op.go:327`).
* The data race of `SetLogger` with every reader of the logger (`client.go:90`),
  which is below the level of these modules.
* The connection state machine of gRPC, apart from its idle mode.

`RecordedIsExpected` holds because `Ignored` names what an operation accepts and
does not send: `WithRev`, although `kv.go:135` documents it, `WithSerializable`
inside of a transaction, and a few flags that have no meaning for their kind.

What could follow: `UnaryRetry` composed with `EndpointSync`, so that the number of
endpoints follows real syncs instead of changing at any time (which is the more
general case), and the promise of `hooks.go:54-55` that close hooks run after all
cleanup, which `Close` does not keep for `autoSync`.
