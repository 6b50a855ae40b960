------------------------------- MODULE SnappyPool -------------------------------
(***************************************************************************)
(* The compressor "snappy" of a process: messages of concurrent calls are  *)
(* compressed by pooled writers and decompressed by pooled readers.        *)
(*                                                                         *)
(* grpc compresses a message with one Write and one Close, and reads a     *)
(* decompressor until its first io.EOF or until the message is too large.  *)
(* Both ends of a call are here, as in a process with a fake server.       *)
(***************************************************************************)
EXTENDS Naturals, Sequences

CONSTANTS
    Transfers, \* messages on their way, each with a goroutine of its own
    Parts,     \* what a message is made of
    Writers,   \* *writer objects
    Readers,   \* *reader objects
    NoCodec    \* nil

ASSUME PoolAssumption ==
    /\ NoCodec \notin Writers \cup Readers
    /\ Writers \cap Readers = {}

VARIABLES
    pc,     \* where the goroutine of each message stands
    data,   \* the message
    writer, \* the writer that its goroutine holds
    reader, \* the reader that its goroutine holds
    wpool,  \* poolCompressor
    rpool,  \* poolDecompressor
    made,   \* the writers and readers that exist
    target, \* the message that each writer writes to
    buffer, \* what each writer has not written yet
    rest,   \* what each reader has still to read
    wire,   \* the compressed message
    out     \* the decompressed message

poolVars == <<pc, data, writer, reader, wpool, rpool, made, target, buffer, rest, wire, out>>

PoolInit ==
    /\ pc = [t \in Transfers |-> "idle"]
    /\ data = [t \in Transfers |-> <<>>]
    /\ writer = [t \in Transfers |-> NoCodec]
    /\ reader = [t \in Transfers |-> NoCodec]
    /\ wpool = {}
    /\ rpool = {}
    /\ made = {}
    /\ target = [w \in Writers |-> {}]
    /\ buffer = [w \in Writers |-> <<>>]
    /\ rest = [r \in Readers |-> <<>>]
    /\ wire = [t \in Transfers |-> <<>>]
    /\ out = [t \in Transfers |-> <<>>]

Go(t, from, to) == pc[t] = from /\ pc' = [pc EXCEPT ![t] = to]

Submit(t, d) ==
    /\ Go(t, "idle", "queued")
    /\ data' = [data EXCEPT ![t] = d]
    /\ UNCHANGED <<writer, reader, wpool, rpool, made, target, buffer, rest, wire, out>>

\* sync.Pool's Get: any object of the pool, or a new one whatever is in it.
GetWriter(t) ==
    /\ Go(t, "queued", "reset")
    /\ \E w \in wpool \cup (Writers \ made) :
        /\ writer' = [writer EXCEPT ![t] = w]
        /\ wpool' = wpool \ {w}
        /\ made' = made \cup {w}
    /\ UNCHANGED <<data, reader, rpool, target, buffer, rest, wire, out>>

ResetWriter(t) ==
    /\ Go(t, "reset", "write")
    /\ target' = [target EXCEPT ![writer[t]] = {t}]
    /\ buffer' = [buffer EXCEPT ![writer[t]] = <<>>]
    /\ UNCHANGED <<data, writer, reader, wpool, rpool, made, rest, wire, out>>

Write(t) ==
    /\ Go(t, "write", "close")
    /\ buffer' = [buffer EXCEPT ![writer[t]] = @ \o data[t]]
    /\ UNCHANGED <<data, writer, reader, wpool, rpool, made, target, rest, wire, out>>

\* Variant: the writer is put into the pool first and flushed then.
CloseWriter_putFirst(t) ==
    /\ pc[t] = "close"
    /\ IF writer[t] \notin wpool /\ target[writer[t]] = {t}
       THEN wpool' = wpool \cup {writer[t]} /\ UNCHANGED <<pc, wire>>
       ELSE /\ Go(t, "close", "put")
            /\ wire' = [u \in Transfers |->
                  IF u \in target[writer[t]] THEN wire[u] \o buffer[writer[t]] ELSE wire[u]]
            /\ UNCHANGED wpool
    /\ UNCHANGED <<data, writer, reader, rpool, made, target, buffer, rest, out>>

\* Close flushes what is buffered to the writer's current target.
CloseWriter(t) ==
    /\ Go(t, "close", "put")
    /\ wire' = [u \in Transfers |->
                  IF u \in target[writer[t]] THEN wire[u] \o buffer[writer[t]] ELSE wire[u]]
    /\ UNCHANGED <<data, writer, reader, wpool, rpool, made, target, buffer, rest, out>>

PutWriter(t) ==
    /\ Go(t, "put", "sent")
    /\ wpool' = wpool \cup {writer[t]}
    /\ writer' = [writer EXCEPT ![t] = NoCodec]
    /\ UNCHANGED <<data, reader, rpool, made, target, buffer, rest, wire, out>>

\* poolDecompressor has no New: an empty Get makes Decompress build a reader.
GetReader(t) ==
    /\ Go(t, "sent", "source")
    /\ \E r \in rpool \cup (Readers \ made) :
        /\ reader' = [reader EXCEPT ![t] = r]
        /\ rpool' = rpool \ {r}
        /\ made' = made \cup {r}
    /\ UNCHANGED <<data, writer, wpool, target, buffer, rest, wire, out>>

\* gs.NewReader(r) or z.Reset(r).
ResetReader(t) ==
    /\ Go(t, "source", "read")
    /\ rest' = [rest EXCEPT ![reader[t]] = wire[t]]
    /\ UNCHANGED <<data, writer, reader, wpool, rpool, made, target, buffer, wire, out>>

\* Variant: every Read puts the reader into the pool.
Read_puts(t) ==
    /\ Go(t, "read", "read")
    /\ \E n \in 1..Len(rest[reader[t]]) :
        /\ out' = [out EXCEPT ![t] = @ \o SubSeq(rest[reader[t]], 1, n)]
        /\ rest' = [rest EXCEPT ![reader[t]] = SubSeq(@, n + 1, Len(@))]
    /\ rpool' = rpool \cup {reader[t]}
    /\ UNCHANGED <<data, writer, reader, wpool, made, target, buffer, wire>>

Read(t) ==
    /\ Go(t, "read", "read")
    /\ \E n \in 1..Len(rest[reader[t]]) :
        /\ out' = [out EXCEPT ![t] = @ \o SubSeq(rest[reader[t]], 1, n)]
        /\ rest' = [rest EXCEPT ![reader[t]] = SubSeq(@, n + 1, Len(@))]
    /\ UNCHANGED <<data, writer, reader, wpool, rpool, made, target, buffer, wire>>

ReadEOF(t) ==
    /\ Go(t, "read", "eof")
    /\ rest[reader[t]] = <<>>
    /\ UNCHANGED <<data, writer, reader, wpool, rpool, made, target, buffer, rest, wire, out>>

\* The Read that meets io.EOF puts the reader into the pool and returns.
PutReader(t) ==
    /\ Go(t, "eof", "received")
    /\ rpool' = rpool \cup {reader[t]}
    /\ reader' = [reader EXCEPT ![t] = NoCodec]
    /\ UNCHANGED <<data, writer, wpool, made, target, buffer, rest, wire, out>>

\* grpc stops before io.EOF; the reader does not return to the pool.
Abandon(t) ==
    /\ Go(t, "read", "tooLarge")
    /\ out[t] # <<>>
    /\ reader' = [reader EXCEPT ![t] = NoCodec]
    /\ UNCHANGED <<data, writer, wpool, rpool, made, target, buffer, rest, wire, out>>

PoolStep(t) ==
    \/ GetWriter(t) \/ ResetWriter(t) \/ Write(t) \/ CloseWriter(t) \/ PutWriter(t)
    \/ GetReader(t) \/ ResetReader(t) \/ Read(t) \/ ReadEOF(t) \/ PutReader(t) \/ Abandon(t)

PoolNext ==
    \E t \in Transfers :
        \/ \E d \in Seq(Parts) : Submit(t, d)
        \/ PoolStep(t)

PoolSpec == PoolInit /\ [][PoolNext]_poolVars

-------------------------------------------------------------------------------
\* What a goroutine works with is its own: no other one holds it, and it is not
\* in a pool from which another one may take it.
OneUser ==
    \A t \in Transfers :
        /\ \A u \in Transfers \ {t} :
            /\ writer[t] # NoCodec => writer[u] # writer[t]
            /\ reader[t] # NoCodec => reader[u] # reader[t]
        /\ writer[t] \notin wpool
        /\ reader[t] \notin rpool

\* A message arrives as it was sent, whatever else goes through the pools.
Intact == \A t \in Transfers : pc[t] = "received" => out[t] = data[t]
===============================================================================
