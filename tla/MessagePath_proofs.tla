-------------------------- MODULE MessagePath_proofs --------------------------
(***************************************************************************)
(* Proofs about the way of a message, for every number of messages.        *)
(*                                                                         *)
(* The compressor: a pooled codec has one user, so that each message is    *)
(* the concatenation of what was read and what its reader still has. The   *)
(* bytes that arrive are those that MarshalVT has returned, and            *)
(* Codec_proofs says what UnmarshalVT makes of them.                       *)
(*                                                                         *)
(* A program that was generated without one of a message's fields: what it *)
(* reads into a message, what it writes of that, and that a program which  *)
(* knows the field reads the whole message from it.                        *)
(***************************************************************************)
EXTENDS MessagePath, Codec_proofs

\* A writer that t holds is t's alone; it holds one from Get to Put.
WriterInv ==
    \A t \in Transfers :
        /\ writer[t] \in Writers \cup {NoCodec}
        /\ writer[t] # NoCodec <=> pc[t] \in {"reset", "write", "close", "put"}
        /\ writer[t] # NoCodec =>
            /\ writer[t] \in made \ wpool
            /\ \A u \in Transfers \ {t} : writer[u] # writer[t]

ReaderInv ==
    \A t \in Transfers :
        /\ reader[t] \in Readers \cup {NoCodec}
        /\ reader[t] # NoCodec <=> pc[t] \in {"source", "read", "eof"}
        /\ reader[t] # NoCodec =>
            /\ reader[t] \in made \ rpool
            /\ \A u \in Transfers \ {t} : reader[u] # reader[t]

\* The pools hold codecs of their kind.
KindInv ==
    /\ wpool \subseteq Writers \cap made /\ rpool \subseteq Readers \cap made
    /\ DOMAIN pc = Transfers /\ DOMAIN data = Transfers /\ DOMAIN wire = Transfers
    /\ DOMAIN out = Transfers /\ DOMAIN writer = Transfers /\ DOMAIN reader = Transfers
    /\ DOMAIN target = Writers /\ DOMAIN buffer = Writers /\ DOMAIN rest = Readers

\* Where the message is.
DataInv ==
    \A t \in Transfers :
        /\ data[t] \in Seq(Parts) /\ wire[t] \in Seq(Parts) /\ out[t] \in Seq(Parts)
        /\ pc[t] \in {"idle", "queued", "reset", "write", "close"} => wire[t] = <<>>
        /\ pc[t] \in {"write", "close"} => target[writer[t]] = {t}
        /\ pc[t] = "write" => buffer[writer[t]] = <<>>
        /\ pc[t] = "close" => buffer[writer[t]] = data[t]
        /\ pc[t] \in {"put", "sent", "source"} => wire[t] = data[t]
        /\ pc[t] \notin {"read", "eof", "received", "decoded", "tooLarge"} => out[t] = <<>>
        /\ pc[t] = "read" => /\ rest[reader[t]] \in Seq(Parts)
                             /\ out[t] \o rest[reader[t]] = data[t]
        /\ pc[t] \in {"eof", "received", "decoded"} => out[t] = data[t]

PoolInv == WriterInv /\ ReaderInv /\ KindInv /\ DataInv

\* The pools are empty at first.
LEMMA PoolInvInit == PoolInit => PoolInv
BY PoolAssumption DEF PoolInit, PoolInv, WriterInv, ReaderInv, KindInv, DataInv

\* What is true of every step of t: the other goroutines stay where they are.
LEMMA OthersStay ==
    ASSUME PoolInv, NEW t \in Transfers, PoolStep(t) \/ \E d \in Seq(Parts) : Submit(t, d)
    PROVE  \A u \in Transfers \ {t} :
              /\ pc'[u] = pc[u] /\ data'[u] = data[u] /\ out'[u] = out[u]
              /\ writer'[u] = writer[u] /\ reader'[u] = reader[u]
BY DEF PoolInv, KindInv, PoolStep, Submit, GetWriter, ResetWriter, Write, CloseWriter, PutWriter,
   GetReader, ResetReader, Read, ReadEOF, PutReader, Abandon, Go

\* A step of t, and who has a writer,
LEMMA WriterStep ==
    ASSUME PoolInv, NEW t \in Transfers, PoolStep(t) \/ \E d \in Seq(Parts) : Submit(t, d)
    PROVE  WriterInv'
<1>1. \A u \in Transfers \ {t} : pc'[u] = pc[u] /\ writer'[u] = writer[u]
  BY OthersStay
<1> USE <1>1 DEF PoolInv, WriterInv, KindInv, Go
<1>2. CASE \E d \in Seq(Parts) : Submit(t, d)
  BY <1>2 DEF Submit
<1>3. CASE GetWriter(t)
  <2>1. PICK w \in wpool \cup (Writers \ made) :
          writer' = [writer EXCEPT ![t] = w] /\ wpool' = wpool \ {w} /\ made' = made \cup {w}
    BY <1>3 DEF GetWriter
  <2>2. w \in Writers /\ w # NoCodec /\ \A u \in Transfers : writer[u] # w
    BY <2>1, PoolAssumption
  <2>3. pc[t] = "queued" /\ pc'[t] = "reset" /\ writer'[t] = w
    BY <1>3, <2>1 DEF GetWriter
  <2> QED
    BY <2>1, <2>2, <2>3
<1>4. CASE ResetWriter(t) \/ Write(t) \/ CloseWriter(t)
  BY <1>4 DEF ResetWriter, Write, CloseWriter
<1>5. CASE PutWriter(t)
  BY <1>5 DEF PutWriter
<1>6. CASE GetReader(t)
  BY <1>6 DEF GetReader
<1>7. CASE ResetReader(t) \/ Read(t) \/ ReadEOF(t) \/ PutReader(t) \/ Abandon(t)
  BY <1>7 DEF ResetReader, Read, ReadEOF, PutReader, Abandon
<1> QED
  BY <1>2, <1>3, <1>4, <1>5, <1>6, <1>7 DEF PoolStep

\* who has a reader,
LEMMA ReaderStep ==
    ASSUME PoolInv, NEW t \in Transfers, PoolStep(t) \/ \E d \in Seq(Parts) : Submit(t, d)
    PROVE  ReaderInv'
<1>1. \A u \in Transfers \ {t} : pc'[u] = pc[u] /\ reader'[u] = reader[u]
  BY OthersStay
<1> USE <1>1 DEF PoolInv, ReaderInv, KindInv, Go
<1>2. CASE \E d \in Seq(Parts) : Submit(t, d)
  BY <1>2 DEF Submit
<1>3. CASE GetReader(t)
  <2>1. PICK r \in rpool \cup (Readers \ made) :
          reader' = [reader EXCEPT ![t] = r] /\ rpool' = rpool \ {r} /\ made' = made \cup {r}
    BY <1>3 DEF GetReader
  <2>2. r \in Readers /\ r # NoCodec /\ \A u \in Transfers : reader[u] # r
    BY <2>1, PoolAssumption
  <2>3. pc[t] = "sent" /\ pc'[t] = "source" /\ reader'[t] = r
    BY <1>3, <2>1 DEF GetReader
  <2> QED
    BY <2>1, <2>2, <2>3
<1>4. CASE GetWriter(t)
  BY <1>4 DEF GetWriter
<1>5. CASE ResetWriter(t) \/ Write(t) \/ CloseWriter(t) \/ PutWriter(t)
  BY <1>5 DEF ResetWriter, Write, CloseWriter, PutWriter
<1>6. CASE ResetReader(t) \/ Read(t) \/ ReadEOF(t)
  BY <1>6 DEF ResetReader, Read, ReadEOF
<1>7. CASE PutReader(t) \/ Abandon(t)
  BY <1>7 DEF PutReader, Abandon
<1> QED
  BY <1>2, <1>3, <1>4, <1>5, <1>6, <1>7 DEF PoolStep

\* what the pools hold,
LEMMA KindStep ==
    ASSUME PoolInv, NEW t \in Transfers, PoolStep(t) \/ \E d \in Seq(Parts) : Submit(t, d)
    PROVE  KindInv'
<1> USE DEF PoolInv, KindInv, Go
<1>1. CASE \E d \in Seq(Parts) : Submit(t, d)
  BY <1>1 DEF Submit
<1>2. CASE GetWriter(t) \/ ResetWriter(t) \/ Write(t) \/ CloseWriter(t)
  BY <1>2 DEF GetWriter, ResetWriter, Write, CloseWriter
<1>3. CASE PutWriter(t)
  BY <1>3 DEF PutWriter, WriterInv
<1>4. CASE GetReader(t) \/ ResetReader(t) \/ Read(t) \/ ReadEOF(t) \/ Abandon(t)
  BY <1>4 DEF GetReader, ResetReader, Read, ReadEOF, Abandon
<1>5. CASE PutReader(t)
  BY <1>5 DEF PutReader, ReaderInv
<1> QED
  BY <1>1, <1>2, <1>3, <1>4, <1>5 DEF PoolStep

\* Reading a part of a sequence.
LEMMA ReadFacts ==
    ASSUME NEW S, NEW o \in Seq(S), NEW r \in Seq(S), NEW n \in 1..Len(r)
    PROVE  /\ o \o SubSeq(r, 1, n) \in Seq(S)
           /\ SubSeq(r, n + 1, Len(r)) \in Seq(S)
           /\ (o \o SubSeq(r, 1, n)) \o SubSeq(r, n + 1, Len(r)) = o \o r
<1> DEFINE a == SubSeq(r, 1, n)
           b == SubSeq(r, n + 1, Len(r))
<1>1. a \in Seq(S) /\ b \in Seq(S)
  OBVIOUS
<1>2. a \o b = SubSeq(r, 1, Len(r))
  <2>1. Len(r) \in Nat /\ 1 \in 1..Len(r) + 1 /\ n \in 1 - 1..Len(r) /\ Len(r) \in n..Len(r)
    OBVIOUS
  <2> QED
    BY <2>1, ConcatAdjacentSubSeq, Zenon
<1>3. a \o b = r
  BY <1>2, SubSeqFull
<1> HIDE DEF a, b
<1>4. o \o a \in Seq(S)
  BY <1>1, ConcatProperties
<1>5. (o \o a) \o b = o \o (a \o b)
  <2>1. o \in Seq(S) /\ a \in Seq(S) /\ b \in Seq(S)
    BY <1>1
  <2> QED BY ONLY <2>1
<1> QED
  BY <1>1, <1>3, <1>4, <1>5 DEF a, b

\* What DataInv says of u.
DataOf(u) ==
    /\ data[u] \in Seq(Parts) /\ wire[u] \in Seq(Parts) /\ out[u] \in Seq(Parts)
    /\ pc[u] \in {"idle", "queued", "reset", "write", "close"} => wire[u] = <<>>
    /\ pc[u] \in {"write", "close"} => target[writer[u]] = {u}
    /\ pc[u] = "write" => buffer[writer[u]] = <<>>
    /\ pc[u] = "close" => buffer[writer[u]] = data[u]
    /\ pc[u] \in {"put", "sent", "source"} => wire[u] = data[u]
    /\ pc[u] \notin {"read", "eof", "received", "decoded", "tooLarge"} => out[u] = <<>>
    /\ pc[u] = "read" => /\ rest[reader[u]] \in Seq(Parts)
                         /\ out[u] \o rest[reader[u]] = data[u]
    /\ pc[u] \in {"eof", "received", "decoded"} => out[u] = data[u]

\* A step of t leaves what u works with alone.
LEMMA OthersData ==
    ASSUME PoolInv, NEW t \in Transfers, PoolStep(t) \/ \E d \in Seq(Parts) : Submit(t, d),
           NEW u \in Transfers \ {t}
    PROVE  DataOf(u)'
<1>1. /\ pc'[u] = pc[u] /\ data'[u] = data[u] /\ out'[u] = out[u]
      /\ writer'[u] = writer[u] /\ reader'[u] = reader[u]
  BY OthersStay
<1>2. wire'[u] = wire[u]
  <2>1. CASE CloseWriter(t)
    <3>1. target[writer[t]] = {t}
      BY <2>1 DEF PoolInv, DataInv, CloseWriter, Go
    <3> QED
      BY <2>1, <3>1 DEF CloseWriter
  <2>2. CASE ~ CloseWriter(t)
    BY <2>2 DEF PoolStep, Submit, GetWriter, ResetWriter, Write, PutWriter, GetReader, ResetReader,
       Read, ReadEOF, PutReader, Abandon
  <2> QED
    BY <2>1, <2>2
<1>3. ASSUME pc[u] \in {"write", "close"}
      PROVE  target'[writer[u]] = target[writer[u]] /\ buffer'[writer[u]] = buffer[writer[u]]
  <2>1. writer[u] # NoCodec
    BY <1>3 DEF PoolInv, WriterInv
  <2>2. writer[u] # writer[t] /\ writer[u] \in Writers
    BY <2>1 DEF PoolInv, WriterInv
  <2> QED
    BY <2>2 DEF PoolStep, Submit, GetWriter, ResetWriter, Write, CloseWriter, PutWriter, GetReader,
       ResetReader, Read, ReadEOF, PutReader, Abandon, PoolInv, KindInv
<1>4. ASSUME pc[u] = "read"
      PROVE  rest'[reader[u]] = rest[reader[u]]
  <2>1. reader[u] # NoCodec
    BY <1>4 DEF PoolInv, ReaderInv
  <2>2. reader[u] # reader[t] /\ reader[u] \in Readers
    BY <2>1 DEF PoolInv, ReaderInv
  <2> QED
    BY <2>2 DEF PoolStep, Submit, GetWriter, ResetWriter, Write, CloseWriter, PutWriter, GetReader,
       ResetReader, Read, ReadEOF, PutReader, Abandon, PoolInv, KindInv
<1>5. DataOf(u)
  BY DEF PoolInv, DataInv, DataOf
<1> QED
  BY <1>1, <1>2, <1>3, <1>4, <1>5 DEF DataOf

\* What t works with after a step of its own.
LEMMA OwnData ==
    ASSUME PoolInv, NEW t \in Transfers, PoolStep(t) \/ \E d \in Seq(Parts) : Submit(t, d)
    PROVE  DataOf(t)'
<1>1. DataOf(t)
  BY DEF PoolInv, DataInv, DataOf
<1>2. /\ DOMAIN pc = Transfers /\ DOMAIN data = Transfers /\ DOMAIN wire = Transfers
      /\ DOMAIN out = Transfers /\ DOMAIN writer = Transfers /\ DOMAIN reader = Transfers
      /\ DOMAIN target = Writers /\ DOMAIN buffer = Writers /\ DOMAIN rest = Readers
  BY DEF PoolInv, KindInv
<1>3. /\ pc[t] \in {"reset", "write", "close", "put"} => writer[t] \in Writers
      /\ pc[t] \in {"source", "read", "eof"} => reader[t] \in Readers
  BY DEF PoolInv, WriterInv, ReaderInv
<1>4. \A s \in Seq(Parts) : <<>> \o s = s /\ s \o <<>> = s
  OBVIOUS
<1> USE <1>1, <1>2, <1>3 DEF DataOf, Go
<1>5. CASE \E d \in Seq(Parts) : Submit(t, d)
  BY <1>5 DEF Submit
<1>6. CASE GetWriter(t)
  BY <1>6 DEF GetWriter
<1>7. CASE ResetWriter(t)
  BY <1>7 DEF ResetWriter
<1>8. CASE Write(t)
  BY <1>4, <1>8 DEF Write
<1>9. CASE CloseWriter(t)
  <2>1. wire'[t] = wire[t] \o buffer[writer[t]]
    BY <1>9 DEF CloseWriter
  <2>2. wire'[t] = data[t]
    BY <1>4, <1>9, <2>1 DEF CloseWriter
  <2>3. pc'[t] = "put" /\ data'[t] = data[t] /\ out'[t] = out[t] /\ out[t] = <<>>
    BY <1>9 DEF CloseWriter
  <2> QED
    BY <2>2, <2>3
<1>10. CASE PutWriter(t)
  BY <1>10 DEF PutWriter
<1>11. CASE GetReader(t)
  BY <1>11 DEF GetReader
<1>12. CASE ResetReader(t)
  <2>1. /\ pc'[t] = "read" /\ data'[t] = data[t] /\ out'[t] = out[t] /\ wire'[t] = wire[t]
        /\ reader'[t] = reader[t] /\ rest'[reader[t]] = wire[t]
        /\ out[t] = <<>> /\ wire[t] = data[t]
    BY <1>12 DEF ResetReader
  <2>2. out[t] \o wire[t] = data[t]
    BY <1>4, <2>1
  <2> QED
    BY <2>1, <2>2
<1>13. CASE Read(t)
  <2> DEFINE q == rest[reader[t]]
  <2>1. PICK n \in 1..Len(q) :
          /\ out' = [out EXCEPT ![t] = out[t] \o SubSeq(q, 1, n)]
          /\ rest' = [rest EXCEPT ![reader[t]] = SubSeq(q, n + 1, Len(q))]
    BY <1>13 DEF Read
  <2>2. /\ pc[t] = "read" /\ pc'[t] = "read" /\ data'[t] = data[t] /\ wire'[t] = wire[t]
        /\ reader'[t] = reader[t]
    BY <1>13 DEF Read
  <2>3. q \in Seq(Parts) /\ out[t] \in Seq(Parts) /\ out[t] \o q = data[t]
    BY <2>2
  <2>4. out'[t] = out[t] \o SubSeq(q, 1, n) /\ rest'[reader[t]] = SubSeq(q, n + 1, Len(q))
    BY <2>1, <2>2
  <2> HIDE DEF q
  <2>5. /\ out'[t] \in Seq(Parts) /\ rest'[reader[t]] \in Seq(Parts)
        /\ out'[t] \o rest'[reader[t]] = data[t]
    <3>1. /\ out[t] \o SubSeq(q, 1, n) \in Seq(Parts)
          /\ SubSeq(q, n + 1, Len(q)) \in Seq(Parts)
          /\ (out[t] \o SubSeq(q, 1, n)) \o SubSeq(q, n + 1, Len(q)) = out[t] \o q
      <4> DEFINE o == out[t]
      <4>1. o \in Seq(Parts) /\ q \in Seq(Parts) /\ n \in 1..Len(q)
        BY <2>3
      <4> HIDE DEF o
      <4>2. /\ o \o SubSeq(q, 1, n) \in Seq(Parts)
            /\ SubSeq(q, n + 1, Len(q)) \in Seq(Parts)
            /\ (o \o SubSeq(q, 1, n)) \o SubSeq(q, n + 1, Len(q)) = o \o q
        BY ONLY <4>1, ReadFacts, ZenonT(60)
      <4> QED
        BY <4>2 DEF o
    <3> QED
      BY <2>3, <2>4, <3>1, Zenon
  <2> QED
    BY <2>2, <2>5
<1>14. CASE ReadEOF(t)
  BY <1>4, <1>14 DEF ReadEOF
<1>15. CASE PutReader(t)
  BY <1>15 DEF PutReader
<1>16. CASE Abandon(t)
  BY <1>16 DEF Abandon
<1> QED
  BY <1>5, <1>6, <1>7, <1>8, <1>9, <1>10, <1>11, <1>12, <1>13, <1>14, <1>15, <1>16 DEF PoolStep

\* Every step keeps the four parts of the invariant.
LEMMA PoolInvStep ==
    ASSUME PoolInv, [PoolNext]_poolVars
    PROVE  PoolInv'
<1>1. CASE UNCHANGED poolVars
  BY <1>1 DEF PoolInv, WriterInv, ReaderInv, KindInv, DataInv, poolVars
<1>2. ASSUME PoolNext PROVE PoolInv'
  <2>1. PICK t \in Transfers : PoolStep(t) \/ \E d \in Seq(Parts) : Submit(t, d)
    BY <1>2 DEF PoolNext
  <2>2. \A u \in Transfers : DataOf(u)'
    BY <2>1, OthersData, OwnData
  <2>3. DataInv'
    BY <2>2 DEF DataInv, DataOf
  <2> QED
    BY <2>1, <2>3, WriterStep, ReaderStep, KindStep DEF PoolInv
<1> QED
  BY <1>1, <1>2

\* So they hold in every state.
LEMMA PoolInvariance == PoolSpec => []PoolInv
BY PoolInvInit, PoolInvStep, PTL DEF PoolSpec

-------------------------------------------------------------------------------
\* The compressor's pools never give one writer or reader to two goroutines.
THEOREM OneUserEach == PoolSpec => []OneUser
<1>1. PoolInv => OneUser
  BY PoolAssumption DEF PoolInv, WriterInv, ReaderInv, KindInv, OneUser
<1> QED
  BY <1>1, PoolInvariance, PTL

\* A message that grpc has read to its end is the one that was sent, whatever
\* else is compressed and decompressed meanwhile.
THEOREM ArrivesIntact == PoolSpec => []Intact
<1>1. PoolInv => Intact
  BY DEF PoolInv, DataInv, Intact
<1> QED
  BY <1>1, PoolInvariance, PTL

-------------------------------------------------------------------------------
(* Messages on their way *)

\* Every message is one of the model's; from Send on its bytes are what the
\* methods write of it, and what has been decoded was read from these bytes.
PathInv ==
    /\ PoolInv
    /\ DOMAIN msg = Transfers /\ DOMAIN decoded = Transfers
    /\ \A t \in Transfers :
        /\ msg[t] \in Messages \cup {Nothing}
        /\ pc[t] # "idle" => msg[t] \in Messages /\ Encode(msg[t]) = <<data[t]>>
        /\ pc[t] = "decoded" => decoded[t] = <<msg[t].value>>

\* No message has been sent at first.
LEMMA PathInit == Init => PathInv
<1> SUFFICES ASSUME Init PROVE PathInv
  OBVIOUS
<1>1. PoolInv
  BY PoolInvInit DEF Init
<1>2. DOMAIN msg = Transfers /\ DOMAIN decoded = Transfers
  BY DEF Init
<1>3. \A t \in Transfers : msg[t] \in Messages \cup {Nothing}
  BY PathAssumption DEF Init
<1>4. \A t \in Transfers : pc[t] = "idle"
  BY DEF Init, PoolInit
<1> QED BY <1>1, <1>2, <1>3, <1>4 DEF PathInv

\* The methods, as the path calls them.
LEMMA EncodeIs ==
    ASSUME NEW g \in Messages
    PROVE  LET b == Encoded(Marshals[g.type], g.value)
           IN  /\ b \in Seq(Parts) /\ Encode(g) = <<b>>
               /\ UnmarshalVT(Unmarshals[g.type], b) = <<g.value>>
BY MessageRoundTrip, PathAssumption DEF Encode, Octets

\* A message that is sent is encoded,
LEMMA SendStep ==
    ASSUME PathInv, NEW t \in Transfers, Send(t)
    PROVE  PathInv'
<1> DEFINE b == Encoded(Marshals[msg[t].type], msg[t].value)
<1>1. msg[t] \in Messages
  BY DEF PathInv, Send
<1>2. b \in Seq(Parts) /\ Encode(msg[t]) = <<b>>
  BY <1>1, EncodeIs
<1> HIDE DEF b
<1>3. Submit(t, b) /\ UNCHANGED <<msg, decoded>>
  <2>1. PICK k \in DOMAIN Encode(msg[t]) : Submit(t, Encode(msg[t])[k])
    BY DEF Send
  <2>2. Encode(msg[t])[k] = b
    BY <1>2
  <2> QED BY <2>1, <2>2 DEF Send
<1>4. PoolInv'
  BY <1>2, <1>3, PoolInvStep DEF PathInv, PoolNext
<1>5. pc' = [pc EXCEPT ![t] = "queued"] /\ data' = [data EXCEPT ![t] = b] /\ msg' = msg /\ decoded' = decoded
  BY <1>3 DEF Submit, Go
<1>6. DOMAIN pc = Transfers /\ DOMAIN data = Transfers
  BY DEF PathInv, PoolInv, KindInv
<1>7. \A m : Encode(m)' = Encode(m)
  OBVIOUS
<1> QED
  BY <1>1, <1>2, <1>4, <1>5, <1>6 DEF PathInv, Encode

\* the compressor carries its bytes,
LEMMA CarryStep ==
    ASSUME PathInv, NEW t \in Transfers, Carry(t)
    PROVE  PathInv'
<1>1. PoolStep(t) /\ msg' = msg /\ decoded' = decoded
  BY DEF Carry
<1>2. PoolInv /\ PoolInv'
  BY <1>1, PoolInvStep DEF PathInv, PoolNext
<1>3. \A u \in Transfers \ {t} : pc'[u] = pc[u] /\ data'[u] = data[u]
  BY <1>1, <1>2, OthersStay
<1>4. data'[t] = data[t] /\ pc[t] # "idle" /\ pc'[t] # "decoded"
  BY <1>1, <1>2 DEF PoolInv, KindInv, PoolStep, GetWriter, ResetWriter, Write, CloseWriter, PutWriter,
     GetReader, ResetReader, Read, ReadEOF, PutReader, Abandon, Go
<1> QED BY <1>1, <1>2, <1>3, <1>4 DEF PathInv, Encode

\* and its receiver decodes them.
LEMMA ReceiveStep ==
    ASSUME PathInv, NEW t \in Transfers, Receive(t)
    PROVE  PathInv'
<1>1. /\ pc[t] = "received" /\ pc' = [pc EXCEPT ![t] = "decoded"]
      /\ decoded' = [decoded EXCEPT ![t] = UnmarshalVT(Unmarshals[msg[t].type], out[t])]
      /\ UNCHANGED <<data, writer, reader, wpool, rpool, made, target, buffer, rest, wire, out, msg>>
  BY DEF Receive, Go
<1>2. PoolInv'
  BY <1>1 DEF PathInv, PoolInv, WriterInv, ReaderInv, KindInv, DataInv
<1>3. msg[t] \in Messages /\ Encode(msg[t]) = <<data[t]>> /\ out[t] = data[t]
  BY <1>1 DEF PathInv, PoolInv, DataInv
<1>4. UnmarshalVT(Unmarshals[msg[t].type], out[t]) = <<msg[t].value>>
  <2> DEFINE g == msg[t]
             b == Encoded(Marshals[g.type], g.value)
  <2> HIDE DEF g
  <2>1. Encode(g) = <<b>> /\ UnmarshalVT(Unmarshals[g.type], b) = <<g.value>>
    BY <1>3, EncodeIs DEF g
  <2> HIDE DEF b
  <2>2. b = out[t]
    BY <1>3, <2>1 DEF g
  <2> QED BY <2>1, <2>2 DEF g
<1> QED BY <1>1, <1>2, <1>3, <1>4 DEF PathInv, Encode, PoolInv, KindInv

\* So it is in every state.
LEMMA PathInvariance == Spec => []PathInv
<1>1. ASSUME PathInv, [Next]_vars PROVE PathInv'
  <2>1. CASE UNCHANGED vars
    <3>1. PoolInv'
      BY <1>1, <2>1, PoolInvStep DEF vars, PathInv
    <3>2. UNCHANGED <<pc, data, msg, decoded>>
      BY <2>1 DEF vars, poolVars
    <3> QED BY <1>1, <3>1, <3>2 DEF PathInv, Encode
  <2>2. CASE Next
    BY <1>1, <2>2, SendStep, CarryStep, ReceiveStep DEF Next
  <2> QED BY <1>1, <2>1, <2>2
<1> QED BY <1>1, PathInit, PTL DEF Spec

\* SizeVT, MarshalToSizedBufferVT, the compressor and UnmarshalVT agree: every
\* message can be sent, and what is received of it equals what was sent.
THEOREM EveryMessageDelivered == Spec => []Delivered
<1>1. PathInv => Delivered
  <2> SUFFICES ASSUME PathInv PROVE Delivered
    OBVIOUS
  <2>1. ASSUME NEW t \in Transfers, msg[t] # Nothing PROVE Encode(msg[t]) # <<>>
    <3>1. msg[t] \in Messages
      BY <2>1 DEF PathInv
    <3> QED BY <3>1, EncodeIs
  <2> QED BY <2>1 DEF PathInv, Delivered
<1> QED BY <1>1, PathInvariance, PTL

\* UnmarshalVT takes no message that has lost its end for another one: it
\* refuses the rest, or the rest is the encoding of what it makes of it.
THEOREM CutMessageRefused == Spec => []PrefixRefused
<1>1. PathInv => PrefixRefused
  <2> SUFFICES ASSUME PathInv, NEW t \in Transfers, pc[t] = "decoded",
                      NEW n \in 0..Len(data[t]) - 1
               PROVE  LET m == UnmarshalVT(Unmarshals[msg[t].type], Cut(data[t], n))
                      IN  m = <<>> \/ Encode([type |-> msg[t].type, value |-> m[1]]) = <<Cut(data[t], n)>>
    BY DEF PrefixRefused
  <2> DEFINE g == msg[t]
             b == Encoded(Marshals[g.type], g.value)
  <2>1. g \in Messages /\ Encode(g) = <<data[t]>>
    BY DEF PathInv
  <2> HIDE DEF g
  <2>2. Encode(g) = <<b>>
    BY <2>1, EncodeIs
  <2>3. b = data[t] /\ n \in 0..(Len(b) - 1)
    BY <2>1, <2>2
  <2> DEFINE m == UnmarshalVT(Unmarshals[g.type], Cut(b, n))
  <2>4. m = <<>> \/ MarshalVT(Marshals[g.type], Sizes[g.type], m[1]) = <<Cut(b, n)>>
    BY <2>1, <2>3, MessageCut
  <2> HIDE DEF b, m
  <2>5. Encode([type |-> g.type, value |-> m[1]]) = MarshalVT(Marshals[g.type], Sizes[g.type], m[1])
    BY DEF Encode
  <2> QED BY <2>3, <2>4, <2>5 DEF g, m
<1> QED BY <1>1, PathInvariance, PTL
-------------------------------------------------------------------------------
(* A program that does not know one of the fields *)

\* Keep adds to the unknown fields.
LEMMA KeepWith ==
    ASSUME NEW at, at = "unknownFields",
           NEW p, p = [g \in DOMAIN p |-> p[g]], at \in DOMAIN p, NEW a, NEW x
    PROVE  Keep(With(p, at, a), x) = With(p, at, a \o x)
<1> DEFINE q == With(p, at, a)
<1>1. q[at] = a /\ With(q, at, a \o x) = With(p, at, a \o x)
  BY WithFact
<1> HIDE DEF q
<1>2. Keep(q, x) = With(q, at, q[at] \o x)
  BY DEF Keep, With
<1> QED BY <1>1, <1>2 DEF q

\* Unknown fields are added to those that are there.
LEMMA UnknownAdds ==
    ASSUME NEW cases, NEW u, IsUnknown(cases, u), NEW at, at = "unknownFields",
           NEW p, p = [g \in DOMAIN p |-> p[g]], at \in DOMAIN p, p[at] \in Octets
    PROVE  Carries(cases, p, u, With(p, at, p[at] \o u))
<1>1. PICK n \in Nat : \E fields \in [1..n -> Octets] :
          /\ u = FlattenSeq(fields)
          /\ \A k \in 1..n : IsPiece(cases, fields[k], {}, fields[k])
  BY UnknownChain
<1>2. PICK fields \in [1..n -> Octets] :
          /\ u = FlattenSeq(fields)
          /\ \A k \in 1..n : IsPiece(cases, fields[k], {}, fields[k])
  BY <1>1
<1>3. fields \in [1..n -> Seq(Byte)]
  BY <1>2 DEF Octets
<1>4. PICK f \in [0..n -> Seq(Byte)] :
          /\ f[0] = <<>>
          /\ \A i \in 1..n : f[i] = f[i-1] \o fields[i]
          /\ FlattenSeq(fields) = f[n]
  <2>1. n \in Nat
    BY <1>1
  <2> QED BY ONLY <1>3, <2>1, FlattenFact
<1> DEFINE old == p[at]
           msgs == [i \in 0..n |-> With(p, at, old \o f[i])]
<1>5. old \in Seq(Byte)
  BY DEF Octets
<1> HIDE DEF old
<1>6. ASSUME NEW i \in 1..n PROVE Carries(cases, msgs[i - 1], fields[i], msgs[i])
  <2>1. i \in 0..n /\ i - 1 \in 0..n
    OBVIOUS
  <2>2. msgs[i - 1] = With(p, at, old \o f[i - 1]) /\ msgs[i] = With(p, at, old \o f[i])
    BY <2>1
  <2> DEFINE a == f[i - 1]
             x == fields[i]
  <2>3. a \in Seq(Byte) /\ x \in Seq(Byte) /\ f[i] = a \o x
    BY <1>3, <1>4, <2>1
  <2>4. IsPiece(cases, x, {}, x)
    BY <1>2
  <2> HIDE DEF msgs, a, x
  <2>5. Carries(cases, With(p, at, old \o a), x, Keep(With(p, at, old \o a), x))
    BY <2>4, CarriesUnknown
  <2>6. Keep(With(p, at, old \o a), x) = With(p, at, (old \o a) \o x)
    BY KeepWith
  <2>7. (old \o a) \o x = old \o (a \o x)
    <3>1. old \in Seq(Byte) /\ a \in Seq(Byte) /\ x \in Seq(Byte)
      BY <1>5, <2>3
    <3> QED BY ONLY <3>1
  <2> QED BY <2>2, <2>3, <2>5, <2>6, <2>7 DEF a, x
<1>7. msgs[0] = p /\ msgs[n] = With(p, at, old \o u)
  <2>1. 0 \in 0..n /\ n \in 0..n
    OBVIOUS
  <2>2. old \o <<>> = old
    BY <1>5
  <2>3. With(p, at, old) = p
    <3>1. p = [g \in DOMAIN p |-> p[g]] /\ at \in DOMAIN p /\ p[at] = old
      BY DEF old
    <3> QED BY ONLY <3>1 DEF With
  <2> QED BY <1>2, <1>4, <2>1, <2>2, <2>3
<1> HIDE DEF msgs
<1>8. DOMAIN fields = 1..n /\ fields = [i \in 1..n |-> fields[i]]
  BY <1>2
<1>9. Carries(cases, msgs[0], FlattenSeq(fields), msgs[n])
  BY <1>1, <1>6, <1>8, CarriesAll
<1> QED BY <1>2, <1>7, <1>9 DEF old

\* What is unknown to a program is unknown to one with fewer cases.
LEMMA PieceStays ==
    ASSUME NEW cases, NEW less, less \subseteq cases, NEW f, IsPiece(cases, f, {}, f)
    PROVE  IsPiece(less, f, {}, f)
<1>1. NextField(cases, f) = << [case |-> {}, value |-> f, rest |-> <<>>] >>
  BY DEF IsPiece
<1>2. ReadVarint(f) # <<>>
  BY <1>1 DEF NextField, Then
<1> DEFINE tag == ReadVarint(f)[1]
           c == CaseFor(cases, tag.value)
<1>3. ~ (TagType(tag.value) = 4 \/ FieldNumber(tag.value) <= 0)
  BY <1>1, <1>2 DEF NextField, Then
<1>4. CasesFor(cases, tag.value) = {}
  <2> SUFFICES ASSUME CasesFor(cases, tag.value) # {} PROVE FALSE
    OBVIOUS
  <2>1. NextField(cases, f) = KnownField(c, tag.value, tag.rest)
    BY <1>2, <1>3 DEF NextField, Then
  <2> HIDE DEF tag, c
  <2>2. KnownField(c, tag.value, tag.rest) = << [case |-> {}, value |-> f, rest |-> <<>>] >>
    BY <1>1, <2>1
  <2>3. \A x, y : [case |-> {c}, value |-> x, rest |-> y] # [case |-> {}, value |-> f, rest |-> <<>>]
    <3> TAKE x, y
    <3> DEFINE one == [case |-> {c}, value |-> x, rest |-> y]
               none == [case |-> {}, value |-> f, rest |-> <<>>]
    <3>1. one.case = {c} /\ none.case = {}
      OBVIOUS
    <3>2. {c} # {}
      OBVIOUS
    <3> HIDE DEF one, none
    <3> QED BY <3>1, <3>2 DEF one, none
  <2>4. CASE TagType(tag.value) # WireType(c)
    BY <2>2, <2>4 DEF KnownField
  <2>5. CASE TagType(tag.value) = WireType(c) /\ ReadValue(c, tag.rest) = <<>>
    BY <2>2, <2>5 DEF KnownField, Then
  <2>6. CASE TagType(tag.value) = WireType(c) /\ ReadValue(c, tag.rest) # <<>>
    <3> DEFINE x == ReadValue(c, tag.rest)[1]
    <3>1. KnownField(c, tag.value, tag.rest) = << [case |-> {c}, value |-> x.value, rest |-> x.rest] >>
      BY <2>6 DEF KnownField, Then
    <3> HIDE DEF x
    <3>2. [case |-> {c}, value |-> x.value, rest |-> x.rest] = [case |-> {}, value |-> f, rest |-> <<>>]
      BY <2>2, <3>1
    <3> QED BY <2>3, <3>2
  <2> QED BY <2>4, <2>5, <2>6
<1>5. CasesFor(less, tag.value) = {}
  BY <1>4 DEF CasesFor
<1>6. NextField(cases, f) = SkippedField(f) /\ NextField(less, f) = SkippedField(f)
  BY <1>2, <1>3, <1>4, <1>5 DEF NextField, Then
<1> QED BY <1>1, <1>6 DEF IsPiece

\* So is a sequence of unknown fields.
LEMMA UnknownStays ==
    ASSUME NEW cases, NEW less, less \subseteq cases, NEW u, IsUnknown(cases, u)
    PROVE  IsUnknown(less, u)
<1>1. PICK n \in Nat : \E fields \in [1..n -> Octets] :
          /\ u = FlattenSeq(fields)
          /\ \A k \in 1..n : IsPiece(cases, fields[k], {}, fields[k])
  BY UnknownChain
<1>2. PICK fields \in [1..n -> Octets] :
          /\ u = FlattenSeq(fields)
          /\ \A k \in 1..n : IsPiece(cases, fields[k], {}, fields[k])
  BY <1>1
<1>3. \A k \in 1..n : IsPiece(less, fields[k], {}, fields[k])
  BY <1>2, PieceStays
<1> QED BY <1>1, <1>2, <1>3, FieldsUnknown

\* A sequence without its element r.
LEMMA RemoveFact ==
    ASSUME NEW S, NEW s \in Seq(S), NEW r \in 1..Len(s)
    PROVE  /\ RemoveAt(s, r) \in Seq(S) /\ Len(RemoveAt(s, r)) = Len(s) - 1
           /\ \A i \in 1..(r - 1) : RemoveAt(s, r)[i] = s[i]
           /\ \A i \in r..(Len(s) - 1) : RemoveAt(s, r)[i] = s[i + 1]
<1> DEFINE a == SubSeq(s, 1, r - 1)
           b == SubSeq(s, r + 1, Len(s))
           n == Len(s)
<1>1. n \in Nat /\ r \in Nat /\ r >= 1 /\ r <= n
  OBVIOUS
<1>2. /\ a \in Seq(S) /\ Len(a) = r - 1 /\ \A i \in 1..(r - 1) : a[i] = s[i]
  OBVIOUS
<1>3. /\ b \in Seq(S) /\ Len(b) = n - r /\ \A i \in 1..(n - r) : b[i] = s[r + i]
  OBVIOUS
<1>4. RemoveAt(s, r) = a \o b
  BY DEF RemoveAt
<1> HIDE DEF a, b, n
<1>5. /\ a \o b \in Seq(S) /\ Len(a \o b) = Len(a) + Len(b)
      /\ \A i \in 1..Len(a) : (a \o b)[i] = a[i]
      /\ \A i \in 1..Len(b) : (a \o b)[Len(a) + i] = b[i]
  <2>1. a \in Seq(S) /\ b \in Seq(S)
    BY <1>2, <1>3
  <2> QED BY ONLY <2>1, ConcatFact
<1> DEFINE t == a \o b
<1>6. t \in Seq(S) /\ Len(t) = n - 1 /\ \A i \in 1..(r - 1) : t[i] = s[i]
  BY <1>1, <1>2, <1>3, <1>5
<1>7. ASSUME NEW i \in r..(n - 1) PROVE t[i] = s[i + 1]
  <2> DEFINE j == i - (r - 1)
  <2>1. j \in 1..(n - r) /\ (r - 1) + j = i /\ r + j = i + 1
    BY <1>1
  <2> HIDE DEF t, j
  <2>2. t[(r - 1) + j] = b[j] /\ b[j] = s[r + j]
    BY <1>2, <1>3, <1>5, <2>1 DEF t
  <2> QED BY <2>1, <2>2
<1> QED BY <1>4, <1>6, <1>7 DEF n

\* A program that has been built without the cases of field f, or one of them.
Fewer(cases, less, f) ==
    /\ less \subseteq cases /\ f \in Fields(cases)
    /\ \A g \in Fields(cases) : g # f => g \in Fields(less)

\* Either all fields are still there or all but one.
LEMMA FewerFields ==
    ASSUME NEW cases, NEW less, NEW f, Fewer(cases, less, f)
    PROVE  \/ f \in Fields(less) /\ Fields(less) = Fields(cases)
           \/ f \notin Fields(less) /\ Fields(less) = Fields(cases) \ {f}
<1>1. Fields(less) \subseteq Fields(cases)
  BY DEF Fields, Fewer
<1>2. \A g \in Fields(cases) : g # f => g \in Fields(less)
  BY DEF Fewer
<1>3. f \in Fields(cases)
  BY DEF Fewer
<1> QED BY <1>1, <1>2, <1>3

\* The rows of that program.
LEMMA OldRowsFact ==
    ASSUME NEW cases, NEW less, NEW f, Fewer(cases, less, f), NEW rows, IsList(rows), Rows(rows, cases),
           NEW old, DOMAIN old = Fields(less)
    PROVE  LET new == OldRows(rows, old)
           IN  /\ Rows(new, less)
               /\ \A i \in 1..Len(new) : \E j \in 1..Len(rows) : new[i] = rows[j]
               /\ Len(new) = IF f \in Fields(less) THEN Len(rows) ELSE Len(rows) - 1
<1> DEFINE N == Len(rows)
           kept == Fields(less)
           gone == {i \in DOMAIN rows : rows[i].field \notin DOMAIN old}
           new == OldRows(rows, old)
           S == {rows[i] : i \in DOMAIN rows}
<1>1. /\ N \in Nat /\ DOMAIN rows = 1..N
      /\ \A i, j \in 1..N : rows[i].field = rows[j].field => i = j
      /\ {rows[i].field : i \in 1..N} = Fields(cases)
  BY DEF Rows
<1>2. rows \in Seq(S)
  BY DEF IsList
<1>3. CASE f \in kept
  <2>1. kept = Fields(cases)
    BY <1>3, FewerFields
  <2>2. gone = {}
    BY <1>1, <2>1
  <2>3. new = rows
    BY <2>2 DEF OldRows
  <2> HIDE DEF new
  <2>4. Rows(new, less)
    BY <2>1, <2>3 DEF Rows
  <2> QED BY <1>3, <2>3, <2>4 DEF new
<1>4. CASE f \notin kept
  <2>1. kept = Fields(cases) \ {f} /\ f \in Fields(cases)
    BY <1>4, FewerFields DEF Fewer
  <2>2. PICK r \in 1..N : rows[r].field = f
    BY <1>1, <2>1
  <2>3. gone = {r}
    <3>1. DOMAIN rows = 1..N /\ DOMAIN old = Fields(cases) \ {f}
      BY <1>1, <2>1
    <3>2. ASSUME NEW i \in 1..N PROVE rows[i].field \notin DOMAIN old <=> i = r
      <4>1. rows[i].field \in Fields(cases) /\ (rows[i].field = rows[r].field => i = r)
        BY <1>1, <2>2
      <4> QED BY <2>2, <3>1, <4>1
    <3> QED BY <2>2, <3>1, <3>2
  <2>4. new = RemoveAt(rows, r)
    <3>1. (CHOOSE i \in gone : TRUE) = r
      BY <2>3
    <3> QED BY <2>3, <3>1 DEF OldRows
  <2> HIDE DEF new, gone, S
  <2>5. /\ new \in Seq(S) /\ Len(new) = N - 1
        /\ \A i \in 1..(r - 1) : new[i] = rows[i]
        /\ \A i \in r..(N - 1) : new[i] = rows[i + 1]
    BY <1>2, <2>2, <2>4, RemoveFact DEF N
  <2>6. Len(new) \in Nat /\ DOMAIN new = 1..Len(new)
    BY <2>5
  <2> DEFINE from(i) == IF i < r THEN i ELSE i + 1
  <2>7. ASSUME NEW i \in 1..Len(new)
        PROVE  new[i] = rows[from(i)] /\ from(i) \in 1..N /\ from(i) # r
    <3> HIDE DEF N
    <3>1. CASE i < r
      BY <1>1, <2>5, <3>1
    <3>2. CASE i >= r
      BY <1>1, <2>5, <3>2
    <3> QED BY <2>5, <3>1, <3>2
  <2>8. ASSUME NEW i \in 1..Len(new), NEW j \in 1..Len(new), new[i].field = new[j].field
        PROVE  i = j
    <3>1. from(i) = from(j)
      BY <1>1, <2>7, <2>8
    <3> QED BY <2>2, <2>5, <3>1
  <2>9. ASSUME NEW g \in kept PROVE \E i \in 1..Len(new) : new[i].field = g
    <3>1. PICK k \in 1..N : rows[k].field = g
      BY <1>1, <2>1
    <3>2. k # r
      BY <2>1, <2>2, <3>1
    <3> DEFINE i == IF k < r THEN k ELSE k - 1
    <3>3. i \in 1..Len(new) /\ from(i) = k
      <4> HIDE DEF N
      <4> QED BY <1>1, <2>2, <2>5, <3>2
    <3> HIDE DEF i, from
    <3> QED BY <2>7, <3>1, <3>3
  <2>10. \A i \in 1..Len(new) : new[i].field \in kept
    BY <1>1, <2>1, <2>2, <2>7
  <2>11. Rows(new, less)
    <3> HIDE DEF from
    <3>1. {new[i].field : i \in 1..Len(new)} = kept
      BY <2>9, <2>10
    <3> QED BY <2>6, <2>8, <3>1 DEF Rows
  <2>12. \A i \in 1..Len(new) : \E j \in 1..N : new[i] = rows[j]
    <3> HIDE DEF from
    <3> QED BY <2>7
  <2> QED BY <1>4, <2>5, <2>11, <2>12 DEF new
<1> QED BY <1>3, <1>4

\* One piece that is unknown.
LEMMA OneUnknown ==
    ASSUME NEW cases, NEW f, IsPiece(cases, f, {}, f)
    PROVE  IsUnknown(cases, f)
<1> DEFINE fields == [k \in 1..1 |-> f]
           n == 1
<1>1. f \in Octets
  BY DEF IsPiece
<1>2. n \in Nat /\ fields \in [1..n -> Octets] /\ \A k \in 1..n : IsPiece(cases, fields[k], {}, fields[k])
  BY <1>1
<1>3. FlattenSeq(fields) = f
  BY <1>1, FlattenOne
<1> HIDE DEF fields, n
<1>4. IsUnknown(cases, FlattenSeq(fields))
  BY <1>2, FieldsUnknown
<1> QED BY <1>3, <1>4

\* All that is written of a field is unknown to a program without its only case.
LEMMA PlainUnknown ==
    ASSUME NEW row, NEW c, SameTag(row, c), NEW m, Sound(row, c, m[row.field]),
           NEW cases, \A d \in cases : d.at # c.at
    PROVE  IsUnknown(cases, Written(row, m))
<1> DEFINE es == Elements(row, m)
           n == Len(es)
           chunks == Chunks(row, m)
           v == m[row.field]
<1>1. ReadsAll(row, c, v, es)
  BY ElementRead
<1>2. n \in Nat /\ \A i \in 1..n : Reads(row, c, Before(c, v, i - 1), es[i], Before(c, v, i))
  <2> HIDE DEF es, v
  <2> QED BY <1>1 DEF ReadsAll
<1>3. chunks = [i \in 1..n |-> Tagged(row, Payload(row, Raw(row, es[i])))]
  BY DEF Chunks
<1>4. \A x : Payload(row, x) = Payload(c, x)
  BY DEF Sound, Payload, IsNumber
<1>5. row.kind \in Plain
  BY DEF Sound
<1> HIDE DEF es, n, v, chunks
<1>6. ASSUME NEW i \in 1..n PROVE IsPiece(cases, chunks[i], {}, chunks[i])
  <2> DEFINE x == Raw(row, es[i])
  <2>1. IsValue(c, x)
    BY <1>2 DEF Reads
  <2>2. chunks[i] = Tagged(row, Payload(c, x))
    BY <1>3, <1>4
  <2> HIDE DEF x
  <2> QED BY <2>1, <2>2, UnknownPiece
<1>7. chunks \in [1..n -> Octets]
  BY <1>3, <1>6 DEF IsPiece
<1>8. IsUnknown(cases, FlattenSeq(chunks))
  BY <1>2, <1>6, <1>7, FieldsUnknown
<1> QED BY <1>5, <1>8, PlainWritten DEF chunks

\* What is written of the field of a case is read by another of its cases, or
\* is unknown to a program without that case.
LEMMA RowWithout ==
    ASSUME NEW cases, \A d, e \in cases : d.at = e.at => d = e,
           NEW c \in cases, c.field # "unknownFields",
           NEW row, row.field = c.field, NEW m, SoundField(cases, row, m)
    PROVE  \/ SoundField(cases \ {c}, row, m) /\ row.field \in Fields(cases \ {c})
           \/ IsUnknown(cases \ {c}, Written(row, m))
<1> DEFINE less == cases \ {c}
<1>1. \A d \in less : d.at # c.at /\ d \in cases
  OBVIOUS
<1>2. \A d \in less : d.field \in Fields(less)
  BY DEF Fields
<1>3. ~ (row.kind = "Unknown" /\ row.field = "unknownFields")
  OBVIOUS
<1> HIDE DEF less
<1>4. CASE row.kind = "OneOf" /\ m[row.field] = <<>>
  <2>1. Written(row, m) = <<>>
    BY <1>4, FieldNothing
  <2>2. IsUnknown(less, Written(row, m))
    BY <2>1, NothingUnknown
  <2> QED BY <2>2 DEF less
<1>5. ASSUME row.kind = "OneOf", NEW d \in cases, row.field = d.field, SoundArm(d, m[d.field])
      PROVE  \/ SoundField(less, row, m) /\ row.field \in Fields(less)
             \/ IsUnknown(less, Written(row, m))
  <2>1. CASE d # c
    <3>1. d \in less
      BY <2>1 DEF less
    <3> QED BY <1>2, <1>5, <3>1 DEF SoundField
  <2>2. CASE d = c
    <3> DEFINE x == ArmRaw(c, m[c.field][1].wrapper[c.inner])
               it == Marshals[c.arm][1]
               chunk == Tagged(it, Payload(c, x))
    <3>1. SameTag(it, c) /\ IsValue(c, x) /\ Written(row, m) = chunk
      BY <1>5, <2>2, SoundArmChunk
    <3> HIDE DEF x, it
    <3>2. IsPiece(less, chunk, {}, chunk)
      BY <1>1, <3>1, UnknownPiece
    <3> HIDE DEF chunk
    <3> QED BY <3>1, <3>2, OneUnknown
  <2> QED BY <2>1, <2>2
<1>6. ASSUME NEW d \in cases, row.field = d.field, SameTag(row, d), Sound(row, d, m[row.field])
      PROVE  \/ SoundField(less, row, m) /\ row.field \in Fields(less)
             \/ IsUnknown(less, Written(row, m))
  <2>1. CASE d # c
    <3>1. d \in less
      BY <2>1 DEF less
    <3> QED BY <1>2, <1>6, <3>1 DEF SoundField
  <2>2. CASE d = c
    BY <1>1, <1>6, <2>2, PlainUnknown
  <2> QED BY <2>1, <2>2
<1>7. \/ SoundField(less, row, m) /\ row.field \in Fields(less)
      \/ IsUnknown(less, Written(row, m))
  BY <1>3, <1>4, <1>5, <1>6 DEF SoundField, less
<1> QED BY <1>7 DEF less

\* All other fields are read as before.
LEMMA OtherRow ==
    ASSUME NEW cases, NEW c, NEW row, row.field # c.field, NEW m, SoundField(cases, row, m)
    PROVE  SoundField(cases \ {c}, row, m)
<1> DEFINE less == cases \ {c}
<1>1. \A d \in cases : row.field = d.field => d \in less
  OBVIOUS
<1>2. less \subseteq cases
  OBVIOUS
<1> HIDE DEF less
<1>3. IsUnknown(cases, m.unknownFields) => IsUnknown(less, m.unknownFields)
  BY <1>2, UnknownStays
<1>4. SoundField(less, row, m)
  BY <1>1, <1>3 DEF SoundField
<1> QED BY <1>4 DEF less

\* A message whose unknown fields are u and whose fields are those of m.
Seen(p, at, u, fields, m) ==
    [g \in DOMAIN p |-> IF g = at THEN u ELSE IF g \in fields THEN m[g] ELSE p[g]]

\* More of them are seen, step by step.
LEMMA SeenFact ==
    ASSUME NEW p, p = [g \in DOMAIN p |-> p[g]], NEW at \in DOMAIN p, NEW u, NEW fields, NEW m
    PROVE  LET q == Seen(p, at, u, fields, m)
           IN  /\ q = [g \in DOMAIN q |-> q[g]] /\ DOMAIN q = DOMAIN p /\ q[at] = u
               /\ \A g \in DOMAIN p : g # at /\ g \notin fields => q[g] = p[g]
               /\ \A v, more : Seen(q, at, v, more, m) = Seen(p, at, v, fields \cup more, m)
               /\ p[at] = u /\ fields = {} => q = p
               /\ fields = {} => q = With(p, at, u)
               /\ \A f \in DOMAIN p : f # at /\ p[at] = u /\ fields = {f} => q = With(p, f, m[f])
<1> DEFINE q == Seen(p, at, u, fields, m)
<1>1. /\ DOMAIN q = DOMAIN p
      /\ \A g \in DOMAIN p : q[g] = IF g = at THEN u ELSE IF g \in fields THEN m[g] ELSE p[g]
      /\ q = [g \in DOMAIN p |-> q[g]]
  BY DEF Seen
<1>2. ASSUME NEW v, NEW more PROVE Seen(q, at, v, more, m) = Seen(p, at, v, fields \cup more, m)
  <2>1. Seen(q, at, v, more, m) =
            [g \in DOMAIN p |-> IF g = at THEN v ELSE IF g \in more THEN m[g] ELSE q[g]]
    BY <1>1 DEF Seen
  <2>2. Seen(p, at, v, fields \cup more, m) =
            [g \in DOMAIN p |-> IF g = at THEN v ELSE IF g \in fields \cup more THEN m[g] ELSE p[g]]
    BY DEF Seen
  <2> HIDE DEF q
  <2> QED BY <1>1, <2>1, <2>2
<1>3. p[at] = u /\ fields = {} => q = p
  BY DEF Seen
<1>4. fields = {} => q = With(p, at, u)
  BY DEF Seen, With
<1>5. ASSUME NEW f \in DOMAIN p, f # at, p[at] = u, fields = {f} PROVE q = With(p, f, m[f])
  <2>1. With(p, f, m[f]) = [g \in DOMAIN p |-> IF g = f THEN m[f] ELSE p[g]]
    BY WithFact
  <2> HIDE DEF q
  <2>2. \A g \in DOMAIN p : q[g] = IF g = f THEN m[f] ELSE p[g]
    BY <1>1, <1>5
  <2> QED BY <1>1, <2>1, <2>2
<1> HIDE DEF q
<1>6. /\ q = [g \in DOMAIN q |-> q[g]] /\ DOMAIN q = DOMAIN p /\ q[at] = u
      /\ \A g \in DOMAIN p : g # at /\ g \notin fields => q[g] = p[g]
  BY <1>1
<1> QED BY <1>2, <1>3, <1>4, <1>5, <1>6 DEF q

\* The fields that the first k of some chunks set.
Upto(sets, k) == UNION {sets[i] : i \in 1..k}

\* A message is read chunk by chunk.
LEMMA ReadBy ==
    ASSUME NEW cases, NEW at \in Fields(cases), NEW m, NEW p, Blank(p, cases),
           NEW n \in Nat, NEW chunks, DOMAIN chunks = 1..n, chunks = [k \in 1..n |-> chunks[k]],
           NEW u, p[at] = u[0],
           NEW sets, \A k \in 1..n : \A g \in sets[k] : g \in Fields(cases) /\ g # at /\ p[g] = <<>>,
           \A j, k \in 1..n : j # k => sets[j] \cap sets[k] = {},
           \A k \in 1..n : \A q :
                /\ Blank(q, cases) /\ q[at] = u[k - 1]
                /\ \A g \in sets[k] : q[g] = <<>>
                => Carries(cases, q, chunks[k], Seen(q, at, u[k], sets[k], m))
    PROVE  Carries(cases, p, FlattenSeq(chunks), Seen(p, at, u[n], Upto(sets, n), m))
<1> DEFINE msgs == [k \in 0..n |-> Seen(p, at, u[k], Upto(sets, k), m)]
<1>1. p = [g \in DOMAIN p |-> p[g]] /\ DOMAIN p = Fields(cases) /\ at \in DOMAIN p
  BY DEF Blank
<1>2. ASSUME NEW k \in 1..n PROVE Carries(cases, msgs[k - 1], chunks[k], msgs[k])
  <2> DEFINE q == Seen(p, at, u[k - 1], Upto(sets, k - 1), m)
  <2>1. msgs[k - 1] = q /\ msgs[k] = Seen(p, at, u[k], Upto(sets, k), m)
    <3>1. k \in 0..n /\ k - 1 \in 0..n
      OBVIOUS
    <3> QED BY <3>1
  <2>2. Upto(sets, k) = Upto(sets, k - 1) \cup sets[k]
    <3>1. \A i : i \in 1..k <=> i \in 1..(k - 1) \/ i = k
      OBVIOUS
    <3> QED BY <3>1 DEF Upto
  <2>3. Blank(q, cases) /\ q[at] = u[k - 1] /\ Seen(q, at, u[k], sets[k], m) = msgs[k]
    BY <1>1, <2>1, <2>2, SeenFact DEF Blank
  <2>4. ASSUME NEW g \in sets[k] PROVE q[g] = <<>>
    <3>1. g \in DOMAIN p /\ g # at /\ p[g] = <<>>
      BY <1>1
    <3>2. g \notin Upto(sets, k - 1)
      <4>1. \A i \in 1..(k - 1) : i \in 1..n /\ i # k
        OBVIOUS
      <4> QED BY <4>1 DEF Upto
    <3> QED BY <1>1, <3>1, <3>2, SeenFact
  <2> HIDE DEF q
  <2>5. Carries(cases, q, chunks[k], Seen(q, at, u[k], sets[k], m))
    BY <2>3, <2>4
  <2> HIDE DEF msgs
  <2> QED BY <2>1, <2>3, <2>5
<1>3. msgs[0] = p /\ msgs[n] = Seen(p, at, u[n], Upto(sets, n), m)
  <2>1. Upto(sets, 0) = {}
    BY DEF Upto
  <2>2. 0 \in 0..n /\ n \in 0..n
    OBVIOUS
  <2>3. msgs[0] = Seen(p, at, u[0], {}, m)
    BY <2>1, <2>2
  <2> QED BY <1>1, <2>2, <2>3, SeenFact
<1> HIDE DEF msgs
<1>4. Carries(cases, msgs[0], FlattenSeq(chunks), msgs[n])
  BY <1>2, CarriesAll
<1> QED BY <1>3, <1>4

\* The rows in the order in which they are in the bytes.
Turned(rows) == [k \in 1..Len(rows) |-> rows[Len(rows) + 1 - k]]

\* What is written of them, in that order.
Writing(rows, m) == [k \in 1..Len(rows) |-> Written(Turned(rows)[k], m)]

\* Each row is there once, and the bytes are their chunks.
LEMMA TurnedFact ==
    ASSUME NEW cases, NEW rows, Rows(rows, cases)
    PROVE  LET N == Len(rows)
               t == Turned(rows)
           IN  /\ N \in Nat
               /\ \A k \in 1..N : \E i \in 1..N : t[k] = rows[i]
               /\ \A j, k \in 1..N : t[j].field = t[k].field => j = k
               /\ \A k \in 1..N : t[k].field \in Fields(cases)
               /\ \A g \in Fields(cases) : \E k \in 1..N : t[k].field = g
               /\ \A m : Encoded(rows, m) = FlattenSeq(Writing(rows, m))
<1> DEFINE N == Len(rows)
           t == Turned(rows)
<1>1. /\ N \in Nat /\ \A i, j \in 1..N : rows[i].field = rows[j].field => i = j
      /\ {rows[i].field : i \in 1..N} = Fields(cases)
  BY DEF Rows
<1>2. \A k \in 1..N : t[k] = rows[N + 1 - k]
  BY DEF Turned
<1>3. ASSUME NEW m PROVE Encoded(rows, m) = FlattenSeq(Writing(rows, m))
  BY DEF Encoded, Writing, Turned
<1> HIDE DEF N, t
<1>4. \A k \in 1..N : N + 1 - k \in 1..N /\ N + 1 - (N + 1 - k) = k
  BY <1>1
<1>5. \A k \in 1..N : \E i \in 1..N : t[k] = rows[i]
  BY <1>2, <1>4
<1>6. ASSUME NEW j \in 1..N, NEW k \in 1..N, t[j].field = t[k].field PROVE j = k
  <2>1. N + 1 - j = N + 1 - k
    BY <1>1, <1>2, <1>4, <1>6
  <2> QED BY <1>1, <2>1
<1>7. \A k \in 1..N : t[k].field \in Fields(cases)
  BY <1>1, <1>5
<1>8. ASSUME NEW g \in Fields(cases) PROVE \E k \in 1..N : t[k].field = g
  <2>1. PICK i \in 1..N : rows[i].field = g
    BY <1>1
  <2>2. t[N + 1 - i] = rows[i]
    BY <1>2, <1>4
  <2> QED BY <1>4, <2>1, <2>2
<1> QED BY <1>1, <1>3, <1>5, <1>6, <1>7, <1>8 DEF N, t

\* A message that loses field f to a program with fewer cases: what it writes of
\* that field is unknown there.
Loses(cases, less, f, at, rows, m) ==
    /\ Fewer(cases, less, f) /\ f # at /\ at = "unknownFields"
    /\ \A d, e \in cases : d.at = e.at => d = e
    /\ Rows(rows, cases)
    /\ m = [g \in Fields(cases) |-> m[g]]
    /\ \A i \in 1..Len(rows) :
        /\ SoundField(cases, rows[i], m)
        /\ rows[i].field = at => rows[i].kind = "Unknown"
        /\ rows[i].field = f => IsUnknown(less, Written(rows[i], m))
        /\ rows[i].field # f => SoundField(less, rows[i], m)

\* What it keeps,
Kept(rows, f, at, m) ==
    [k \in 1..Len(rows) |-> IF Turned(rows)[k].field \in {f, at} THEN Written(Turned(rows)[k], m) ELSE <<>>]

\* and what it makes of the message.
Old(less, f, at, rows, m) ==
    [g \in Fields(less) |->
        IF g = at THEN FlattenSeq(Kept(rows, f, at, m)) ELSE IF g = f THEN <<>> ELSE m[g]]

\* Its rows, one by one.
LEMMA LosesRow ==
    ASSUME NEW cases, NEW less, NEW f, NEW at, NEW rows, NEW m, Loses(cases, less, f, at, rows, m),
           NEW k \in 1..Len(rows)
    PROVE  LET row == Turned(rows)[k]
           IN  /\ SoundField(cases, row, m) /\ Written(row, m) \in Octets
               /\ row.field \in Fields(cases)
               /\ row.field = at => row.kind = "Unknown" /\ Written(row, m) = m[at]
               /\ row.field # f => SoundField(less, row, m) /\ row.field \in Fields(less)
               /\ row.field # at => row.kind # "Unknown"
<1> DEFINE row == Turned(rows)[k]
<1>1. PICK i \in 1..Len(rows) : row = rows[i]
  BY TurnedFact DEF Loses
<1>2. row.field \in Fields(cases)
  BY TurnedFact DEF Loses
<1> HIDE DEF row
<1>3. /\ SoundField(cases, row, m) /\ (row.field = at => row.kind = "Unknown")
      /\ at = "unknownFields"
      /\ \A d, e \in cases : d.at = e.at => d = e
  BY <1>1 DEF Loses
<1>4. Written(row, m) \in Octets
  BY <1>2, <1>3, WrittenOctets
<1>5. ASSUME row.kind = "Unknown" PROVE row.field = at /\ Written(row, m) = m[at]
  <2>1. \A d \in cases : ~ Sound(row, d, m[row.field])
    BY <1>5, Kinds DEF Sound
  <2>2. row.field = at
    BY <1>3, <1>5, <2>1 DEF SoundField
  <2>3. Written(row, m) = m[at]
    BY <1>3, <1>5 DEF Written
  <2> QED BY <2>2, <2>3
<1>6. row.field # f => SoundField(less, row, m) /\ row.field \in Fields(less)
  BY <1>1, <1>2 DEF Loses, Fewer
<1> QED BY <1>2, <1>3, <1>4, <1>5, <1>6 DEF row

\* What is written of the field, and of those unknown before, is unknown to it.
LEMMA LosesUnknown ==
    ASSUME NEW cases, NEW less, NEW f, NEW at, NEW rows, NEW m, Loses(cases, less, f, at, rows, m),
           NEW k \in 1..Len(rows), Turned(rows)[k].field \in {f, at}
    PROVE  IsUnknown(less, Written(Turned(rows)[k], m))
<1> DEFINE row == Turned(rows)[k]
<1>1. PICK i \in 1..Len(rows) : row = rows[i]
  BY TurnedFact DEF Loses
<1>2. row.field \in {f, at}
  OBVIOUS
<1> HIDE DEF row
<1>3. CASE row.field = f
  <2>1. rows[i].field = f => IsUnknown(less, Written(rows[i], m))
    BY DEF Loses
  <2> QED BY <1>1, <1>3, <2>1, Zenon DEF row
<1>4. CASE row.field = at
  <2>1. SoundField(cases, row, m) /\ row.kind = "Unknown" /\ at = "unknownFields"
    BY <1>1, <1>4 DEF Loses
  <2>2. \A d \in cases : ~ Sound(row, d, m[row.field])
    BY <2>1, Kinds DEF Sound
  <2>3. IsUnknown(cases, m.unknownFields)
    BY <2>1, <2>2 DEF SoundField
  <2>4. Written(row, m) = m.unknownFields
    BY <2>1 DEF Written
  <2>5. less \subseteq cases
    BY DEF Loses, Fewer
  <2>6. IsUnknown(less, m.unknownFields)
    BY <2>3, <2>5, UnknownStays
  <2> QED BY <2>4, <2>6, Zenon DEF row
<1> QED BY <1>2, <1>3, <1>4

\* What is kept, chunk by chunk.
LEMMA KeptFact ==
    ASSUME NEW cases, NEW less, NEW f, NEW at, NEW rows, NEW m, Loses(cases, less, f, at, rows, m)
    PROVE  LET N == Len(rows)
               t == Turned(rows)
               kept == Kept(rows, f, at, m)
           IN  /\ kept \in [1..N -> Octets] /\ DOMAIN kept = 1..N /\ kept = [k \in 1..N |-> kept[k]]
               /\ FlattenSeq(kept) \in Octets
               /\ \A k \in 1..N : IF t[k].field \in {f, at} THEN kept[k] = Written(t[k], m)
                                                                  ELSE kept[k] = <<>>
<1> DEFINE N == Len(rows)
           t == Turned(rows)
           kept == Kept(rows, f, at, m)
<1>0. Loses(cases, less, f, at, rows, m)
  OBVIOUS
<1>1. N \in Nat
  BY DEF Loses, Rows
<1>2. /\ DOMAIN kept = 1..N /\ kept = [k \in 1..N |-> kept[k]]
      /\ \A k \in 1..N : IF t[k].field \in {f, at} THEN kept[k] = Written(t[k], m)
                                                         ELSE kept[k] = <<>>
  BY DEF Kept
<1>3. <<>> \in Octets
  BY DEF Octets
<1> HIDE DEF kept, N, t
<1>4. ASSUME NEW k \in 1..N PROVE kept[k] \in Octets
  <2>1. Written(t[k], m) \in Octets
    <3>1. k \in 1..Len(rows)
      BY DEF N
    <3> QED BY <1>0, <3>1, LosesRow DEF t
  <2> QED BY <1>2, <1>3, <2>1
<1>5. kept \in [1..N -> Octets]
  BY <1>2, <1>4
<1>6. FlattenSeq(kept) \in Octets
  <2>1. N \in 0..N
    BY <1>1
  <2>2. FlattenSeq(Leading(kept, N)) = FlattenSeq(kept) /\ FlattenSeq(Leading(kept, N)) \in Seq(Byte)
    BY <1>1, <1>5, <2>1, LeadingFact
  <2> QED BY <2>2 DEF Octets
<1> QED BY <1>2, <1>4, <1>5, <1>6 DEF kept, N, t

\* It is all unknown.
LEMMA KeptUnknown ==
    ASSUME NEW cases, NEW less, NEW f, NEW at, NEW rows, NEW m, Loses(cases, less, f, at, rows, m),
           NEW k \in 1..Len(rows), Turned(rows)[k].field \in {f, at}
    PROVE  IsUnknown(less, Kept(rows, f, at, m)[k])
<1>1. Kept(rows, f, at, m)[k] = Written(Turned(rows)[k], m)
  BY DEF Kept
<1>2. IsUnknown(less, Written(Turned(rows)[k], m))
  BY LosesUnknown
<1> QED BY <1>1, <1>2, Zenon

\* A program without the case keeps what is written of the field, among its
\* unknown fields.
LEMMA OldRead ==
    ASSUME NEW cases, NEW less, NEW f, NEW at, NEW rows, NEW m, Loses(cases, less, f, at, rows, m)
    PROVE  Carries(less, New(less), Encoded(rows, m), Old(less, f, at, rows, m))
<1> DEFINE N == Len(rows)
           t == Turned(rows)
           kept == Kept(rows, f, at, m)
           chunks == Writing(rows, m)
           u == [k \in 0..N |-> FlattenSeq(Leading(kept, k))]
           sets == [k \in 1..N |-> IF t[k].field \in {f, at} THEN {} ELSE {t[k].field}]
           blank == New(less)
<1>0. Loses(cases, less, f, at, rows, m)
  OBVIOUS
<1>1. /\ f \in Fields(cases) /\ f # at /\ at = "unknownFields"
      /\ \A d, e \in less : d.at = e.at => d = e
  BY DEF Loses, Fewer
<1>l. less \subseteq cases
  BY DEF Loses, Fewer
<1>2. /\ N \in Nat
      /\ \A j, k \in 1..N : t[j].field = t[k].field => j = k
      /\ \A g \in Fields(cases) : \E k \in 1..N : t[k].field = g
      /\ Encoded(rows, m) = FlattenSeq(chunks)
  BY <1>0, TurnedFact DEF Loses
<1>3. at \in Fields(less) /\ Blank(blank, less) /\ \A g \in Fields(less) : blank[g] = <<>>
  BY <1>1 DEF Fields, Blank, New
<1>4. /\ kept \in [1..N -> Octets]
      /\ \A k \in 1..N : IF t[k].field \in {f, at} THEN kept[k] = Written(t[k], m) ELSE kept[k] = <<>>
  <2>1. kept \in [1..N -> Octets]
    BY <1>0, KeptFact
  <2>2. \A k \in 1..N : IF t[k].field \in {f, at} THEN kept[k] = Written(t[k], m) ELSE kept[k] = <<>>
    BY DEF Kept
  <2> QED BY <2>1, <2>2
<1>k. ASSUME NEW k \in 1..N, t[k].field \in {f, at} PROVE IsUnknown(less, kept[k])
  BY <1>0, <1>k, KeptUnknown
<1>5. DOMAIN chunks = 1..N /\ chunks = [k \in 1..N |-> chunks[k]]
      /\ \A k \in 1..N : chunks[k] = Written(t[k], m)
  BY DEF Writing
<1>6. /\ \A k \in 1..N : sets[k] = IF t[k].field \in {f, at} THEN {} ELSE {t[k].field}
  OBVIOUS
<1>7. /\ u[0] = <<>> /\ u[N] = FlattenSeq(kept)
      /\ \A k \in 0..N : u[k] \in Seq(Byte)
      /\ \A k \in 1..N : u[k] = u[k - 1] \o kept[k]
  <2> HIDE DEF kept, N
  <2>1. /\ FlattenSeq(Leading(kept, 0)) = <<>>
        /\ FlattenSeq(Leading(kept, N)) = FlattenSeq(kept)
        /\ \A k \in 0..N : FlattenSeq(Leading(kept, k)) \in Seq(Byte)
        /\ \A k \in 1..N : FlattenSeq(Leading(kept, k)) = FlattenSeq(Leading(kept, k - 1)) \o kept[k]
    <3>1. N \in Nat /\ kept \in [1..N -> Octets]
      BY <1>2, <1>4
    <3> QED BY ONLY <3>1, LeadingFact
  <2>2. 0 \in 0..N /\ N \in 0..N /\ \A k \in 1..N : k \in 0..N /\ k - 1 \in 0..N
    BY <1>2
  <2> QED BY <2>1, <2>2
<1>8. \A k \in 1..N : /\ SoundField(cases, t[k], m)
                      /\ t[k].field # f => SoundField(less, t[k], m) /\ t[k].field \in Fields(less)
  BY <1>0, LosesRow
<1> HIDE DEF kept, u, sets, chunks, t, N, blank
<1>9. ASSUME NEW k \in 1..N, NEW q, Blank(q, less), q[at] = u[k - 1], \A g \in sets[k] : q[g] = <<>>
      PROVE  Carries(less, q, chunks[k], Seen(q, at, u[k], sets[k], m))
  <2>1. q = [g \in DOMAIN q |-> q[g]] /\ DOMAIN q = Fields(less) /\ at \in DOMAIN q
    BY <1>3, <1>9 DEF Blank
  <2>2. k - 1 \in 0..N /\ u[k - 1] \in Seq(Byte)
    <3>1. k - 1 \in 0..N
      BY <1>2
    <3> QED BY <1>7, <3>1
  <2>3. CASE t[k].field \in {f, at}
    <3>1. sets[k] = {} /\ chunks[k] = kept[k]
      BY <1>4, <1>5, <1>6, <2>3
    <3>k. IsUnknown(less, kept[k])
      BY <1>k, <2>3
    <3>2. Carries(less, q, kept[k], With(q, at, q[at] \o kept[k]))
      <4>1. q[at] \in Octets
        BY <1>9, <2>2 DEF Octets
      <4> QED BY <1>1, <2>1, <3>k, <4>1, UnknownAdds
    <3>3. Seen(q, at, u[k], {}, m) = With(q, at, u[k])
      BY <2>1, SeenFact
    <3>4. q[at] \o kept[k] = u[k]
      BY <1>7, <1>9
    <3> QED BY <3>1, <3>2, <3>3, <3>4
  <2>4. CASE t[k].field \notin {f, at}
    <3> DEFINE row == t[k]
    <3>1. /\ sets[k] = {row.field} /\ chunks[k] = Written(row, m) /\ kept[k] = <<>>
          /\ row.field \in Fields(less) /\ SoundField(less, row, m) /\ row.field # at
      BY <1>4, <1>5, <1>6, <1>8, <2>4
    <3>2. q[row.field] = <<>>
      BY <1>9, <3>1
    <3> HIDE DEF row
    <3>3. Carries(less, q, Written(row, m), With(q, row.field, m[row.field]))
      BY <1>1, <1>9, <3>1, <3>2, FieldCarries
    <3>4. u[k] = q[at]
      <4>1. u[k] = u[k - 1] \o <<>>
        BY <1>7, <3>1
      <4>2. u[k - 1] \o <<>> = u[k - 1]
        BY <2>2
      <4> QED BY <1>9, <4>1, <4>2
    <3>5. Seen(q, at, u[k], sets[k], m) = With(q, row.field, m[row.field])
      BY <2>1, <3>1, <3>4, SeenFact
    <3> QED BY <3>1, <3>3, <3>5
  <2> QED BY <2>3, <2>4
<1>10. \A k \in 1..N : \A q :
            /\ Blank(q, less) /\ q[at] = u[k - 1]
            /\ \A g \in sets[k] : q[g] = <<>>
            => Carries(less, q, chunks[k], Seen(q, at, u[k], sets[k], m))
  BY <1>9
<1>11. \A k \in 1..N : \A g \in sets[k] : g \in Fields(less) /\ g # at /\ blank[g] = <<>>
  <2> TAKE k \in 1..N
  <2> TAKE g \in sets[k]
  <2>1. sets[k] = IF t[k].field \in {f, at} THEN {} ELSE {t[k].field}
    BY <1>6
  <2>2. g = t[k].field /\ g \notin {f, at}
    BY <2>1
  <2>3. g \in Fields(less)
    BY <1>8, <2>2
  <2> QED BY <1>3, <2>2, <2>3
<1>12. ASSUME NEW j \in 1..N, NEW k \in 1..N, j # k PROVE sets[j] \cap sets[k] = {}
  <2>1. t[j].field # t[k].field
    BY <1>2, <1>12
  <2>2. (sets[j] = {} \/ sets[j] = {t[j].field}) /\ (sets[k] = {} \/ sets[k] = {t[k].field})
    BY <1>6
  <2> QED BY <2>1, <2>2
<1>13. blank[at] = u[0]
  BY <1>3, <1>7
<1>14. Carries(less, blank, FlattenSeq(chunks), Seen(blank, at, u[N], Upto(sets, N), m))
  BY ONLY <1>2, <1>3, <1>5, <1>10, <1>11, <1>12, <1>13, ReadBy, ZenonT(60)
<1>15. Seen(blank, at, u[N], Upto(sets, N), m) = Old(less, f, at, rows, m)
  <2>1. ASSUME NEW g \in Fields(less), g # at, g # f PROVE g \in Upto(sets, N)
    <3>1. g \in Fields(cases)
      BY <1>l, <2>1 DEF Fields
    <3>2. PICK k \in 1..N : t[k].field = g
      BY <1>2, <3>1
    <3>3. g \in sets[k]
      BY <1>6, <2>1, <3>2
    <3> QED BY <3>2, <3>3 DEF Upto
  <2>2. f \notin Upto(sets, N)
    <3>1. ASSUME NEW k \in 1..N PROVE f \notin sets[k]
      BY <1>6
    <3> QED BY <3>1 DEF Upto
  <2>3. DOMAIN blank = Fields(less)
    BY <1>3 DEF Blank
  <2>4. Old(less, f, at, rows, m) =
            [g \in Fields(less) |-> IF g = at THEN u[N] ELSE IF g = f THEN <<>> ELSE m[g]]
    BY <1>7 DEF Old, kept
  <2>5. Seen(blank, at, u[N], Upto(sets, N), m) =
            [g \in Fields(less) |-> IF g = at THEN u[N] ELSE IF g \in Upto(sets, N) THEN m[g] ELSE blank[g]]
    BY <2>3 DEF Seen
  <2> QED BY <1>3, <2>1, <2>2, <2>4, <2>5
<1> QED BY <1>2, <1>14, <1>15 DEF blank

\* What it has kept is read as the field, by a program that has the case.
LEMMA KeptRead ==
    ASSUME NEW cases, NEW less, NEW f, NEW at, NEW rows, NEW m, Loses(cases, less, f, at, rows, m),
           NEW p, Blank(p, cases), p[at] = <<>>, p[f] = <<>>
    PROVE  Carries(cases, p, FlattenSeq(Kept(rows, f, at, m)), Seen(p, at, m[at], {f}, m))
<1> DEFINE N == Len(rows)
           t == Turned(rows)
           kept == Kept(rows, f, at, m)
           u == [k \in 0..N |-> IF \E i \in 1..k : t[i].field = at THEN m[at] ELSE <<>>]
           sets == [k \in 1..N |-> IF t[k].field = f THEN {f} ELSE {}]
<1>0. Loses(cases, less, f, at, rows, m) /\ Blank(p, cases) /\ p[at] = <<>> /\ p[f] = <<>>
  OBVIOUS
<1>1. /\ f \in Fields(cases) /\ f # at /\ at = "unknownFields"
      /\ \A d, e \in cases : d.at = e.at => d = e
  BY DEF Loses, Fewer
<1>2. /\ N \in Nat
      /\ \A j, k \in 1..N : t[j].field = t[k].field => j = k
      /\ \A g \in Fields(cases) : \E k \in 1..N : t[k].field = g
  BY <1>0, TurnedFact DEF Loses
<1>3. at \in Fields(cases) /\ f \in Fields(cases)
  BY <1>1 DEF Fields
<1>4. DOMAIN kept = 1..N /\ kept = [k \in 1..N |-> kept[k]]
      /\ \A k \in 1..N : kept[k] = IF t[k].field \in {f, at} THEN Written(t[k], m) ELSE <<>>
  BY DEF Kept
<1>5. \A k \in 1..N : sets[k] = IF t[k].field = f THEN {f} ELSE {}
  OBVIOUS
<1>6. \A k \in 0..N : u[k] = IF \E i \in 1..k : t[i].field = at THEN m[at] ELSE <<>>
  OBVIOUS
<1>7. ASSUME NEW k \in 1..N PROVE SoundField(cases, t[k], m) /\ t[k].field \in Fields(cases)
  BY <1>0, LosesRow
<1> HIDE DEF kept, u, sets, t, N
<1>8. u[0] = <<>> /\ u[N] = m[at]
  <2>1. 0 \in 0..N /\ N \in 0..N /\ \A i \in 1..0 : FALSE
    BY <1>2
  <2>2. \E i \in 1..N : t[i].field = at
    BY <1>2, <1>3
  <2> QED BY <1>6, <2>1, <2>2
<1>9. ASSUME NEW k \in 1..N
      PROVE  IF t[k].field = at THEN u[k - 1] = <<>> /\ u[k] = m[at] ELSE u[k] = u[k - 1]
  <2>1. k \in 0..N /\ k - 1 \in 0..N /\ k \in 1..k /\ k \notin 1..(k - 1)
    BY <1>2
  <2>2. \A i : i \in 1..k <=> i \in 1..(k - 1) \/ i = k
    BY <1>2
  <2>3. \A i \in 1..(k - 1) : i \in 1..N
    BY <1>2
  <2>4. u[k] = IF \E i \in 1..k : t[i].field = at THEN m[at] ELSE <<>>
    BY <1>6, <2>1
  <2>5. u[k - 1] = IF \E i \in 1..(k - 1) : t[i].field = at THEN m[at] ELSE <<>>
    BY <1>6, <2>1
  <2>6. CASE t[k].field = at
    <3>1. ~ \E i \in 1..(k - 1) : t[i].field = at
      BY <1>2, <2>1, <2>3, <2>6
    <3> QED BY <2>1, <2>4, <2>5, <2>6, <3>1
  <2>7. CASE t[k].field # at
    <3>1. (\E i \in 1..k : t[i].field = at) <=> (\E i \in 1..(k - 1) : t[i].field = at)
      BY <2>2, <2>7
    <3> QED BY <2>4, <2>5, <2>7, <3>1
  <2> QED BY <2>6, <2>7
<1>10. ASSUME NEW k \in 1..N, NEW q, Blank(q, cases), q[at] = u[k - 1], \A g \in sets[k] : q[g] = <<>>
      PROVE  Carries(cases, q, kept[k], Seen(q, at, u[k], sets[k], m))
  <2> DEFINE row == t[k]
  <2>1. q = [g \in DOMAIN q |-> q[g]] /\ DOMAIN q = Fields(cases) /\ at \in DOMAIN q /\ f \in DOMAIN q
    BY <1>3, <1>10 DEF Blank
  <2>2. SoundField(cases, row, m) /\ row.field \in Fields(cases)
    BY <1>7
  <2>3. /\ kept[k] = IF row.field \in {f, at} THEN Written(row, m) ELSE <<>>
        /\ sets[k] = IF row.field = f THEN {f} ELSE {}
        /\ IF row.field = at THEN u[k - 1] = <<>> /\ u[k] = m[at] ELSE u[k] = u[k - 1]
    BY <1>4, <1>5, <1>9
  <2> HIDE DEF row
  <2>4. ASSUME q[row.field] = <<>>
        PROVE  Carries(cases, q, Written(row, m), With(q, row.field, m[row.field]))
    BY <1>1, <1>10, <2>2, <2>4, FieldCarries
  <2>5. CASE row.field = at
    <3>1. sets[k] = {} /\ kept[k] = Written(row, m) /\ q[at] = <<>> /\ u[k] = m[at]
      BY <1>1, <1>10, <2>3, <2>5
    <3>2. Seen(q, at, m[at], {}, m) = With(q, at, m[at])
      BY <2>1, SeenFact
    <3> QED BY <2>4, <2>5, <3>1, <3>2
  <2>6. CASE row.field = f
    <3>1. sets[k] = {f} /\ kept[k] = Written(row, m) /\ q[f] = <<>> /\ u[k] = q[at]
      BY <1>1, <1>10, <2>3, <2>6
    <3>2. Seen(q, at, q[at], {f}, m) = With(q, f, m[f])
      BY <1>1, <2>1, SeenFact
    <3> QED BY <2>4, <2>6, <3>1, <3>2
  <2>7. CASE row.field \notin {f, at}
    <3>1. sets[k] = {} /\ kept[k] = <<>> /\ u[k] = q[at]
      BY <1>10, <2>3, <2>7
    <3>2. Seen(q, at, q[at], {}, m) = q
      BY <2>1, SeenFact
    <3> QED BY <3>1, <3>2, CarriesNothing
  <2> QED BY <2>5, <2>6, <2>7
<1>11. \A k \in 1..N : \A q :
            /\ Blank(q, cases) /\ q[at] = u[k - 1]
            /\ \A g \in sets[k] : q[g] = <<>>
            => Carries(cases, q, kept[k], Seen(q, at, u[k], sets[k], m))
  BY <1>10
<1>12. \A k \in 1..N : \A g \in sets[k] : g \in Fields(cases) /\ g # at /\ p[g] = <<>>
  BY <1>0, <1>1, <1>3, <1>5
<1>13. ASSUME NEW j \in 1..N, NEW k \in 1..N, j # k PROVE sets[j] \cap sets[k] = {}
  <2>1. t[j].field # t[k].field
    BY <1>2, <1>13
  <2> QED BY <1>5, <2>1
<1>14. p[at] = u[0]
  BY <1>0, <1>8
<1>15. Carries(cases, p, FlattenSeq(kept), Seen(p, at, u[N], Upto(sets, N), m))
  BY ONLY <1>0, <1>2, <1>3, <1>4, <1>11, <1>12, <1>13, <1>14, ReadBy, ZenonT(60)
<1>16. Upto(sets, N) = {f}
  <2>1. PICK k \in 1..N : t[k].field = f
    BY <1>2, <1>3
  <2>2. \A i \in 1..N : sets[i] = {} \/ sets[i] = {f}
    BY <1>5
  <2>3. sets[k] = {f}
    BY <1>5, <2>1
  <2> QED BY <2>2, <2>3 DEF Upto
<1> QED BY <1>8, <1>15, <1>16 DEF kept

\* The message as that program has it.
LEMMA OldFact ==
    ASSUME NEW cases, NEW less, NEW f, NEW at, NEW rows, NEW m, Loses(cases, less, f, at, rows, m),
           NEW o, o = Old(less, f, at, rows, m)
    PROVE  /\ DOMAIN o = Fields(less)
           /\ o[at] = FlattenSeq(Kept(rows, f, at, m))
           /\ f \in Fields(less) => o[f] = <<>>
           /\ \A g \in Fields(less) : g # at /\ g # f => o[g] = m[g]
<1>1. at \in Fields(less) /\ f # at
  BY DEF Fields, Loses
<1> QED BY <1>1 DEF Old

\* What it writes of a field.
LEMMA OldWritten ==
    ASSUME NEW cases, NEW less, NEW f, NEW at, NEW rows, NEW m, Loses(cases, less, f, at, rows, m),
           NEW o, o = Old(less, f, at, rows, m),
           NEW i \in 1..Len(rows), rows[i].field \in Fields(less)
    PROVE  LET row == rows[i]
           IN  /\ row.field = at => row.kind = "Unknown" /\ Written(row, o) = FlattenSeq(Kept(rows, f, at, m))
               /\ row.field # at => row.kind # "Unknown"
               /\ row.field = f => Written(row, o) = <<>>
               /\ row.field # at /\ row.field # f =>
                    o[row.field] = m[row.field] /\ Written(row, o) = Written(row, m)
               /\ Written(row, o) \in Octets
<1> DEFINE row == rows[i]
           t == Turned(rows)
           kept == FlattenSeq(Kept(rows, f, at, m))
<1>0. Loses(cases, less, f, at, rows, m) /\ row.field \in Fields(less) /\ at = "unknownFields"
  BY DEF Loses
<1>1. PICK k \in 1..Len(rows) : t[k] = row
  <2>1. Rows(rows, cases)
    BY DEF Loses
  <2>2. row.field \in Fields(cases) /\ \A j \in 1..Len(rows) : rows[j].field = row.field => j = i
    BY <2>1 DEF Rows
  <2>3. PICK k \in 1..Len(rows) : t[k].field = row.field
    BY <2>1, <2>2, TurnedFact
  <2>4. \E j \in 1..Len(rows) : t[k] = rows[j]
    BY <2>1, TurnedFact
  <2> QED BY <2>2, <2>3, <2>4
<1>2. /\ Written(t[k], m) \in Octets
      /\ t[k].field = at => t[k].kind = "Unknown"
      /\ t[k].field # at => t[k].kind # "Unknown"
  BY <1>0, LosesRow
<1>s. SoundField(cases, row, m)
  BY DEF Loses
<1>d. /\ DOMAIN o = Fields(less) /\ o[at] = kept
      /\ f \in Fields(less) => o[f] = <<>>
      /\ \A g \in Fields(less) : g # at /\ g # f => o[g] = m[g]
  BY OldFact
<1>4. kept \in Octets
  BY KeptFact
<1>5. <<>> \in Octets /\ at # f
  BY DEF Octets, Loses
<1> HIDE DEF row, t, kept
<1>3. /\ row.field = f => o[row.field] = <<>>
      /\ row.field # at /\ row.field # f => o[row.field] = m[row.field]
  BY <1>0, <1>d
<1>6. CASE row.field = at
  <2>1. Written(row, o) = o.unknownFields /\ row.kind = "Unknown"
    BY <1>1, <1>2, <1>6 DEF Written
  <2> QED BY <1>0, <1>d, <1>4, <1>5, <1>6, <2>1 DEF row, kept
<1>7. CASE row.field = f
  <2>1. Written(row, o) = <<>>
    BY <1>s, <1>3, <1>7, FieldNothing
  <2> QED BY <1>1, <1>2, <1>5, <1>7, <2>1 DEF row
<1>8. CASE row.field # at /\ row.field # f
  <2>1. Written(row, o) = Written(row, m)
    BY <1>s, <1>3, <1>8, FieldOnly
  <2> QED BY <1>1, <1>2, <1>3, <1>8, <2>1 DEF row
<1> QED BY <1>6, <1>7, <1>8

\* It can be read again.
LEMMA OldSound ==
    ASSUME NEW cases, NEW less, NEW f, NEW at, NEW rows, NEW m, Loses(cases, less, f, at, rows, m),
           NEW o, o = Old(less, f, at, rows, m),
           NEW i \in 1..Len(rows), rows[i].field \in Fields(less), rows[i].field # at
    PROVE  SoundField(cases, rows[i], o)
<1> DEFINE row == rows[i]
<1>1. SoundField(cases, row, m)
  BY DEF Loses
<1>2. CASE row.field = f
  <2>1. o[row.field] = <<>>
    BY <1>2, OldFact
  <2> HIDE DEF row
  <2>2. SoundField(cases, row, o)
    BY <1>1, <2>1, FieldNothing
  <2> QED BY <2>2 DEF row
<1>3. CASE row.field # f
  <2>1. o[row.field] = m[row.field]
    BY <1>3, OldFact
  <2> HIDE DEF row
  <2>2. SoundField(cases, row, o)
    BY <1>1, <2>1, FieldOnly
  <2> QED BY <2>2 DEF row
<1> QED BY <1>2, <1>3

\* The rows of that program.
LEMMA OldRowIs ==
    ASSUME NEW cases, NEW less, NEW f, Fewer(cases, less, f), NEW rows, IsList(rows), Rows(rows, cases),
           NEW o, DOMAIN o = Fields(less)
    PROVE  /\ Len(OldRows(rows, o)) = IF f \in Fields(less) THEN Len(rows) ELSE Len(rows) - 1
           /\ \A i \in 1..Len(OldRows(rows, o)) : \E j \in 1..Len(rows) :
                OldRows(rows, o)[i] = rows[j] /\ rows[j].field \in Fields(less)
<1> DEFINE new == OldRows(rows, o)
<1>1. Rows(new, less)
  BY OldRowsFact
<1>2. \A i \in 1..Len(new) : \E j \in 1..Len(rows) : new[i] = rows[j]
  BY OldRowsFact
<1>3. Len(new) = IF f \in Fields(less) THEN Len(rows) ELSE Len(rows) - 1
  BY OldRowsFact
<1> HIDE DEF new
<1>4. ASSUME NEW i \in 1..Len(new) PROVE new[i].field \in Fields(less)
  BY <1>1 DEF Rows
<1>5. \A i \in 1..Len(new) : \E j \in 1..Len(rows) : new[i] = rows[j] /\ rows[j].field \in Fields(less)
  <2> TAKE i \in 1..Len(new)
  <2>1. PICK j \in 1..Len(rows) : new[i] = rows[j]
    BY <1>2
  <2> QED BY <1>4, <2>1
<1> QED BY <1>3, <1>5 DEF new

\* The rows that count are those for what is written.
RowsFit(rows, sizes, cases) ==
    \A i, j \in 1..Len(rows) : rows[i].field = sizes[j].field =>
        FieldFits(rows[i], sizes[j], {d \in cases : d.field = rows[i].field})

\* It writes the message without a panic.
LEMMA OldMarshal ==
    ASSUME NEW cases, NEW less, NEW f, NEW at, NEW rows, NEW m, Loses(cases, less, f, at, rows, m),
           IsList(rows), NEW sizes, IsList(sizes), Rows(sizes, cases), Len(sizes) = Len(rows),
           RowsFit(rows, sizes, cases)
    PROVE  LET o == Old(less, f, at, rows, m)
           IN  MarshalVT(OldRows(rows, o), OldRows(sizes, o), o) = <<Encoded(OldRows(rows, o), o)>>
<1> SUFFICES ASSUME NEW o, o = Old(less, f, at, rows, m)
             PROVE  MarshalVT(OldRows(rows, o), OldRows(sizes, o), o) = <<Encoded(OldRows(rows, o), o)>>
  OBVIOUS
<1> DEFINE new == OldRows(rows, o)
           count == OldRows(sizes, o)
<1>0. Fewer(cases, less, f) /\ Rows(rows, cases) /\ at = "unknownFields"
  BY DEF Loses
<1>1. DOMAIN o = Fields(less)
  BY OldFact
<1>f. \A i, j \in 1..Len(rows) : rows[i].field = sizes[j].field =>
                FieldFits(rows[i], sizes[j], {d \in cases : d.field = rows[i].field})
  BY DEF RowsFit
<1>2. /\ Len(new) = IF f \in Fields(less) THEN Len(rows) ELSE Len(rows) - 1
      /\ \A i \in 1..Len(new) : \E j \in 1..Len(rows) : new[i] = rows[j] /\ rows[j].field \in Fields(less)
  BY <1>0, <1>1, OldRowIs
<1>3. /\ Len(count) = IF f \in Fields(less) THEN Len(sizes) ELSE Len(sizes) - 1
      /\ \A i \in 1..Len(count) : \E j \in 1..Len(sizes) : count[i] = sizes[j] /\ sizes[j].field \in Fields(less)
  BY <1>0, <1>1, OldRowIs
<1>r. Rows(new, less)
  BY <1>0, <1>1, OldRowsFact
<1>s. Rows(count, less)
  BY <1>0, <1>1, OldRowsFact
<1>w. ASSUME NEW a \in 1..Len(rows), rows[a].field \in Fields(less)
      PROVE  Written(rows[a], o) \in Octets /\ (rows[a].field = at => rows[a].kind = "Unknown")
  BY <1>w, OldWritten
<1>o. ASSUME NEW a \in 1..Len(rows), rows[a].field \in Fields(less), rows[a].field # at
      PROVE  SoundField(cases, rows[a], o)
  BY <1>o, OldSound
<1> HIDE DEF new, count
<1>4. Len(count) = Len(new)
  BY <1>2, <1>3
<1>5. ASSUME NEW i \in 1..Len(new) PROVE Written(new[i], o) \in Octets
  BY <1>2, <1>w
<1>6. ASSUME NEW i \in 1..Len(new), NEW j \in 1..Len(new), new[i].field = count[j].field
      PROVE  Counted(count[j], o) = Len(Written(new[i], o))
  <2>1. PICK a \in 1..Len(rows) : new[i] = rows[a] /\ rows[a].field \in Fields(less)
    BY <1>2
  <2>2. PICK b \in 1..Len(rows) : count[j] = sizes[b]
    BY <1>3, <1>4
  <2> DEFINE row == rows[a]
             size == sizes[b]
  <2>3. row.field = at => row.kind = "Unknown"
    BY <1>w, <2>1
  <2>4. ASSUME row.field # at PROVE SoundField(cases, row, o)
    BY <1>o, <2>1, <2>4
  <2>5. size.field = row.field
    BY <1>6, <2>1, <2>2
  <2>6. FieldFits(row, size, {d \in cases : d.field = row.field})
    BY <1>f, <2>5
  <2> HIDE DEF row, size
  <2>7. Counted(size, o) = Len(Written(row, o))
    <3>1. CASE row.field = at
      <4>1. row.kind = "Unknown" /\ size.kind = "Unknown"
        BY <2>3, <2>6, <3>1 DEF FieldFits
      <4> QED BY <4>1 DEF Counted, Written
    <3>2. CASE row.field # at
      BY <2>4, <2>5, <2>6, <3>2, FieldCounted
    <3> QED BY <3>1, <3>2
  <2> QED BY <2>1, <2>2, <2>7 DEF row, size
<1>7. SizeVT(count, o) = Len(Encoded(new, o)) /\ Encoded(new, o) \in Octets
  <2>1. \A i \in 1..Len(new) : Written(new[i], o) \in Octets
    BY <1>5
  <2>2. \A i, j \in 1..Len(new) : new[i].field = count[j].field => Counted(count[j], o) = Len(Written(new[i], o))
    BY <1>6
  <2> QED BY ONLY <1>4, <1>r, <1>s, <2>1, <2>2, RowsCounted, ZenonT(60)
<1> QED BY <1>7, MarshalIs DEF new, count

\* What it has written is read as the message by a program that has all cases.
LEMMA OldReadAgain ==
    ASSUME NEW cases, NEW less, NEW f, NEW at, NEW rows, NEW m, Loses(cases, less, f, at, rows, m),
           IsList(rows), NEW o, o = Old(less, f, at, rows, m)
    PROVE  Carries(cases, New(cases), Encoded(OldRows(rows, o), o), m)
<1> DEFINE new == OldRows(rows, o)
           N == Len(new)
           t == Turned(new)
           chunks == Writing(new, o)
           blank == New(cases)
           u == [k \in 0..N |-> IF \E i \in 1..k : t[i].field = at THEN m[at] ELSE <<>>]
           sets == [k \in 1..N |-> IF t[k].field = at THEN {f}
                                   ELSE IF t[k].field = f THEN {} ELSE {t[k].field}]
<1>0. Fewer(cases, less, f) /\ Rows(rows, cases)
  BY DEF Loses
<1>1. /\ f \in Fields(cases) /\ f # at /\ at = "unknownFields"
      /\ \A g \in Fields(cases) : g # f => g \in Fields(less)
      /\ \A d, e \in cases : d.at = e.at => d = e
      /\ m = [g \in Fields(cases) |-> m[g]]
  BY DEF Loses, Fewer
<1>2. at \in Fields(cases) /\ at \in Fields(less)
  BY <1>1 DEF Fields
<1>3. DOMAIN o = Fields(less)
  BY OldFact
<1>4. Rows(new, less)
  BY <1>0, <1>3, OldRowsFact
<1>5. \A i \in 1..N : \E j \in 1..Len(rows) : new[i] = rows[j]
  BY <1>0, <1>3, OldRowIs
<1>6. DOMAIN chunks = 1..N /\ chunks = [k \in 1..N |-> chunks[k]]
      /\ \A k \in 1..N : chunks[k] = Written(t[k], o)
  BY DEF Writing
<1>7. \A k \in 1..N : sets[k] = IF t[k].field = at THEN {f}
                                ELSE IF t[k].field = f THEN {} ELSE {t[k].field}
  OBVIOUS
<1>8. \A k \in 0..N : u[k] = IF \E i \in 1..k : t[i].field = at THEN m[at] ELSE <<>>
  OBVIOUS
<1>9. Blank(blank, cases) /\ \A g \in Fields(cases) : blank[g] = <<>>
  BY DEF Blank, New
<1> HIDE DEF new
<1>10. /\ N \in Nat
       /\ \A k \in 1..N : \E i \in 1..N : t[k] = new[i]
       /\ \A j, k \in 1..N : t[j].field = t[k].field => j = k
       /\ \A k \in 1..N : t[k].field \in Fields(less)
       /\ \A g \in Fields(less) : \E k \in 1..N : t[k].field = g
       /\ Encoded(new, o) = FlattenSeq(chunks)
  BY <1>4, TurnedFact
<1> HIDE DEF chunks, u, sets, t, N, blank
<1>11. ASSUME NEW k \in 1..N
       PROVE  /\ t[k].field = at => chunks[k] = FlattenSeq(Kept(rows, f, at, m))
              /\ t[k].field = f => chunks[k] = <<>>
              /\ t[k].field # at /\ t[k].field # f => chunks[k] = Written(t[k], m)
  <2>1. PICK i \in 1..N : t[k] = new[i]
    BY <1>10
  <2>2. PICK a \in 1..Len(rows) : t[k] = rows[a]
    BY <1>5, <2>1
  <2>3. rows[a].field \in Fields(less) /\ chunks[k] = Written(rows[a], o)
    BY <1>6, <1>10, <2>2
  <2>4. /\ rows[a].field = at => Written(rows[a], o) = FlattenSeq(Kept(rows, f, at, m))
        /\ rows[a].field = f => Written(rows[a], o) = <<>>
        /\ rows[a].field # at /\ rows[a].field # f => Written(rows[a], o) = Written(rows[a], m)
    BY <2>3, OldWritten
  <2> QED BY <2>2, <2>3, <2>4
<1>12. ASSUME NEW k \in 1..N PROVE SoundField(cases, t[k], m)
  <2>1. PICK i \in 1..N : t[k] = new[i]
    BY <1>10
  <2>2. PICK a \in 1..Len(rows) : t[k] = rows[a]
    BY <1>5, <2>1
  <2>3. SoundField(cases, rows[a], m)
    BY DEF Loses
  <2> QED BY <2>2, <2>3
<1>13. u[0] = <<>> /\ u[N] = m[at]
  <2>1. 0 \in 0..N /\ N \in 0..N /\ \A i \in 1..0 : FALSE
    BY <1>10
  <2>2. \E i \in 1..N : t[i].field = at
    BY <1>2, <1>10
  <2> QED BY <1>8, <2>1, <2>2
<1>14. ASSUME NEW k \in 1..N
       PROVE  IF t[k].field = at THEN u[k - 1] = <<>> /\ u[k] = m[at] ELSE u[k] = u[k - 1]
  <2>1. k \in 0..N /\ k - 1 \in 0..N /\ k \in 1..k /\ k \notin 1..(k - 1)
    BY <1>10
  <2>2. \A i : i \in 1..k <=> i \in 1..(k - 1) \/ i = k
    BY <1>10
  <2>3. \A i \in 1..(k - 1) : i \in 1..N
    BY <1>10
  <2>4. u[k] = IF \E i \in 1..k : t[i].field = at THEN m[at] ELSE <<>>
    BY <1>8, <2>1
  <2>5. u[k - 1] = IF \E i \in 1..(k - 1) : t[i].field = at THEN m[at] ELSE <<>>
    BY <1>8, <2>1
  <2>6. CASE t[k].field = at
    <3>1. ~ \E i \in 1..(k - 1) : t[i].field = at
      BY <1>10, <2>1, <2>3, <2>6
    <3> QED BY <2>1, <2>4, <2>5, <2>6, <3>1
  <2>7. CASE t[k].field # at
    <3>1. (\E i \in 1..k : t[i].field = at) <=> (\E i \in 1..(k - 1) : t[i].field = at)
      BY <2>2, <2>7
    <3> QED BY <2>4, <2>5, <2>7, <3>1
  <2> QED BY <2>6, <2>7
<1>15. ASSUME NEW k \in 1..N, NEW q, Blank(q, cases), q[at] = u[k - 1], \A g \in sets[k] : q[g] = <<>>
       PROVE  Carries(cases, q, chunks[k], Seen(q, at, u[k], sets[k], m))
  <2> DEFINE row == t[k]
  <2>1. q = [g \in DOMAIN q |-> q[g]] /\ DOMAIN q = Fields(cases) /\ at \in DOMAIN q
    BY <1>2, <1>15 DEF Blank
  <2>2. SoundField(cases, row, m)
    BY <1>12
  <2>3. /\ row.field = at => chunks[k] = FlattenSeq(Kept(rows, f, at, m))
        /\ row.field = f => chunks[k] = <<>>
        /\ row.field # at /\ row.field # f => chunks[k] = Written(row, m)
        /\ sets[k] = IF row.field = at THEN {f} ELSE IF row.field = f THEN {} ELSE {row.field}
        /\ IF row.field = at THEN u[k - 1] = <<>> /\ u[k] = m[at] ELSE u[k] = u[k - 1]
    BY <1>7, <1>11, <1>14
  <2>4. row.field \in Fields(cases)
    <3>1. less \subseteq cases
      BY <1>0 DEF Fewer
    <3>2. row.field \in Fields(less)
      BY <1>10
    <3> QED BY <3>1, <3>2 DEF Fields
  <2> HIDE DEF row
  <2>5. CASE row.field = at
    <3>1. sets[k] = {f} /\ q[at] = <<>> /\ q[f] = <<>> /\ u[k] = m[at]
      BY <1>15, <2>3, <2>5
    <3>2. Carries(cases, q, FlattenSeq(Kept(rows, f, at, m)), Seen(q, at, m[at], {f}, m))
      BY <1>15, <3>1, KeptRead
    <3> QED BY <2>3, <2>5, <3>1, <3>2
  <2>6. CASE row.field = f
    <3>1. sets[k] = {} /\ chunks[k] = <<>> /\ u[k] = q[at]
      BY <1>1, <1>15, <2>3, <2>6
    <3>2. Seen(q, at, q[at], {}, m) = q
      BY <2>1, SeenFact
    <3> QED BY <3>1, <3>2, CarriesNothing
  <2>7. CASE row.field # at /\ row.field # f
    <3>1. sets[k] = {row.field} /\ chunks[k] = Written(row, m) /\ u[k] = q[at] /\ q[row.field] = <<>>
      BY <1>15, <2>3, <2>7
    <3>2. Seen(q, at, q[at], {row.field}, m) = With(q, row.field, m[row.field])
      BY <2>1, <2>4, <2>7, SeenFact
    <3>3. Carries(cases, q, Written(row, m), With(q, row.field, m[row.field]))
      BY <1>1, <1>15, <2>2, <2>4, <3>1, FieldCarries
    <3> QED BY <3>1, <3>2, <3>3
  <2> QED BY <2>5, <2>6, <2>7
<1>16. \A k \in 1..N : \A q :
            /\ Blank(q, cases) /\ q[at] = u[k - 1]
            /\ \A g \in sets[k] : q[g] = <<>>
            => Carries(cases, q, chunks[k], Seen(q, at, u[k], sets[k], m))
  BY <1>15
<1>17. ASSUME NEW k \in 1..N, NEW g \in sets[k] PROVE g \in Fields(cases) /\ g # at /\ blank[g] = <<>>
  <2>1. Fields(less) \subseteq Fields(cases)
    BY <1>0 DEF Fewer, Fields
  <2>2. t[k].field \in Fields(cases)
    BY <1>10, <2>1
  <2>3. g \in Fields(cases) /\ g # at
    BY <1>1, <1>7, <1>17, <2>2
  <2> QED BY <1>9, <2>3
<1>18. ASSUME NEW j \in 1..N, NEW k \in 1..N, j # k PROVE sets[j] \cap sets[k] = {}
  <2>1. t[j].field # t[k].field
    BY <1>10, <1>18
  <2>2. sets[j] = IF t[j].field = at THEN {f} ELSE IF t[j].field = f THEN {} ELSE {t[j].field}
    BY <1>7
  <2>3. sets[k] = IF t[k].field = at THEN {f} ELSE IF t[k].field = f THEN {} ELSE {t[k].field}
    BY <1>7
  <2> QED BY <2>1, <2>2, <2>3
<1>19. blank[at] = u[0]
  BY <1>2, <1>9, <1>13
<1>20. Carries(cases, blank, FlattenSeq(chunks), Seen(blank, at, u[N], Upto(sets, N), m))
  <2>1. N \in Nat
    BY <1>10
  <2> QED BY ONLY <1>2, <1>6, <1>9, <1>16, <1>17, <1>18, <1>19, <2>1, ReadBy, ZenonT(60)
<1>21. Seen(blank, at, u[N], Upto(sets, N), m) = m
  <2>1. ASSUME NEW g \in Fields(cases), g # at PROVE g \in Upto(sets, N)
    <3>1. CASE g = f
      <4>1. PICK k \in 1..N : t[k].field = at
        BY <1>2, <1>10
      <4>2. g \in sets[k]
        BY <1>7, <3>1, <4>1
      <4> QED BY <4>2 DEF Upto
    <3>2. CASE g # f
      <4>1. g \in Fields(less)
        BY <1>1, <3>2
      <4>2. PICK k \in 1..N : t[k].field = g
        BY <1>10, <4>1
      <4>3. g \in sets[k]
        BY <1>7, <2>1, <3>2, <4>2
      <4> QED BY <4>3 DEF Upto
    <3> QED BY <3>1, <3>2
  <2>2. DOMAIN blank = Fields(cases)
    BY <1>9 DEF Blank
  <2>3. Seen(blank, at, m[at], Upto(sets, N), m) =
          [g \in Fields(cases) |-> IF g = at THEN m[at] ELSE IF g \in Upto(sets, N) THEN m[g] ELSE blank[g]]
    BY <2>2 DEF Seen
  <2>4. \A g \in Fields(cases) :
            (IF g = at THEN m[at] ELSE IF g \in Upto(sets, N) THEN m[g] ELSE blank[g]) = m[g]
    BY <2>1
  <2>5. Seen(blank, at, m[at], Upto(sets, N), m) = [g \in Fields(cases) |-> m[g]]
    BY <2>3, <2>4
  <2> QED BY <1>1, <1>13, <2>5
<1> QED BY <1>10, <1>20, <1>21 DEF blank, new

\* A program without one of the cases of a type: the field is read all the same,
\* or it loses the field.
LEMMA WithoutCase ==
    ASSUME NEW type \in DOMAIN Unmarshals, NEW m, SoundMessage(type, m), NEW c \in Unmarshals[type],
           NEW at, at = "unknownFields", NEW less, less = Unmarshals[type] \ {c}
    PROVE  \/ /\ Rows(Marshals[type], less) /\ Fields(less) = Fields(Unmarshals[type])
              /\ \A i \in 1..Len(Marshals[type]) : SoundField(less, Marshals[type][i], m)
           \/ Loses(Unmarshals[type], less, c.field, at, Marshals[type], m)
<1> DEFINE cases == Unmarshals[type]
           rows == Marshals[type]
           sizes == Sizes[type]
           f == c.field
<1>1. /\ Rows(rows, cases) /\ Rows(sizes, cases) /\ Len(sizes) = Len(rows)
      /\ \A d, e \in cases : d.at = e.at => d = e
      /\ \A d \in cases : d.field # at
      /\ \A i, j \in 1..Len(rows) : rows[i].field = sizes[j].field =>
            FieldFits(rows[i], sizes[j], {d \in cases : d.field = rows[i].field})
  BY TypeFact
<1>2. m = [g \in Fields(cases) |-> m[g]] /\ \A i \in DOMAIN rows : SoundField(cases, rows[i], m)
  BY DEF SoundMessage
<1>3. c \in cases /\ less = cases \ {c}
  OBVIOUS
<1> HIDE DEF cases, rows, sizes
<1>4. Fewer(cases, less, f)
  BY <1>3 DEF Fewer, Fields
<1>5. ASSUME NEW i \in 1..Len(rows) PROVE SoundField(cases, rows[i], m) /\ rows[i].field \in Fields(cases)
  BY <1>1, <1>2 DEF Rows
<1>6. f # at
  BY <1>1, <1>3
<1>7. ASSUME NEW i \in 1..Len(rows), rows[i].field # f PROVE SoundField(less, rows[i], m)
  BY <1>3, <1>5, <1>7, OtherRow
<1>8. ASSUME NEW i \in 1..Len(rows), rows[i].field = at PROVE rows[i].kind = "Unknown"
  <2>1. PICK j \in 1..Len(rows) : sizes[j].field = rows[i].field
    BY <1>1, <1>5 DEF Rows
  <2>2. FieldFits(rows[i], sizes[j], {d \in cases : d.field = rows[i].field})
    BY <1>1, <2>1
  <2>3. {d \in cases : d.field = rows[i].field} = {}
    BY <1>1, <1>8
  <2> QED BY <2>2, <2>3 DEF FieldFits
<1>9. PICK i \in 1..Len(rows) : rows[i].field = f
  BY <1>1, <1>4 DEF Rows, Fewer
<1>10. \A j \in 1..Len(rows) : rows[j].field = f => j = i
  BY <1>1, <1>9 DEF Rows
<1>11. CASE SoundField(less, rows[i], m) /\ f \in Fields(less)
  <2>1. Fields(less) = Fields(cases)
    BY <1>4, <1>11, FewerFields
  <2>2. Rows(rows, less)
    BY <1>1, <2>1 DEF Rows
  <2>3. \A j \in 1..Len(rows) : SoundField(less, rows[j], m)
    <3> TAKE j \in 1..Len(rows)
    <3>1. CASE j = i
      BY <1>11, <3>1
    <3>2. CASE j # i
      BY <1>7, <1>10, <3>2
    <3> QED BY <3>1, <3>2
  <2> QED BY <2>1, <2>2, <2>3 DEF cases, rows
<1>12. CASE IsUnknown(less, Written(rows[i], m))
  <2>1. ASSUME NEW j \in 1..Len(rows), rows[j].field = f PROVE IsUnknown(less, Written(rows[j], m))
    BY <1>10, <1>12, <2>1
  <2>2. Loses(cases, less, f, at, rows, m)
    BY <1>1, <1>2, <1>4, <1>5, <1>6, <1>7, <1>8, <2>1 DEF Loses
  <2> QED BY <2>2 DEF cases, rows
<1>13. \/ SoundField(less, rows[i], m) /\ f \in Fields(less)
       \/ IsUnknown(less, Written(rows[i], m))
  <2> DEFINE row == rows[i]
  <2>1. row.field = c.field /\ SoundField(cases, row, m) /\ c.field # "unknownFields"
    BY <1>5, <1>6, <1>9
  <2> HIDE DEF row
  <2>2. \/ SoundField(cases \ {c}, row, m) /\ row.field \in Fields(cases \ {c})
        \/ IsUnknown(cases \ {c}, Written(row, m))
    BY <1>1, <1>3, <2>1, RowWithout
  <2> QED BY <1>3, <2>1, <2>2 DEF row
<1> QED BY <1>11, <1>12, <1>13

\* A message keeps its field on the way through that program.
LEMMA FieldKept ==
    ASSUME NEW type \in DOMAIN Unmarshals, NEW m, SoundMessage(type, m), NEW c \in Unmarshals[type],
           NEW b, b = Encoded(Marshals[type], m)
    PROVE  \E o, e : /\ UnmarshalVT(Unmarshals[type] \ {c}, b) = <<o>>
                     /\ MarshalVT(OldRows(Marshals[type], o), OldRows(Sizes[type], o), o) = <<e>>
                     /\ UnmarshalVT(Unmarshals[type], e) = <<m>>
<1> DEFINE cases == Unmarshals[type]
           rows == Marshals[type]
           sizes == Sizes[type]
           less == cases \ {c}
           f == c.field
           at == "unknownFields"
<1>1. /\ Rows(rows, cases) /\ Rows(sizes, cases) /\ Len(sizes) = Len(rows)
      /\ \A d, e \in cases : d.at = e.at => d = e
      /\ \A i, j \in 1..Len(rows) : rows[i].field = sizes[j].field =>
            FieldFits(rows[i], sizes[j], {d \in cases : d.field = rows[i].field})
  BY TypeFact
<1>2. IsList(rows) /\ IsList(sizes)
  BY TablesAssumption DEF TablesFit
<1>3. CASE Rows(rows, less) /\ Fields(less) = Fields(cases)
           /\ \A i \in 1..Len(rows) : SoundField(less, rows[i], m)
  <2>1. /\ MarshalVT(rows, sizes, m) = <<b>> /\ UnmarshalVT(cases, b) = <<m>>
    BY EncodeRead
  <2>2. m = [g \in Fields(less) |-> m[g]] /\ DOMAIN m = Fields(cases)
    BY <1>3 DEF SoundMessage
  <2>3. \A d, e \in less : d.at = e.at => d = e
    BY <1>1
  <2>4. DOMAIN rows = 1..Len(rows) /\ DOMAIN sizes = 1..Len(sizes)
    BY <1>1 DEF Rows
  <2> HIDE DEF cases, rows, sizes, less
  <2>5. UnmarshalVT(less, b) = <<m>>
    <3>1. \A i \in DOMAIN rows : SoundField(less, rows[i], m)
      BY <1>3, <2>4
    <3>2. Carries(less, New(less), Encoded(rows, m), m)
      BY <1>3, <2>2, <2>3, <3>1, RowsCarry
    <3> QED BY <3>2, UnmarshalIs DEF rows
  <2>6. OldRows(rows, m) = rows /\ OldRows(sizes, m) = sizes
    <3>1. \A i \in DOMAIN rows : rows[i].field \in DOMAIN m
      BY <1>1, <2>2, <2>4 DEF Rows
    <3>2. \A i \in DOMAIN sizes : sizes[i].field \in DOMAIN m
      BY <1>1, <2>2, <2>4 DEF Rows
    <3> QED BY <3>1, <3>2 DEF OldRows
  <2> QED BY <2>1, <2>5, <2>6 DEF cases, rows, sizes, less
<1>4. CASE Loses(cases, less, f, at, rows, m)
  <2> DEFINE o == Old(less, f, at, rows, m)
             e == Encoded(OldRows(rows, o), o)
  <2>1. b = Encoded(rows, m)
    OBVIOUS
  <2> HIDE DEF cases, rows, sizes, less, f, at, o
  <2>2. Carries(less, New(less), b, o)
    BY <1>4, <2>1, OldRead DEF o
  <2>3. UnmarshalVT(less, b) = <<o>>
    BY <2>2, UnmarshalIs
  <2>4. o = Old(less, f, at, rows, m)
    BY DEF o
  <2>5. MarshalVT(OldRows(rows, o), OldRows(sizes, o), o) = <<e>>
    <3>1. IsList(rows) /\ IsList(sizes) /\ Rows(sizes, cases) /\ Len(sizes) = Len(rows)
      BY <1>1, <1>2
    <3>2. RowsFit(rows, sizes, cases)
      BY <1>1 DEF RowsFit
    <3> HIDE DEF e
    <3>3. MarshalVT(OldRows(rows, o), OldRows(sizes, o), o) = <<Encoded(OldRows(rows, o), o)>>
      BY <1>4, <3>1, <3>2, OldMarshal DEF o
    <3> QED BY <3>3 DEF e
  <2>6. Carries(cases, New(cases), e, m)
    BY <1>2, <1>4, <2>4, OldReadAgain
  <2> HIDE DEF e
  <2>7. UnmarshalVT(cases, e) = <<m>>
    BY <2>6, UnmarshalIs
  <2> QED BY <2>3, <2>5, <2>7 DEF cases, rows, sizes, less
<1>5. \/ Rows(rows, less) /\ Fields(less) = Fields(cases)
           /\ \A i \in 1..Len(rows) : SoundField(less, rows[i], m)
      \/ Loses(cases, less, f, at, rows, m)
  <2>1. at = "unknownFields" /\ less = Unmarshals[type] \ {c}
    OBVIOUS
  <2> HIDE DEF at, less
  <2> QED BY <2>1, WithoutCase
<1> QED BY <1>3, <1>4, <1>5

-------------------------------------------------------------------------------
\* A message that goes through a program which does not know one of its fields
\* keeps that field: UnmarshalVT keeps what it has no case for among the unknown
\* fields, and MarshalVT writes these again.
THEOREM FieldSurvives == Spec => []UnknownKept
<1>1. PathInv => UnknownKept
  <2> SUFFICES ASSUME PathInv, NEW t \in Transfers, pc[t] = "decoded",
                      NEW c \in Unmarshals[msg[t].type]
               PROVE  <<msg[t].value>> =
                        Then(OldReader(msg[t], c, data[t]), LAMBDA old :
                            Then(OldEncoding(msg[t], old), LAMBDA b :
                                UnmarshalVT(Unmarshals[msg[t].type], b)))
    BY DEF UnknownKept
  <2> DEFINE g == msg[t]
             x == data[t]
  <2>1. g \in Messages /\ Encode(g) = <<x>> /\ c \in Unmarshals[g.type]
    BY DEF PathInv
  <2> HIDE DEF g, x
  <2>2. x = Encoded(Marshals[g.type], g.value)
    BY <2>1, EncodeIs
  <2>3. g.type \in DOMAIN Unmarshals /\ SoundMessage(g.type, g.value)
    <3>1. g = [type |-> g.type, value |-> g.value] /\ g.type \in DOMAIN Unmarshals
      BY <2>1, MessageAssumption
    <3> QED BY <2>1, <3>1, AllReturn
  <2>4. PICK o, e : /\ UnmarshalVT(Unmarshals[g.type] \ {c}, x) = <<o>>
                    /\ MarshalVT(OldRows(Marshals[g.type], o), OldRows(Sizes[g.type], o), o) = <<e>>
                    /\ UnmarshalVT(Unmarshals[g.type], e) = <<g.value>>
    BY <2>1, <2>2, <2>3, FieldKept
  <2>5. OldReader(g, c, x) = <<o>> /\ OldEncoding(g, o) = <<e>>
    BY <2>4 DEF OldReader, OldEncoding
  <2>6. Then(OldEncoding(g, o), LAMBDA b : UnmarshalVT(Unmarshals[g.type], b)) = <<g.value>>
    BY <2>4, <2>5 DEF Then
  <2>7. Then(OldReader(g, c, x), LAMBDA old :
            Then(OldEncoding(g, old), LAMBDA b : UnmarshalVT(Unmarshals[g.type], b))) = <<g.value>>
    BY <2>5, <2>6 DEF Then
  <2> QED BY <2>7 DEF g, x
<1> QED BY <1>1, PathInvariance, PTL
===============================================================================
