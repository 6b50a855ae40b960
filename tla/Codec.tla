--------------------------------- MODULE Codec ---------------------------------
(***************************************************************************)
(* What the generated methods MarshalVT, SizeVT and UnmarshalVT do, read   *)
(* off the tables of the messages.                                         *)
(*                                                                         *)
(* A message is a function of its fields, and every zero value is <<>>:    *)
(* true is <<1>>, and a pointer is <<>> or <<x>>; WireFormat says what     *)
(* numbers, bytes and results are.                                         *)
(*                                                                         *)
(* A method calls that of the messages within its own. The calls are       *)
(* parameters, which stand for the methods of this module.                 *)
(***************************************************************************)
EXTENDS WireFormat, SequencesExt, RegattaWire, MvccWire, ReplicationWire, MaintenanceWire

CONSTANTS
    NestedEncoded(_, _),   \* Encoded
    NestedSizeVT(_, _),    \* SizeVT
    NestedFill(_, _, _),   \* Fill
    Messages               \* messages, and all those within them, with their types

Marshals ==
    [ ResponseHeader |-> ResponseHeader_Marshal, RangeRequest |-> RangeRequest_Marshal,
      RangeResponse |-> RangeResponse_Marshal, PutRequest |-> PutRequest_Marshal,
      PutResponse |-> PutResponse_Marshal, DeleteRangeRequest |-> DeleteRangeRequest_Marshal,
      DeleteRangeResponse |-> DeleteRangeResponse_Marshal, TxnRequest |-> TxnRequest_Marshal,
      TxnResponse |-> TxnResponse_Marshal, MemberListRequest |-> MemberListRequest_Marshal,
      MemberListResponse |-> MemberListResponse_Marshal, Member |-> Member_Marshal,
      TableStatus |-> TableStatus_Marshal, StatusRequest |-> StatusRequest_Marshal,
      StatusResponse |-> StatusResponse_Marshal,
      CreateTableRequest |-> CreateTableRequest_Marshal,
      CreateTableResponse |-> CreateTableResponse_Marshal,
      DeleteTableRequest |-> DeleteTableRequest_Marshal,
      DeleteTableResponse |-> DeleteTableResponse_Marshal,
      ListTablesRequest |-> ListTablesRequest_Marshal, TableInfo |-> TableInfo_Marshal,
      ListTablesResponse |-> ListTablesResponse_Marshal, Command |-> Command_Marshal,
      CommandResult |-> CommandResult_Marshal, Txn |-> Txn_Marshal,
      RequestOp_Range |-> RequestOp_Range_Marshal, RequestOp_Put |-> RequestOp_Put_Marshal,
      RequestOp_DeleteRange |-> RequestOp_DeleteRange_Marshal, RequestOp |-> RequestOp_Marshal,
      ResponseOp_Range |-> ResponseOp_Range_Marshal, ResponseOp_Put |-> ResponseOp_Put_Marshal,
      ResponseOp_DeleteRange |-> ResponseOp_DeleteRange_Marshal,
      ResponseOp |-> ResponseOp_Marshal, Compare |-> Compare_Marshal,
      KeyValue |-> KeyValue_Marshal, MetadataRequest |-> MetadataRequest_Marshal,
      MetadataResponse |-> MetadataResponse_Marshal, Table |-> Table_Marshal,
      SnapshotRequest |-> SnapshotRequest_Marshal, SnapshotChunk |-> SnapshotChunk_Marshal,
      ReplicateRequest |-> ReplicateRequest_Marshal,
      ReplicateResponse |-> ReplicateResponse_Marshal,
      ReplicateCommandsResponse |-> ReplicateCommandsResponse_Marshal,
      ReplicateCommand |-> ReplicateCommand_Marshal,
      ReplicateErrResponse |-> ReplicateErrResponse_Marshal,
      BackupRequest |-> BackupRequest_Marshal, RestoreMessage |-> RestoreMessage_Marshal,
      RestoreInfo |-> RestoreInfo_Marshal, RestoreResponse |-> RestoreResponse_Marshal,
      ResetRequest |-> ResetRequest_Marshal, ResetResponse |-> ResetResponse_Marshal,
      RequestOp_RequestRange |-> RequestOp_RequestRange_Marshal,
      RequestOp_RequestPut |-> RequestOp_RequestPut_Marshal,
      RequestOp_RequestDeleteRange |-> RequestOp_RequestDeleteRange_Marshal,
      ResponseOp_ResponseRange |-> ResponseOp_ResponseRange_Marshal,
      ResponseOp_ResponsePut |-> ResponseOp_ResponsePut_Marshal,
      ResponseOp_ResponseDeleteRange |-> ResponseOp_ResponseDeleteRange_Marshal,
      Compare_Value |-> Compare_Value_Marshal,
      ReplicateResponse_CommandsResponse |-> ReplicateResponse_CommandsResponse_Marshal,
      ReplicateResponse_ErrorResponse |-> ReplicateResponse_ErrorResponse_Marshal,
      RestoreMessage_Info |-> RestoreMessage_Info_Marshal,
      RestoreMessage_Chunk |-> RestoreMessage_Chunk_Marshal ]

Sizes ==
    [ ResponseHeader |-> ResponseHeader_Size, RangeRequest |-> RangeRequest_Size,
      RangeResponse |-> RangeResponse_Size, PutRequest |-> PutRequest_Size,
      PutResponse |-> PutResponse_Size, DeleteRangeRequest |-> DeleteRangeRequest_Size,
      DeleteRangeResponse |-> DeleteRangeResponse_Size, TxnRequest |-> TxnRequest_Size,
      TxnResponse |-> TxnResponse_Size, MemberListRequest |-> MemberListRequest_Size,
      MemberListResponse |-> MemberListResponse_Size, Member |-> Member_Size,
      TableStatus |-> TableStatus_Size, StatusRequest |-> StatusRequest_Size,
      StatusResponse |-> StatusResponse_Size, CreateTableRequest |-> CreateTableRequest_Size,
      CreateTableResponse |-> CreateTableResponse_Size,
      DeleteTableRequest |-> DeleteTableRequest_Size,
      DeleteTableResponse |-> DeleteTableResponse_Size,
      ListTablesRequest |-> ListTablesRequest_Size, TableInfo |-> TableInfo_Size,
      ListTablesResponse |-> ListTablesResponse_Size, Command |-> Command_Size,
      CommandResult |-> CommandResult_Size, Txn |-> Txn_Size,
      RequestOp_Range |-> RequestOp_Range_Size, RequestOp_Put |-> RequestOp_Put_Size,
      RequestOp_DeleteRange |-> RequestOp_DeleteRange_Size, RequestOp |-> RequestOp_Size,
      ResponseOp_Range |-> ResponseOp_Range_Size, ResponseOp_Put |-> ResponseOp_Put_Size,
      ResponseOp_DeleteRange |-> ResponseOp_DeleteRange_Size, ResponseOp |-> ResponseOp_Size,
      Compare |-> Compare_Size, KeyValue |-> KeyValue_Size,
      MetadataRequest |-> MetadataRequest_Size, MetadataResponse |-> MetadataResponse_Size,
      Table |-> Table_Size, SnapshotRequest |-> SnapshotRequest_Size,
      SnapshotChunk |-> SnapshotChunk_Size, ReplicateRequest |-> ReplicateRequest_Size,
      ReplicateResponse |-> ReplicateResponse_Size,
      ReplicateCommandsResponse |-> ReplicateCommandsResponse_Size,
      ReplicateCommand |-> ReplicateCommand_Size,
      ReplicateErrResponse |-> ReplicateErrResponse_Size, BackupRequest |-> BackupRequest_Size,
      RestoreMessage |-> RestoreMessage_Size, RestoreInfo |-> RestoreInfo_Size,
      RestoreResponse |-> RestoreResponse_Size, ResetRequest |-> ResetRequest_Size,
      ResetResponse |-> ResetResponse_Size,
      RequestOp_RequestRange |-> RequestOp_RequestRange_Size,
      RequestOp_RequestPut |-> RequestOp_RequestPut_Size,
      RequestOp_RequestDeleteRange |-> RequestOp_RequestDeleteRange_Size,
      ResponseOp_ResponseRange |-> ResponseOp_ResponseRange_Size,
      ResponseOp_ResponsePut |-> ResponseOp_ResponsePut_Size,
      ResponseOp_ResponseDeleteRange |-> ResponseOp_ResponseDeleteRange_Size,
      Compare_Value |-> Compare_Value_Size,
      ReplicateResponse_CommandsResponse |-> ReplicateResponse_CommandsResponse_Size,
      ReplicateResponse_ErrorResponse |-> ReplicateResponse_ErrorResponse_Size,
      RestoreMessage_Info |-> RestoreMessage_Info_Size,
      RestoreMessage_Chunk |-> RestoreMessage_Chunk_Size ]

Unmarshals ==
    [ ResponseHeader |-> ResponseHeader_Unmarshal, RangeRequest |-> RangeRequest_Unmarshal,
      RangeResponse |-> RangeResponse_Unmarshal, PutRequest |-> PutRequest_Unmarshal,
      PutResponse |-> PutResponse_Unmarshal,
      DeleteRangeRequest |-> DeleteRangeRequest_Unmarshal,
      DeleteRangeResponse |-> DeleteRangeResponse_Unmarshal,
      TxnRequest |-> TxnRequest_Unmarshal, TxnResponse |-> TxnResponse_Unmarshal,
      MemberListRequest |-> MemberListRequest_Unmarshal,
      MemberListResponse |-> MemberListResponse_Unmarshal, Member |-> Member_Unmarshal,
      TableStatus |-> TableStatus_Unmarshal, StatusRequest |-> StatusRequest_Unmarshal,
      StatusResponse |-> StatusResponse_Unmarshal,
      CreateTableRequest |-> CreateTableRequest_Unmarshal,
      CreateTableResponse |-> CreateTableResponse_Unmarshal,
      DeleteTableRequest |-> DeleteTableRequest_Unmarshal,
      DeleteTableResponse |-> DeleteTableResponse_Unmarshal,
      ListTablesRequest |-> ListTablesRequest_Unmarshal, TableInfo |-> TableInfo_Unmarshal,
      ListTablesResponse |-> ListTablesResponse_Unmarshal, Command |-> Command_Unmarshal,
      CommandResult |-> CommandResult_Unmarshal, Txn |-> Txn_Unmarshal,
      RequestOp_Range |-> RequestOp_Range_Unmarshal, RequestOp_Put |-> RequestOp_Put_Unmarshal,
      RequestOp_DeleteRange |-> RequestOp_DeleteRange_Unmarshal,
      RequestOp |-> RequestOp_Unmarshal, ResponseOp_Range |-> ResponseOp_Range_Unmarshal,
      ResponseOp_Put |-> ResponseOp_Put_Unmarshal,
      ResponseOp_DeleteRange |-> ResponseOp_DeleteRange_Unmarshal,
      ResponseOp |-> ResponseOp_Unmarshal, Compare |-> Compare_Unmarshal,
      KeyValue |-> KeyValue_Unmarshal, MetadataRequest |-> MetadataRequest_Unmarshal,
      MetadataResponse |-> MetadataResponse_Unmarshal, Table |-> Table_Unmarshal,
      SnapshotRequest |-> SnapshotRequest_Unmarshal, SnapshotChunk |-> SnapshotChunk_Unmarshal,
      ReplicateRequest |-> ReplicateRequest_Unmarshal,
      ReplicateResponse |-> ReplicateResponse_Unmarshal,
      ReplicateCommandsResponse |-> ReplicateCommandsResponse_Unmarshal,
      ReplicateCommand |-> ReplicateCommand_Unmarshal,
      ReplicateErrResponse |-> ReplicateErrResponse_Unmarshal,
      BackupRequest |-> BackupRequest_Unmarshal, RestoreMessage |-> RestoreMessage_Unmarshal,
      RestoreInfo |-> RestoreInfo_Unmarshal, RestoreResponse |-> RestoreResponse_Unmarshal,
      ResetRequest |-> ResetRequest_Unmarshal, ResetResponse |-> ResetResponse_Unmarshal ]

-------------------------------------------------------------------------------
(* Messages *)

Fields(cases) == {c.field : c \in cases} \cup {"unknownFields"}

\* &M{}.
New(cases) == [f \in Fields(cases) |-> <<>>]

IsList(v) == v \in Seq({v[i] : i \in DOMAIN v})
Nested(type, e) == [type |-> type, value |-> e] \in Messages

\* The wrapper of a oneof: a message, or bytes.
IsArm(c, a) ==
    LET w == a.wrapper[c.inner]
    IN  /\ a = [arm |-> c.arm, wrapper |-> [f \in {c.inner} |-> w]]
        /\ IF c.kind = "BytesArm" THEN Text(w)
           ELSE IsList(w) /\ Len(w) = 1 /\ Nested(c.type, w[1])

\* An entry of a map.
IsEntry(c, e) ==
    /\ e = [key |-> e.key, value |-> e.value]
    /\ Text(e.key)
    /\ IsList(e.value) /\ Len(e.value) = 1 /\ Nested(c.type, e.value[1])

\* What a field can hold, for each of its cases.
Holds(c, v) ==
    CASE c.kind = "Bytes" -> Text(v)
      [] c.kind = "Num" -> Numeral(v)
      [] c.kind = "Enum" -> Numeral(v) /\ Int32(v) = v
      [] c.kind = "Bool" -> v \in {<<>>, <<1>>}
      [] c.kind \in {"OptBytes", "Opaque", "Texts"} -> \A i \in DOMAIN v : Text(v[i])
      [] c.kind = "OptNum" -> \A i \in DOMAIN v : Numeral(v[i])
      [] c.kind \in {"Msg", "Msgs"} -> \A i \in DOMAIN v : Nested(c.type, v[i])
      [] c.kind \in {"Arm", "BytesArm"} ->
            \A i \in DOMAIN v : v[i].arm = c.arm => IsArm(c, v[i])
      [] c.kind = "MapOf" ->
            /\ \A i \in DOMAIN v : IsEntry(c, v[i])
            /\ \A i, j \in DOMAIN v : v[i].key = v[j].key => i = j

Lists == {"Texts", "Msgs", "MapOf"}
Options == {"OptBytes", "OptNum", "Opaque", "Msg", "Arm", "BytesArm"}

\* Bytes that a reader keeps: fields for which it has no case, one after another.
Slices(u) == {SubSeq(u, i, j) : i, j \in 1..Len(u)}
IsKept(cases, f) == NextField(cases, f) = << [case |-> {}, value |-> f, rest |-> <<>>] >>
IsUnknown(cases, u) ==
    u \in Octets /\ \E n \in 0..Len(u) : \E fields \in [1..n -> Slices(u)] :
        u = FlattenSeq(fields) /\ \A k \in 1..n : IsKept(cases, fields[k])

IsMessage(cases, m) ==
    /\ m = [f \in Fields(cases) |-> m[f]]
    /\ \A c \in cases :
        /\ Holds(c, m[c.field])
        /\ c.kind \in Lists \cup Options => IsList(m[c.field])
        /\ c.kind \in Options => Len(m[c.field]) <= 1
        /\ c.kind \in {"Arm", "BytesArm"} => \A i \in DOMAIN m[c.field] :
                \E d \in cases : d.field = c.field /\ d.arm = m[c.field][i].arm
    /\ IsUnknown(cases, m.unknownFields)

-------------------------------------------------------------------------------
(* The three tables of a type *)

Scalars == {"Bytes", "Num", "Enum", "Bool"}

\* What is written of a field is what its case reads, and is counted.
RowFits(row, size, c) ==
    /\ SameTag(row, c) /\ size.at = 1 + Len(row.more)
    /\ row.type = c.type /\ size.type = c.type
    /\ row.kind = "MapOf" =>
        /\ EncodeVarint(Groups(8 * c.keyAt + 2)) = <<row.keyAt>> /\ size.keyAt = 1
        /\ EncodeVarint(Groups(8 * c.valueAt + 2)) = <<row.valueAt>> /\ size.valueAt = 1
        /\ c.keyAt \in 1..15 /\ c.valueAt \in 1..15 /\ c.keyAt # c.valueAt

\* A wrapper has one field, which its case reads as one of the message.
ArmFits(c) ==
    LET row == Marshals[c.arm][1]
        size == Sizes[c.arm][1]
    IN  /\ Len(Marshals[c.arm]) = 1 /\ Len(Sizes[c.arm]) = 1
        /\ row.kind = (IF c.kind = "Arm" THEN "Msg" ELSE "Always") /\ size.kind = row.kind
        /\ row.field = c.inner /\ size.field = c.inner
        /\ RowFits(row, size, c)

\* A row and the one that counts it, with the cases of their field.
FieldFits(row, size, its) ==
    /\ size.kind = row.kind
    /\ \/ row.kind = "Unknown" /\ row.field = "unknownFields"
       \/ /\ row.kind = "OneOf" /\ its # {}
          /\ \A c \in its : c.kind \in {"Arm", "BytesArm"} /\ ArmFits(c)
       \/ \E c \in its : /\ its = {c} /\ c.kind = row.kind
                        /\ c.kind \in Scalars \cup Lists \cup (Options \ {"Arm", "BytesArm"})
                        /\ RowFits(row, size, c)

\* Every field has one row in each of the tables of what is written and counted.
TablesFit(type) ==
    LET rows == Marshals[type]
        sizes == Sizes[type]
        cases == Unmarshals[type]
    IN  /\ IsList(rows) /\ IsList(sizes) /\ Len(rows) = Len(sizes)
        /\ \A i, j \in DOMAIN rows : rows[i].field = rows[j].field => i = j
        /\ \A i, j \in DOMAIN sizes : sizes[i].field = sizes[j].field => i = j
        /\ {rows[i].field : i \in DOMAIN rows} = Fields(cases)
        /\ {sizes[i].field : i \in DOMAIN sizes} = Fields(cases)
        /\ \A c, d \in cases : c.at = d.at \/ (c.arm = d.arm /\ c.arm # "") => c = d
        /\ \A c \in cases : c.field # "unknownFields"
        /\ \A i \in DOMAIN rows, j \in DOMAIN sizes : rows[i].field = sizes[j].field =>
                FieldFits(rows[i], sizes[j], {c \in cases : c.field = rows[i].field})

ASSUME TablesAssumption == \A type \in DOMAIN Unmarshals : TablesFit(type)

-------------------------------------------------------------------------------
(* Encoding *)

\* What is written of a field, one by one; a scalar's zero value is not.
Elements(row, m) ==
    LET v == m[row.field]
    IN IF row.kind = "Always" \/ (row.kind \in Scalars /\ v # <<>>) THEN <<v>> ELSE v

\* An entry of a map: its key, and its value unless that is nil.
EntryBytes(row, e) ==
    <<row.keyAt>> \o Prefixed(e.key) \o
    <<row.valueAt>> \o Prefixed(FlattenSeq([k \in 1..Len(e.value) |->
        NestedEncoded(Marshals[row.type], e.value[k])]))

\* The number or the bytes that stand for an element.
Raw(row, e) ==
    CASE row.kind \in {"Msg", "Msgs"} -> NestedEncoded(Marshals[row.type], e)
      [] row.kind = "MapOf" -> EntryBytes(row, e)
      [] OTHER -> e

\* All that is written of a field. A oneof is written by the method of its arm.
Written(row, m) ==
    CASE row.kind = "Unknown" -> m.unknownFields
      [] row.kind = "OneOf" ->
            FlattenSeq([k \in 1..Len(m[row.field]) |->
                NestedEncoded(Marshals[m[row.field][k].arm], m[row.field][k].wrapper)])
      [] OTHER ->
            FlattenSeq([k \in 1..Len(Elements(row, m)) |->
                Tagged(row, Payload(row, Raw(row, Elements(row, m)[k])))])

\* MarshalToSizedBufferVT with the rows of a message. What is written last
\* comes first.
Encoded(rows, m) ==
    FlattenSeq([k \in 1..Len(rows) |-> Written(rows[Len(rows) + 1 - k], m)])

Total(numbers) ==
    LET sum[k \in Nat] == IF k = 0 THEN 0 ELSE sum[k - 1] + numbers[k]
    IN sum[Len(numbers)]

EntrySize(row, e) ==
    row.keyAt + SizeOfPrefixed(Len(e.key)) +
    row.valueAt + SizeOfPrefixed(Total([k \in 1..Len(e.value) |->
        NestedSizeVT(Sizes[row.type], e.value[k])]))

RawSize(row, e) ==
    CASE row.kind \in {"Msg", "Msgs"} -> NestedSizeVT(Sizes[row.type], e)
      [] row.kind = "MapOf" -> EntrySize(row, e)
      [] OTHER -> Len(e)

\* What is counted of a field.
Counted(row, m) ==
    CASE row.kind = "Unknown" -> Len(m.unknownFields)
      [] row.kind = "OneOf" ->
            Total([k \in 1..Len(m[row.field]) |->
                NestedSizeVT(Sizes[m[row.field][k].arm], m[row.field][k].wrapper)])
      [] OTHER ->
            Total([k \in 1..Len(Elements(row, m)) |->
                row.at + IF IsNumber(row) THEN SizeOfVarint(Elements(row, m)[k])
                         ELSE SizeOfPrefixed(RawSize(row, Elements(row, m)[k]))])

\* SizeVT with the rows of a message.
SizeVT(rows, m) == Total([k \in 1..Len(rows) |-> Counted(rows[k], m)])

\* MarshalVT fills a buffer of SizeVT bytes from its end and returns as many
\* bytes of it, from its start, as it has written. It panics when they are
\* more than the buffer holds.
MarshalVT(rows, sizes, m) ==
    LET size == SizeVT(sizes, m)
        b == Encoded(rows, m)
    IN IF Len(b) > size THEN <<>>
       ELSE << Cut([i \in 1..size - Len(b) |-> 0] \o b, Len(b)) >>

-------------------------------------------------------------------------------
(* Decoding *)

\* The default case: the field is kept as it is.
Keep_dropped(m, field) == m
Keep(m, field) == [m EXCEPT !.unknownFields = @ \o field]

\* An entry of a map, read as far as rest: its key, its value, and what else is
\* there. The code does not ask for the types of the fields.
EntryKey(s, b) ==
    Then(TakeBytes(b), LAMBDA x : << [key |-> x.value, value |-> s.value, rest |-> x.rest] >>)

EntryValue(c, s, b) ==
    Then(TakeBytes(b), LAMBDA x :
        Then(NestedFill(Unmarshals[c.type], New(Unmarshals[c.type]), x.value), LAMBDA v :
            << [key |-> s.key, value |-> <<v>>, rest |-> x.rest] >>))

EntryOther(s) ==
    Then(Skip(s.rest), LAMBDA n :
        IF Beyond(n, s.rest) THEN <<>> ELSE << [s EXCEPT !.rest = After(s.rest, n)] >>)

EntryField(c, s) ==
    Then(ReadVarint(s.rest), LAMBDA tag :
        CASE FieldNumber(tag.value) = c.keyAt -> EntryKey(s, tag.rest)
          [] FieldNumber(tag.value) = c.valueAt -> EntryValue(c, s, tag.rest)
          [] OTHER -> EntryOther(s))

\* A field takes two bytes at least, so that half as many turns of the loop as
\* there are bytes are enough.
Turns(b) == (Len(b) + 1) \div 2

FillEntry(c, b) ==
    LET turn[k \in Nat] ==
            IF k = 0 THEN << [key |-> <<>>, value |-> <<>>, rest |-> b] >>
            ELSE Then(turn[k - 1], LAMBDA s : IF s.rest = <<>> THEN <<s>> ELSE EntryField(c, s))
    IN Then(turn[Turns(b)], LAMBDA s : << [key |-> s.key, value |-> s.value] >>)

\* What is decoded into: a message and a oneof's arm are merged with those that
\* are there.
Start(c, old) ==
    CASE c.kind = "Msg" /\ old # <<>> -> old[1]
      [] c.kind = "Arm" /\ old # <<>> /\ old[1].arm = c.arm -> old[1].wrapper[c.inner][1]
      [] OTHER -> New(Unmarshals[c.type])

\* What the bytes or the number of a field stand for.
Meaning(c, old, x) ==
    CASE c.kind \in {"Msg", "Msgs", "Arm"} -> NestedFill(Unmarshals[c.type], Start(c, old), x)
      [] c.kind = "MapOf" -> FillEntry(c, x)
      [] OTHER -> <<x>>

\* An entry of a map takes the place of one with its key.
Entered(entries, x) ==
    LET same == {i \in DOMAIN entries : entries[i].key = x.key}
    IN IF same = {} THEN Append(entries, x)
       ELSE [i \in DOMAIN entries |-> IF i \in same THEN x ELSE entries[i]]

\* What the field then holds: what is repeated is appended, a scalar replaced.
Put(c, old, x) ==
    CASE c.kind \in {"Bytes", "Num"} -> x
      [] c.kind = "Enum" -> Int32(x)
      [] c.kind = "Bool" -> IF x = <<>> THEN <<>> ELSE <<1>>
      [] c.kind \in {"OptBytes", "OptNum", "Msg"} -> <<x>>
      [] c.kind \in {"Texts", "Msgs"} -> Append(old, x)
      [] c.kind = "Opaque" -> <<FlattenSeq(old) \o x>>
      [] c.kind = "Arm" -> << [arm |-> c.arm, wrapper |-> [f \in {c.inner} |-> <<x>>]] >>
      [] c.kind = "BytesArm" -> << [arm |-> c.arm, wrapper |-> [f \in {c.inner} |-> x]] >>
      [] c.kind = "MapOf" -> Entered(old, x)

Stored(c, m, x) ==
    Then(Meaning(c, m[c.field], x), LAMBDA v : << [m EXCEPT ![c.field] = Put(c, @, v)] >>)

\* A field is kept or stored, as there is a case for it or not.
Merged(f, m) ==
    IF f.case = {} THEN <<Keep(m, f.value)>>
    ELSE Stored(CHOOSE c \in f.case : TRUE, m, f.value)

\* A field is read from the rest of the bytes.
ReadInto(cases, s) ==
    Then(NextField(cases, s.rest), LAMBDA f :
        Then(Merged(f, s.msg), LAMBDA m : << [msg |-> m, rest |-> f.rest] >>))

\* UnmarshalVT with the cases of a message, for one that may hold fields.
Fill(cases, m, b) ==
    LET turn[k \in Nat] ==
            IF k = 0 THEN << [msg |-> m, rest |-> b] >>
            ELSE Then(turn[k - 1], LAMBDA s : IF s.rest = <<>> THEN <<s>> ELSE ReadInto(cases, s))
    IN Then(turn[Turns(b)], LAMBDA s : <<s.msg>>)

UnmarshalVT(cases, b) == Fill(cases, New(cases), b)

-------------------------------------------------------------------------------
(* The messages of the model, and what the methods of this module call *)

\* What has a length: a message, and an entry of a map.
Short(rows, m) ==
    /\ Text(Encoded(rows, m))
    /\ \A k \in DOMAIN rows : rows[k].kind = "MapOf" =>
            \A i \in DOMAIN m[rows[k].field] : Text(EntryBytes(rows[k], m[rows[k].field][i]))

ASSUME MessageAssumption ==
    \A msg \in Messages :
        /\ msg = [type |-> msg.type, value |-> msg.value]
        /\ msg.type \in DOMAIN Unmarshals
        /\ IsMessage(Unmarshals[msg.type], msg.value)
        /\ Short(Marshals[msg.type], msg.value)

\* A message calls the same methods of the messages and wrappers within it.
SameMethods(rows, sizes, m) ==
    /\ NestedEncoded(rows, m) = Encoded(rows, m)
    /\ NestedSizeVT(sizes, m) = SizeVT(sizes, m)

ASSUME NestedAssumption ==
    \A msg \in Messages :
        /\ SameMethods(Marshals[msg.type], Sizes[msg.type], msg.value)
        /\ LET b == Encoded(Marshals[msg.type], msg.value)
               cases == Unmarshals[msg.type]
           IN  NestedFill(cases, New(cases), b) = Fill(cases, New(cases), b)
        /\ \A c \in Unmarshals[msg.type] : c.kind \in {"Arm", "BytesArm"} =>
                \A i \in DOMAIN msg.value[c.field] :
                    LET a == msg.value[c.field][i]
                    IN  SameMethods(Marshals[a.arm], Sizes[a.arm], a.wrapper)
===============================================================================
