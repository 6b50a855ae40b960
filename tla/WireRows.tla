-------------------------------- MODULE WireRows --------------------------------
(***************************************************************************)
(* The vocabulary of the tables that describe the generated methods of the *)
(* protocol's messages, one row for each statement on a field:             *)
(*                                                                         *)
(*   M_Marshal    M.MarshalToSizedBufferVT, in the order of the code, which *)
(*                fills its buffer from the end; a row starts with the tag *)
(*                byte that it writes.                                     *)
(*   M_Size       M.SizeVT; a row starts with the bytes counted for a tag. *)
(*   M_Unmarshal  the cases of M.UnmarshalVT; a row starts with the number *)
(*                of the field.                                            *)
(*                                                                         *)
(* Codec says what the methods do with a row.                              *)
(***************************************************************************)
EXTENDS Naturals

Row(kind, at, field, type) ==
    [kind |-> kind, at |-> at, more |-> <<>>, field |-> field, type |-> type,
     arm |-> "", inner |-> "", keyAt |-> 0, valueAt |-> 0]

Bytes(at, field) == Row("Bytes", at, field, "")       \* bytes and string
Num(at, field) == Row("Num", at, field, "")           \* uint64 and int64
Enum(at, field) == Row("Enum", at, field, "")         \* an int32 underneath
Bool(at, field) == Row("Bool", at, field, "")
OptBytes(at, field) == Row("OptBytes", at, field, "") \* optional: nil or a value
OptNum(at, field) == Row("OptNum", at, field, "")
Texts(at, field) == Row("Texts", at, field, "")       \* repeated string
Opaque(at, field) == Row("Opaque", at, field, "")     \* google.protobuf.Struct
Msg(at, field, type) == Row("Msg", at, field, type)
Msgs(at, field, type) == Row("Msgs", at, field, type)

\* map<string, type>, with the tags, widths or numbers of its key and value.
MapOf(at, field, type, keyAt, valueAt) ==
    [Row("MapOf", at, field, type) EXCEPT !.keyAt = keyAt, !.valueAt = valueAt]

\* A tag of two bytes.
WideBytes(at, next, field) == [Bytes(at, field) EXCEPT !.more = <<next>>]

\* A oneof is written by its arm, a wrapper type with tables of its own.
OneOf(field) == Row("OneOf", 0, field, "")
Arm(at, field, arm, inner, type) ==
    [Row("Arm", at, field, type) EXCEPT !.arm = arm, !.inner = inner]
BytesArm(at, field, arm, inner) ==
    [Row("BytesArm", at, field, "") EXCEPT !.arm = arm, !.inner = inner]

\* The value of an arm that is not a message is written when it is empty, too.
Always(at, field) == Row("Always", at, field, "")

\* The bytes of the fields that the reader of the message did not know.
Unknown == Row("Unknown", 0, "unknownFields", "")
===============================================================================
