------------------------------- MODULE WireFormat -------------------------------
(***************************************************************************)
(* The bytes that the generated methods write and read: numbers, lengths,  *)
(* and fields.                                                             *)
(*                                                                         *)
(* Bytes are numbers. A number of a message is the sequence of its 7-bit   *)
(* groups, the lowest first and the highest not 0 (a negative one has      *)
(* ten); 0 is <<>>. A result that may be missing is <<>> or <<x>>.         *)
(***************************************************************************)
EXTENDS Integers, Sequences, FiniteSetsExt

Byte == 0..255
Octets == Seq(Byte)

\* The seven bits of a byte that count for a number.
Group == 0..127

Then(result, Use(_)) == IF result = <<>> THEN <<>> ELSE Use(result[1])

Cut(b, n) == SubSeq(b, 1, Min({n, Len(b)}))
After(b, n) == SubSeq(b, n + 1, Len(b))

-------------------------------------------------------------------------------
(* Numbers *)

Canonical(g) == Cut(g, Max({0} \cup {i \in 1..Len(g) : g[i] # 0}))

\* Larger than any length and the number of any field.
Huge == 128 * 128 * 128 * 128

\* The groups of a length, which is below Huge.
Groups(n) ==
    Canonical(<<n % 128, (n \div 128) % 128, (n \div (128 * 128)) % 128,
                (n \div (128 * 128 * 128)) % 128>>)

\* What the first four groups stand for.
Lowest(g) ==
    LET group(i) == IF i <= Len(g) THEN g[i] ELSE 0
    IN group(1) + 128 * group(2) + 128 * 128 * group(3) + 128 * 128 * 128 * group(4)

\* A length. The large ones, of which some are negative as an int, are refused
\* alike.
Number(g) == IF Len(g) > 4 THEN Huge ELSE Lowest(g)

\* The two parts of a tag, a uint64: int32(wire >> 3) has 4 bits of the first
\* group, all of the next four, and nothing of those after them.
FieldNumber(g) ==
    LET fifth == IF Len(g) < 5 THEN 0 ELSE g[5]
    IN IF fifth = 0 THEN Lowest(g) \div 8 ELSE IF fifth < 64 THEN Huge ELSE -1

TagType(g) == Lowest(g) % 8

\* The low 32 bits of a number, with their sign.
Int32(g) ==
    LET top == g[5] % 16
    IN IF Len(g) < 5 THEN g
       ELSE Canonical(Cut(g, 4) \o
                (IF top < 8 THEN <<top>> ELSE <<112 + top, 127, 127, 127, 127, 1>>))

\* A number of at most 64 bits.
Numeral(g) ==
    /\ g \in Seq(Group) /\ Len(g) <= 10
    /\ g # <<>> => g[Len(g)] # 0
    /\ Len(g) = 10 => g[10] = 1

SizeOfVarint(g) == Max({1, Len(g)})

EncodeVarint(g) ==
    IF g = <<>> THEN <<0>>
    ELSE [i \in 1..Len(g) |-> IF i < Len(g) THEN g[i] + 128 ELSE g[i]]

\* An eleventh byte is an overflow; of the tenth one bit counts.
ReadVarint(b) ==
    LET ends == {i \in 1..Len(b) : i <= 10 /\ b[i] < 128}
        group(i) == IF i = 10 THEN b[i] % 2 ELSE b[i] % 128
    IN IF ends = {} THEN <<>>
       ELSE << [value |-> Canonical([i \in 1..Min(ends) |-> group(i)]),
                rest  |-> After(b, Min(ends))] >>

-------------------------------------------------------------------------------
(* Fields *)

\* What can be given a length.
Text(b) == b \in Octets /\ Len(b) < Huge

Prefixed(b) == EncodeVarint(Groups(Len(b))) \o b
\* Variant: a length of one byte, always.
SizeOfPrefixed_oneByte(n) == n + 1
SizeOfPrefixed(n) == n + SizeOfVarint(Groups(n))

\* The tag of a row of M_Marshal and what comes after it.
Tagged(row, payload) == <<row.at>> \o row.more \o payload

\* Variant: without postIndex > l.
Beyond_never(n, b) == FALSE
Beyond(n, b) == n > Len(b)

TakeBytes(b) ==
    Then(ReadVarint(b), LAMBDA len :
        LET n == Number(len.value)
        IN IF Beyond(n, len.rest) THEN <<>>
           ELSE << [value |-> Cut(len.rest, n), rest |-> After(len.rest, n)] >>)

\* protohelpers.Skip: the length of the field at the start of b; groups are
\* not in use.
Skip(b) ==
    Then(ReadVarint(b), LAMBDA tag :
        LET at == Len(b) - Len(tag.rest)
            wireType == TagType(tag.value)
        IN CASE wireType = 0 -> Then(ReadVarint(tag.rest), LAMBDA v : <<Len(b) - Len(v.rest)>>)
             [] wireType = 1 -> <<at + 8>>
             [] wireType = 5 -> <<at + 4>>
             [] wireType = 2 -> Then(ReadVarint(tag.rest), LAMBDA len :
                                    <<Len(b) - Len(len.rest) + Number(len.value)>>)
             [] OTHER -> <<>>)

IsNumber(c) == c.kind \in {"Num", "Enum", "Bool", "OptNum"}

WireType(c) == IF IsNumber(c) THEN 0 ELSE 2

Payload(c, x) == IF IsNumber(c) THEN EncodeVarint(x) ELSE Prefixed(x)
ReadValue(c, b) == IF IsNumber(c) THEN ReadVarint(b) ELSE TakeBytes(b)

\* What a case of UnmarshalVT is given.
IsValue(c, x) == IF IsNumber(c) THEN Numeral(x) ELSE Text(x)

\* A row writes the tag that a case asks for.
TagOf(c) == 8 * c.at + WireType(c)
HasTag(c) == c.at \in Nat \ {0} /\ 8 * c.at + 7 < Huge
SameTag(row, c) ==
    /\ HasTag(c)
    /\ row.at \in Byte /\ row.more \in Octets
    /\ <<row.at>> \o row.more = EncodeVarint(Groups(TagOf(c)))

\* The field at the start of b, for a reader with a case for it: the case and
\* what it is given.
KnownField(c, tag, b) ==
    IF TagType(tag) # WireType(c) THEN <<>>
    ELSE Then(ReadValue(c, b), LAMBDA x :
            << [case |-> {c}, value |-> x.value, rest |-> x.rest] >>)

\* For a reader without: all bytes of the field.
SkippedField(b) ==
    Then(Skip(b), LAMBDA n :
        IF Beyond(n, b) THEN <<>>
        ELSE << [case |-> {}, value |-> Cut(b, n), rest |-> After(b, n)] >>)

\* The cases of UnmarshalVT that a tag selects; there is one at most.
CasesFor(cases, tag) == {c \in cases : c.at = FieldNumber(tag)}
CaseFor(cases, tag) == CHOOSE c \in CasesFor(cases, tag) : TRUE

NextField(cases, b) ==
    Then(ReadVarint(b), LAMBDA tag :
        IF TagType(tag.value) = 4 \/ FieldNumber(tag.value) <= 0 THEN <<>>
        ELSE IF CasesFor(cases, tag.value) = {} THEN SkippedField(b)
        ELSE KnownField(CaseFor(cases, tag.value), tag.value, tag.rest))
===============================================================================
