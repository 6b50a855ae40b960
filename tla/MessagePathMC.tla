----------------------------- MODULE MessagePathMC -----------------------------
(***************************************************************************)
(* MessagePath with messages of every type: empty, with each of its fields *)
(* set to each of a few values, and full, nested MaxDepth deep.            *)
(***************************************************************************)
EXTENDS MessagePath, TLC

CONSTANT MaxDepth

\* The methods call each other. (The LETs keep TLC's coverage statistics from
\* unfolding these calls without end.)
MCEncoded(rows, m) == LET b == Encoded(rows, m) IN b
MCSizeVT(rows, m) == LET n == SizeVT(rows, m) IN n
MCFill(cases, m, b) == LET r == Fill(cases, m, b) IN r

MinusOne == [i \in 1..10 |-> IF i < 10 THEN 127 ELSE 1]

\* Field 100, which no message has.
UnknownField == <<160, 6, 1>>

RECURSIVE Values(_, _), Full(_, _), Within(_, _)

Values(c, depth) ==
    LET nested == Full(c.type, depth - 1)
        empty == New(Unmarshals[c.type])
        arm(v) == << [arm |-> c.arm, wrapper |-> [f \in {c.inner} |-> v]] >>
    IN CASE c.kind = "Bytes" -> {<<7, 200>>}
         [] c.kind = "Num" -> {<<44, 2>>, <<127>>, MinusOne}
         [] c.kind = "Enum" -> {<<1>>, MinusOne}
         [] c.kind = "Bool" -> {<<1>>}
         [] c.kind \in {"OptBytes", "OptNum"} -> {<< <<>> >>, << <<7>> >>}
         [] c.kind = "Texts" -> {<< <<7>>, <<>> >>}
         [] c.kind = "Opaque" -> {<< <<>> >>, << <<7>> >>}
         [] c.kind = "Msg" -> {<<nested>>, <<empty>>}
         [] c.kind = "Msgs" -> {<<nested, empty>>}
         [] c.kind = "Arm" -> {arm(<<nested>>), arm(<<empty>>)}
         [] c.kind = "BytesArm" -> {arm(<<>>), arm(<<7>>)}
         [] c.kind = "MapOf" -> {<< [key |-> <<7>>, value |-> <<nested>>],
                                    [key |-> <<>>, value |-> <<empty>>] >>}

Full(type, depth) ==
    LET cases == Unmarshals[type]
        value(f) == CHOOSE v \in Values(CHOOSE c \in cases : c.field = f, depth) : TRUE
    IN IF depth = 0 THEN New(cases)
       ELSE [f \in Fields(cases) |-> IF f = "unknownFields" THEN UnknownField ELSE value(f)]

Samples(type) ==
    LET none == New(Unmarshals[type])
    IN {none, Full(type, MaxDepth)} \cup
       UNION {{[none EXCEPT ![c.field] = v] : v \in Values(c, MaxDepth)} : c \in Unmarshals[type]}

\* A message and those within it.
Within(type, m) ==
    LET nested(c, v) ==
            CASE c.kind \in {"Msg", "Msgs"} -> Range(v)
              [] c.kind = "Arm" -> {v[i].wrapper[c.inner][1] : i \in {j \in DOMAIN v : v[j].arm = c.arm}}
              [] c.kind = "MapOf" -> {v[i].value[1] : i \in DOMAIN v}
              [] OTHER -> {}
    IN  {[type |-> type, value |-> m]} \cup
        UNION {UNION {Within(c.type, e) : e \in nested(c, m[c.field])} : c \in Unmarshals[type]}

\* A value of 128 bytes has a length of two.
Large == [New(PutRequest_Unmarshal) EXCEPT !.Value = [i \in 1..128 |-> 0]]
Value(v) == [type |-> "PutRequest", value |-> [New(PutRequest_Unmarshal) EXCEPT !.Value = v]]
MCCrowd == {Value(<<>>), Value(<<1>>), Value(<<2>>)}
MCAlone ==
    UNION {{[type |-> type, value |-> m] : m \in Samples(type)} : type \in DOMAIN Unmarshals}
        \cup {[type |-> "PutRequest", value |-> Large]}
MCMessages == UNION {Within(m.type, m.value) : m \in MCAlone \cup MCCrowd}

Symmetry == Permutations(Transfers) \cup Permutations(Writers) \cup Permutations(Readers)
===============================================================================
