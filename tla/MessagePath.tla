------------------------------ MODULE MessagePath ------------------------------
(***************************************************************************)
(* Messages on their way: the generated methods encode a message, the      *)
(* compressor carries its bytes, with its codecs shared by all messages,   *)
(* and the generated methods decode what arrives.                          *)
(***************************************************************************)
EXTENDS SnappyPool, Codec

CONSTANTS
    Alone,  \* the messages that are sent one at a time
    Crowd   \* the messages that may be on their way together

\* The compressor is given bytes.
ASSUME PathAssumption ==
    /\ Alone \cup Crowd \subseteq Messages
    /\ Parts = Byte

VARIABLES
    msg,    \* the message of each transfer
    decoded \* what its receiver has made of it: <<>>, or <<m>>

vars == <<poolVars, msg, decoded>>

Nothing == [type |-> "", value |-> <<>>]

Init ==
    /\ PoolInit
    /\ decoded = [t \in Transfers |-> <<>>]
    /\ \/ \E t \in Transfers, m \in Alone :
            msg = [u \in Transfers |-> IF u = t THEN m ELSE Nothing]
       \/ msg \in [Transfers -> Crowd]

Encode(m) == MarshalVT(Marshals[m.type], Sizes[m.type], m.value)

\* MarshalVT panics when SizeVT has counted too few bytes; then there is no k.
Send(t) ==
    /\ msg[t] # Nothing
    /\ \E k \in DOMAIN Encode(msg[t]) : Submit(t, Encode(msg[t])[k])
    /\ UNCHANGED <<msg, decoded>>

Carry(t) == PoolStep(t) /\ UNCHANGED <<msg, decoded>>

Receive(t) ==
    /\ Go(t, "received", "decoded")
    /\ decoded' = [decoded EXCEPT ![t] = UnmarshalVT(Unmarshals[msg[t].type], out[t])]
    /\ UNCHANGED <<data, writer, reader, wpool, rpool, made, target, buffer, rest, wire, out, msg>>

Next == \E t \in Transfers : Send(t) \/ Carry(t) \/ Receive(t)

Spec == Init /\ [][Next]_vars
-------------------------------------------------------------------------------
\* SizeVT, MarshalToSizedBufferVT, the compressor and UnmarshalVT agree: every
\* message can be sent, and what is received of it equals what was sent.
Delivered ==
    \A t \in Transfers :
        /\ msg[t] # Nothing => Encode(msg[t]) # <<>>
        /\ pc[t] = "decoded" => decoded[t] = <<msg[t].value>>

\* UnmarshalVT takes no message that has lost its end for another one: it
\* refuses the rest, or the rest is the encoding of what it makes of it.
PrefixRefused ==
    \A t \in Transfers : pc[t] = "decoded" =>
        \A n \in 0..Len(data[t]) - 1 :
            LET m == UnmarshalVT(Unmarshals[msg[t].type], Cut(data[t], n))
            IN m = <<>> \/ Encode([type |-> msg[t].type, value |-> m[1]]) = <<Cut(data[t], n)>>

\* What a program makes of a message that has been built before field c.
OldReader(m, c, b) == UnmarshalVT(Unmarshals[m.type] \ {c}, b)

\* The rows of that program: one may be missing, when c was its field's only case.
OldRows(rows, old) ==
    LET gone == {i \in DOMAIN rows : rows[i].field \notin DOMAIN old}
    IN IF gone = {} THEN rows ELSE RemoveAt(rows, CHOOSE i \in gone : TRUE)
OldEncoding(m, old) ==
    MarshalVT(OldRows(Marshals[m.type], old), OldRows(Sizes[m.type], old), old)

\* A message that goes through a program which does not know one of its fields
\* keeps that field.
UnknownKept ==
    \A t \in Transfers : pc[t] = "decoded" =>
        \A c \in Unmarshals[msg[t].type] :
            <<msg[t].value>> =
                Then(OldReader(msg[t], c, data[t]), LAMBDA old :
                    Then(OldEncoding(msg[t], old), LAMBDA b :
                        UnmarshalVT(Unmarshals[msg[t].type], b)))
===============================================================================
