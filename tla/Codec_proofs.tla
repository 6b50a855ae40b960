----------------------------- MODULE Codec_proofs -----------------------------
(***************************************************************************)
(* Proofs about the generated methods, for values of every length, lists   *)
(* of every length and messages of every depth.                            *)
(*                                                                         *)
(* The format: what is written of a number, of bytes and of a field is     *)
(* read as it was written, takes the bytes that are counted for it, is     *)
(* refused when its end is missing, and is kept by a reader who does not   *)
(* know the field.                                                         *)
(*                                                                         *)
(* A message: UnmarshalVT is a loop that takes a field a turn, so that the *)
(* bytes of one row of MarshalToSizedBufferVT lead from the message with   *)
(* the rows before it to that with one row more. The messages within a     *)
(* message have shorter encodings; by induction on that length every       *)
(* message comes out of its encoding again. One that has lost its end was  *)
(* cut within a field, where it is refused, or between two.                *)
(***************************************************************************)
EXTENDS Codec, SequenceTheorems, WellFoundedInduction, TLAPS

-------------------------------------------------------------------------------
(* Sequences *)

\* The two sets, as inequalities.
LEMMA Ranges ==
    /\ \A x : x \in Byte <=> x \in Int /\ 0 <= x /\ x < 256
    /\ \A x : x \in Group <=> x \in Int /\ 0 <= x /\ x < 128
BY DEF Byte, Group

\* The least and the greatest member of a set of integers.
LEMMA MinIs ==
    ASSUME NEW T \in SUBSET Int, NEW x \in T, \A y \in T : x <= y
    PROVE  Min(T) = x
<1>1. Min(T) \in T /\ \A y \in T : Min(T) <= y
  BY DEF Min
<1>2. Min(T) <= x /\ x <= Min(T) /\ Min(T) \in Int
  BY <1>1
<1> QED BY <1>2

\* The greatest one.
LEMMA MaxIs ==
    ASSUME NEW T \in SUBSET Int, NEW x \in T, \A y \in T : y <= x
    PROVE  Max(T) = x
<1>1. Max(T) \in T /\ \A y \in T : Max(T) >= y
  BY DEF Max
<1>2. Max(T) >= x /\ x >= Max(T) /\ Max(T) \in Int
  BY <1>1
<1> QED BY <1>2

\* The elements of a sequence.
LEMMA ElementFact ==
    ASSUME NEW S, NEW s \in Seq(S)
    PROVE  /\ Len(s) \in Nat /\ DOMAIN s = 1..Len(s)
           /\ \A i \in 1..Len(s) : s[i] \in S
OBVIOUS

\* A sequence is one over every set that holds its elements.
LEMMA IsSeq ==
    ASSUME NEW S, NEW s, NEW n \in Nat, s = [i \in 1..n |-> s[i]],
           \A i \in 1..n : s[i] \in S
    PROVE  s \in Seq(S) /\ Len(s) = n
OBVIOUS

\* The first n bytes, and those after them.
LEMMA CutFact ==
    ASSUME NEW S, NEW b \in Seq(S), NEW n \in 0..Len(b)
    PROVE  /\ Cut(b, n) = SubSeq(b, 1, n)
           /\ Cut(b, n) \in Seq(S) /\ Len(Cut(b, n)) = n
           /\ \A i \in 1..n : Cut(b, n)[i] = b[i]
<1>1. Min({n, Len(b)}) = n
  <2>1. {n, Len(b)} \in SUBSET Int /\ n \in {n, Len(b)} /\ \A y \in {n, Len(b)} : n <= y
    OBVIOUS
  <2> QED BY <2>1, MinIs
<1>2. Cut(b, n) = SubSeq(b, 1, n)
  BY <1>1 DEF Cut
<1>3. /\ SubSeq(b, 1, n) \in Seq(S) /\ Len(SubSeq(b, 1, n)) = n
      /\ \A i \in 1..n : SubSeq(b, 1, n)[i] = b[i]
  OBVIOUS
<1> QED BY <1>2, <1>3

\* What is after the first n bytes.
LEMMA AfterFact ==
    ASSUME NEW S, NEW b \in Seq(S), NEW n \in 0..Len(b)
    PROVE  /\ After(b, n) \in Seq(S) /\ Len(After(b, n)) = Len(b) - n
           /\ \A i \in 1..(Len(b) - n) : After(b, n)[i] = b[n + i]
BY DEF After

\* Equal sequences, element by element.
LEMMA SameSeq ==
    ASSUME NEW S, NEW a \in Seq(S), NEW b \in Seq(S), Len(a) = Len(b),
           \A i \in 1..Len(a) : a[i] = b[i]
    PROVE  a = b
OBVIOUS

\* What is in front is cut off again.
LEMMA ConcatFact ==
    ASSUME NEW S, NEW a \in Seq(S), NEW b \in Seq(S)
    PROVE  /\ a \o b \in Seq(S) /\ Len(a \o b) = Len(a) + Len(b)
           /\ \A i \in 1..Len(a) : (a \o b)[i] = a[i]
           /\ \A i \in 1..Len(b) : (a \o b)[Len(a) + i] = b[i]
           /\ Cut(a \o b, Len(a)) = a /\ After(a \o b, Len(a)) = b
<1>1. /\ a \o b \in Seq(S) /\ Len(a \o b) = Len(a) + Len(b)
      /\ \A i \in 1..Len(a) : (a \o b)[i] = a[i]
      /\ \A i \in 1..Len(b) : (a \o b)[Len(a) + i] = b[i]
      /\ Len(a) \in Nat /\ Len(b) \in Nat
  OBVIOUS
<1>2. Len(a) \in 0..Len(a \o b)
  BY <1>1
<1>3. Cut(a \o b, Len(a)) = a
  <2>1. /\ Cut(a \o b, Len(a)) \in Seq(S) /\ Len(Cut(a \o b, Len(a))) = Len(a)
        /\ \A i \in 1..Len(a) : Cut(a \o b, Len(a))[i] = (a \o b)[i]
    BY <1>1, <1>2, CutFact
  <2> QED BY <1>1, <2>1, SameSeq
<1>4. After(a \o b, Len(a)) = b
  <2>1. /\ After(a \o b, Len(a)) \in Seq(S) /\ Len(After(a \o b, Len(a))) = Len(b)
        /\ \A i \in 1..Len(b) : After(a \o b, Len(a))[i] = (a \o b)[Len(a) + i]
    <3>1. Len(a \o b) - Len(a) = Len(b) /\ a \o b \in Seq(S)
      BY <1>1
    <3> QED BY <1>2, <3>1, AfterFact
  <2> QED BY <1>1, <2>1, SameSeq
<1> QED BY <1>1, <1>3, <1>4

\* Groups and bytes are integers.
LEMMA IntSeq ==
    /\ \A g \in Seq(Group) : g \in Seq(Int)
    /\ \A b \in Octets : b \in Seq(Int)
BY Ranges DEF Octets

-------------------------------------------------------------------------------
(* Numbers *)

\* Groups whose last one is not 0 are as short as can be.
LEMMA CanonicalWhole ==
    ASSUME NEW g \in Seq(Int), g # <<>> => g[Len(g)] # 0
    PROVE  Canonical(g) = g
<1> DEFINE T == {0} \cup {i \in 1..Len(g) : g[i] # 0}
<1>1. Len(g) \in Nat /\ Len(g) \in T /\ T \in SUBSET Int /\ \A y \in T : y <= Len(g)
  OBVIOUS
<1>2. Max(T) = Len(g)
  BY <1>1, MaxIs
<1>3. Cut(g, Len(g)) = g
  <2>1. /\ Cut(g, Len(g)) \in Seq(Int) /\ Len(Cut(g, Len(g))) = Len(g)
        /\ \A i \in 1..Len(g) : Cut(g, Len(g))[i] = g[i]
    BY <1>1, CutFact
  <2> QED BY <2>1, SameSeq
<1> QED BY <1>2, <1>3 DEF Canonical

\* A number takes as many bytes as are counted for it; all but the last one say
\* that there is a next one.
LEMMA VarintShape ==
    ASSUME NEW g, Numeral(g)
    PROVE  LET e == EncodeVarint(g)
           IN  /\ e \in Octets /\ Len(e) = SizeOfVarint(g)
               /\ Len(e) \in Nat /\ 1 <= Len(e) /\ Len(e) <= 10
               /\ \A i \in 1..(Len(e) - 1) : e[i] >= 128
               /\ e[Len(e)] < 128
<1>1. g \in Seq(Group) /\ Len(g) \in Nat /\ \A i \in 1..Len(g) : g[i] \in Group
  BY ElementFact DEF Numeral
<1>2. CASE g = <<>>
  <2>1. EncodeVarint(g) = <<0>> /\ Max({1, Len(g)}) = 1
    BY <1>2, MaxIs DEF EncodeVarint
  <2>2. <<0>> \in Octets
    BY Ranges DEF Octets
  <2> QED BY <2>1, <2>2 DEF SizeOfVarint
<1>3. CASE g # <<>>
  <2> DEFINE e == EncodeVarint(g)
             n == Len(g)
  <2>1. n \in Nat /\ n >= 1 /\ n <= 10
    BY <1>1, <1>3 DEF Numeral
  <2>2. e = [i \in 1..n |-> IF i < n THEN g[i] + 128 ELSE g[i]]
    BY <1>3 DEF EncodeVarint
  <2>3. \A i \in 1..n : g[i] \in Int /\ 0 <= g[i] /\ g[i] < 128
    BY <1>1, Ranges
  <2>4. SizeOfVarint(g) = n
    <3>1. {1, n} \in SUBSET Int /\ \A y \in {1, n} : y <= n
      BY <2>1
    <3> QED BY <3>1, MaxIs DEF SizeOfVarint
  <2> HIDE DEF e, n
  <2>5. \A i \in 1..n : e[i] = IF i < n THEN g[i] + 128 ELSE g[i]
    BY <2>2
  <2>6. \A i \in 1..n : e[i] \in Byte
    BY <2>1, <2>3, <2>5, Ranges
  <2>7. e \in Octets /\ Len(e) = n
    <3>1. e = [i \in 1..n |-> e[i]]
      BY <2>2
    <3> QED BY <2>1, <2>6, <3>1, IsSeq DEF Octets
  <2>8. \A i \in 1..(n - 1) : e[i] >= 128
    BY <2>1, <2>3, <2>5
  <2>9. e[n] < 128
    BY <2>1, <2>3, <2>5
  <2> QED BY <2>1, <2>4, <2>7, <2>8, <2>9 DEF e
<1> QED BY <1>2, <1>3

\* What is written of a number is read as that number, whatever follows
\* (protohelpers.EncodeVarint and the loops of UnmarshalVT that read one).
THEOREM VarintRoundTrip ==
    ASSUME NEW g, Numeral(g), NEW tail \in Octets
    PROVE  ReadVarint(EncodeVarint(g) \o tail) = << [value |-> g, rest |-> tail] >>
<1> DEFINE e == EncodeVarint(g)
           b == e \o tail
           n == Len(e)
           ends == {i \in 1..Len(b) : i <= 10 /\ b[i] < 128}
           group(i) == IF i = 10 THEN b[i] % 2 ELSE b[i] % 128
           read == [i \in 1..n |-> group(i)]
<1>1. /\ e \in Octets /\ n = SizeOfVarint(g) /\ n \in Nat /\ 1 <= n /\ n <= 10
      /\ \A i \in 1..(n - 1) : e[i] >= 128
      /\ e[n] < 128
  BY VarintShape
<1>2. /\ b \in Octets /\ Len(b) = n + Len(tail) /\ Len(tail) \in Nat
      /\ \A i \in 1..n : b[i] = e[i]
      /\ After(b, n) = tail
  <2>1. e \in Seq(Byte) /\ tail \in Seq(Byte) /\ n \in Nat
    BY <1>1 DEF Octets
  <2> HIDE DEF e
  <2> QED BY <2>1, ConcatFact DEF Octets
<1>3. Min(ends) = n /\ ends # {}
  <2>1. n \in ends /\ ends \in SUBSET Int
    BY <1>1, <1>2
  <2>2. \A i \in ends : n <= i
    <3> SUFFICES ASSUME NEW i \in ends, i < n PROVE FALSE
      BY <1>1
    <3>1. i \in 1..(n - 1) /\ i \in 1..n /\ b[i] < 128
      BY <1>1
    <3>2. e[i] \in Byte /\ b[i] = e[i] /\ e[i] >= 128
      BY <1>1, <1>2, <3>1, ElementFact DEF Octets
    <3> QED BY <3>1, <3>2, Ranges
  <2> QED BY <2>1, <2>2, MinIs
<1>4. Canonical(read) = g
  <2>1. g \in Seq(Group) /\ Len(g) \in Nat /\ \A i \in 1..Len(g) : g[i] \in Group
    BY ElementFact DEF Numeral
  <2>2. CASE g = <<>>
    <3>1. e = <<0>> /\ n = 1
      BY <2>2 DEF EncodeVarint
    <3>2. read = <<0>>
      BY <1>2, <3>1
    <3>3. {0} \cup {i \in 1..Len(read) : read[i] # 0} = {0} /\ Max({0}) = 0
      <4>1. {0} \cup {i \in 1..Len(read) : read[i] # 0} = {0}
        BY <3>2
      <4>2. {0} \in SUBSET Int /\ 0 \in {0} /\ \A y \in {0} : y <= 0
        OBVIOUS
      <4> QED BY <4>1, <4>2, MaxIs
    <3>4. Cut(<<0>>, 0) = <<>>
      <4>1. Len(Cut(<<0>>, 0)) = 0 /\ Cut(<<0>>, 0) \in Seq(Int)
        <5>1. <<0>> \in Seq(Int) /\ 0 \in 0..Len(<<0>>)
          OBVIOUS
        <5> QED BY <5>1, CutFact
      <4> QED BY <4>1
    <3> QED BY <2>2, <3>2, <3>3, <3>4 DEF Canonical
  <2>3. CASE g # <<>>
    <3>1. n = Len(g) /\ \A i \in 1..n : e[i] = IF i < Len(g) THEN g[i] + 128 ELSE g[i]
      BY <2>1, <2>3 DEF EncodeVarint
    <3>2. ASSUME NEW i \in 1..n PROVE group(i) = g[i]
      <4>1. g[i] \in Group /\ b[i] = IF i < n THEN g[i] + 128 ELSE g[i]
        BY <1>2, <2>1, <3>1
      <4>2. CASE i = 10
        <5>1. g[i] = 1 /\ b[i] = 1
          BY <1>1, <3>1, <4>1, <4>2 DEF Numeral
        <5> QED BY <4>2, <5>1
      <4>3. CASE i # 10
        <5>1. g[i] % 128 = g[i] /\ (g[i] + 128) % 128 = g[i]
          BY <4>1, Ranges
        <5>2. b[i] % 128 = g[i]
          BY <4>1, <5>1
        <5> QED BY <4>3, <5>2
      <4> QED BY <4>2, <4>3
    <3>3. read \in Seq(Int) /\ Len(read) = n
      <4> HIDE DEF group
      <4>1. \A i \in 1..n : read[i] = g[i]
        BY <3>2
      <4>2. \A i \in 1..n : g[i] \in Int
        BY <2>1, <3>1, Ranges
      <4>3. n \in Nat
        BY <1>1
      <4> QED BY <4>1, <4>2, <4>3, IsSeq
    <3>4. read = g
      <4> HIDE DEF group
      <4>1. \A i \in 1..n : read[i] = g[i]
        BY <3>2
      <4>2. g \in Seq(Int)
        BY IntSeq DEF Numeral
      <4> QED BY <3>1, <3>3, <4>1, <4>2, SameSeq
    <3>5. g \in Seq(Int) /\ g[Len(g)] # 0
      BY <2>3, IntSeq DEF Numeral
    <3> QED BY <3>4, <3>5, CanonicalWhole
  <2> QED BY <2>2, <2>3
<1> QED BY <1>2, <1>3, <1>4 DEF ReadVarint

\* A number has a last byte; bytes that all say that there is a next one are
\* the start of no message.
LEMMA Unfinished ==
    ASSUME NEW b \in Octets, \A i \in 1..Len(b) : b[i] >= 128
    PROVE  ReadVarint(b) = <<>>
<1>1. {i \in 1..Len(b) : i <= 10 /\ b[i] < 128} = {}
  <2> SUFFICES ASSUME NEW i \in 1..Len(b), b[i] < 128 PROVE FALSE
    OBVIOUS
  <2>1. b[i] \in Byte /\ b[i] >= 128
    BY ElementFact DEF Octets
  <2> QED BY <2>1, Ranges
<1> QED BY <1>1 DEF ReadVarint

\* A number that has lost its end is refused (regatta_vtproto.pb.go: iNdEx >= l
\* in the loops of UnmarshalVT).
THEOREM VarintCut ==
    ASSUME NEW g, Numeral(g), NEW n \in 0..(Len(EncodeVarint(g)) - 1)
    PROVE  ReadVarint(Cut(EncodeVarint(g), n)) = <<>>
<1> DEFINE e == EncodeVarint(g)
           b == Cut(e, n)
<1>1. /\ e \in Seq(Byte) /\ Len(e) \in Nat /\ 1 <= Len(e) /\ Len(e) <= 10
      /\ \A i \in 1..(Len(e) - 1) : e[i] >= 128
  BY VarintShape DEF Octets
<1> HIDE DEF e
<1>2. n \in 0..Len(e) /\ n \in Nat /\ n < Len(e)
  BY <1>1 DEF e
<1>3. b \in Seq(Byte) /\ Len(b) = n /\ \A i \in 1..n : b[i] = e[i]
  BY <1>1, <1>2, CutFact
<1>4. \A i \in 1..Len(b) : b[i] >= 128
  BY <1>1, <1>2, <1>3
<1> QED BY <1>3, <1>4, Unfinished DEF Octets, e

\* The start of two sequences.
LEMMA CutConcat ==
    ASSUME NEW S, NEW a \in Seq(S), NEW b \in Seq(S), NEW n \in 0..(Len(a) + Len(b))
    PROVE  Cut(a \o b, n) = IF n < Len(a) THEN Cut(a, n) ELSE a \o Cut(b, n - Len(a))
<1>1. /\ a \o b \in Seq(S) /\ Len(a \o b) = Len(a) + Len(b)
      /\ \A i \in 1..Len(a) : (a \o b)[i] = a[i]
      /\ \A i \in 1..Len(b) : (a \o b)[Len(a) + i] = b[i]
      /\ Len(a) \in Nat /\ Len(b) \in Nat
  BY ConcatFact
<1>2. /\ Cut(a \o b, n) \in Seq(S) /\ Len(Cut(a \o b, n)) = n
      /\ \A i \in 1..n : Cut(a \o b, n)[i] = (a \o b)[i]
  <2>1. n \in 0..Len(a \o b)
    BY <1>1
  <2> QED BY <1>1, <2>1, CutFact
<1>3. CASE n < Len(a)
  <2>1. n \in 0..Len(a)
    BY <1>3
  <2>2. /\ Cut(a, n) \in Seq(S) /\ Len(Cut(a, n)) = n
        /\ \A i \in 1..n : Cut(a, n)[i] = a[i]
    BY <2>1, CutFact
  <2>3. \A i \in 1..n : Cut(a \o b, n)[i] = Cut(a, n)[i]
    BY <1>1, <1>2, <2>1, <2>2
  <2> QED BY <1>2, <1>3, <2>2, <2>3, SameSeq
<1>4. CASE n >= Len(a)
  <2> DEFINE k == n - Len(a)
  <2>1. k \in 0..Len(b) /\ n = Len(a) + k /\ k \in Nat
    BY <1>1, <1>4
  <2> HIDE DEF k
  <2>2. /\ Cut(b, k) \in Seq(S) /\ Len(Cut(b, k)) = k
        /\ \A i \in 1..k : Cut(b, k)[i] = b[i]
    BY <2>1, CutFact
  <2> DEFINE c == a \o Cut(b, k)
  <2>3. /\ c \in Seq(S) /\ Len(c) = n
        /\ \A i \in 1..Len(a) : c[i] = a[i]
        /\ \A i \in 1..k : c[Len(a) + i] = Cut(b, k)[i]
    BY <2>1, <2>2, ConcatFact
  <2> HIDE DEF c
  <2>4. ASSUME NEW i \in 1..n PROVE Cut(a \o b, n)[i] = c[i]
    <3>1. CASE i <= Len(a)
      <4>1. i \in 1..Len(a)
        BY <1>1, <3>1
      <4> QED BY <1>1, <1>2, <2>3, <4>1
    <3>2. CASE i > Len(a)
      <4> DEFINE j == i - Len(a)
      <4>1. j \in 1..k /\ j \in 1..Len(b) /\ i = Len(a) + j
        BY <1>1, <2>1, <3>2
      <4> HIDE DEF j
      <4> QED BY <1>1, <1>2, <2>2, <2>3, <4>1
    <3> QED BY <1>1, <3>1, <3>2
  <2>5. Cut(a \o b, n) = c
    BY <1>2, <2>3, <2>4, SameSeq
  <2> QED BY <1>1, <1>4, <2>5 DEF c, k
<1> QED BY <1>1, <1>3, <1>4

-------------------------------------------------------------------------------
(* Lengths and tags *)

\* Four groups, the first k of which count.
LEMMA FourGroups ==
    ASSUME NEW q, q \in Seq(Group), Len(q) = 4,
           NEW k \in 0..4, k = 0 \/ q[k] # 0, \A i \in (k+1)..4 : q[i] = 0
    PROVE  /\ Numeral(Canonical(q)) /\ Len(Canonical(q)) <= 4
           /\ Lowest(Canonical(q)) = q[1] + 128 * q[2] + 128 * 128 * q[3] + 128 * 128 * 128 * q[4]
<1> DEFINE T == {0} \cup {i \in 1..Len(q) : q[i] # 0}
           g == Cut(q, k)
<1>1. Max(T) = k
  <2>1. T \in SUBSET Int /\ k \in T /\ \A y \in T : y <= k
    OBVIOUS
  <2> QED BY <2>1, MaxIs
<1>2. Canonical(q) = g
  BY <1>1 DEF Canonical
<1>3. g \in Seq(Group) /\ Len(g) = k /\ \A i \in 1..k : g[i] = q[i]
  <2>1. q \in Seq(Group) /\ k \in 0..Len(q)
    OBVIOUS
  <2>2. Cut(q, k) \in Seq(Group) /\ Len(Cut(q, k)) = k /\ \A i \in 1..k : Cut(q, k)[i] = q[i]
    BY ONLY <2>1, CutFact
  <2> QED BY <2>2
<1>4. \A i \in 1..4 : (IF i <= k THEN g[i] ELSE 0) = q[i]
  BY <1>3
<1>5. Numeral(g)
  BY <1>3 DEF Numeral
<1>6. Lowest(g) = q[1] + 128 * q[2] + 128 * 128 * q[3] + 128 * 128 * 128 * q[4]
  BY <1>3, <1>4 DEF Lowest
<1> QED BY <1>2, <1>3, <1>5, <1>6

\* A length is read as it was written (regatta_vtproto.pb.go: the length in
\* front of bytes in MarshalToSizedBufferVT, byteLen in UnmarshalVT).
THEOREM LengthRoundTrip ==
    ASSUME NEW n \in Nat, n < Huge
    PROVE  /\ Numeral(Groups(n)) /\ Len(Groups(n)) <= 4
           /\ Lowest(Groups(n)) = n /\ Number(Groups(n)) = n
<1> DEFINE a == n % 128
           b == (n \div 128) % 128
           c == (n \div (128 * 128)) % 128
           d == (n \div (128 * 128 * 128)) % 128
           q == <<a, b, c, d>>
<1>1. n = a + 128 * b + 128 * 128 * c + 128 * 128 * 128 * d
  BY DEF Huge
<1>2. a \in Group /\ b \in Group /\ c \in Group /\ d \in Group
  BY Ranges
<1>3. Groups(n) = Canonical(q)
  BY DEF Groups
<1> HIDE DEF a, b, c, d
<1>4. q \in Seq(Group) /\ Len(q) = 4 /\ q[1] = a /\ q[2] = b /\ q[3] = c /\ q[4] = d
  BY <1>2
<1> HIDE DEF q
<1>5. \E k \in 0..4 : (k = 0 \/ q[k] # 0) /\ \A i \in (k+1)..4 : q[i] = 0
  <2>1. CASE q[4] # 0
    BY <2>1
  <2>2. CASE q[4] = 0 /\ q[3] # 0
    BY <2>2
  <2>3. CASE q[4] = 0 /\ q[3] = 0 /\ q[2] # 0
    BY <2>3
  <2>4. CASE q[4] = 0 /\ q[3] = 0 /\ q[2] = 0 /\ q[1] # 0
    BY <2>4
  <2>5. CASE q[4] = 0 /\ q[3] = 0 /\ q[2] = 0 /\ q[1] = 0
    BY <2>5
  <2> QED BY <2>1, <2>2, <2>3, <2>4, <2>5
<1>6. /\ Numeral(Canonical(q)) /\ Len(Canonical(q)) <= 4
      /\ Lowest(Canonical(q)) = n
  BY <1>1, <1>4, <1>5, FourGroups
<1> QED BY <1>3, <1>6 DEF Number

-------------------------------------------------------------------------------
(* Bytes with a length *)

\* The bytes of a length and what it counts.
LEMMA PrefixedShape ==
    ASSUME NEW b, Text(b)
    PROVE  LET e == EncodeVarint(Groups(Len(b)))
           IN  /\ e \in Octets /\ Len(e) = SizeOfVarint(Groups(Len(b)))
               /\ Len(e) \in Nat /\ 1 <= Len(e) /\ Len(e) <= 10
               /\ Prefixed(b) = e \o b /\ Prefixed(b) \in Octets
               /\ Len(Prefixed(b)) = Len(e) + Len(b)
<1>1. b \in Seq(Byte) /\ Len(b) \in Nat /\ Len(b) < Huge
  BY DEF Text, Octets
<1>2. Numeral(Groups(Len(b)))
  BY <1>1, LengthRoundTrip
<1> DEFINE e == EncodeVarint(Groups(Len(b)))
<1>3. /\ e \in Octets /\ Len(e) = SizeOfVarint(Groups(Len(b)))
      /\ Len(e) \in Nat /\ 1 <= Len(e) /\ Len(e) <= 10
  BY <1>2, VarintShape
<1>4. Prefixed(b) = e \o b
  BY DEF Prefixed
<1> HIDE DEF e
<1>5. e \o b \in Seq(Byte) /\ Len(e \o b) = Len(e) + Len(b)
  BY <1>1, <1>3, ConcatFact DEF Octets
<1> QED BY <1>3, <1>4, <1>5 DEF e, Octets

\* The length in front of bytes is read, whatever follows it.
LEMMA ReadLength ==
    ASSUME NEW b, Text(b), NEW tail \in Octets
    PROVE  LET len == [value |-> Groups(Len(b)), rest |-> tail]
           IN  /\ ReadVarint(EncodeVarint(Groups(Len(b))) \o tail) = <<len>>
               /\ Number(len.value) = Len(b)
<1>1. Len(b) \in Nat /\ Len(b) < Huge
  BY DEF Text, Octets
<1>2. Numeral(Groups(Len(b))) /\ Number(Groups(Len(b))) = Len(b)
  BY <1>1, LengthRoundTrip
<1> QED BY <1>2, VarintRoundTrip

\* Bytes with their length are read as they were written, whatever follows
\* (regatta_vtproto.pb.go: EncodeVarint and copy in MarshalToSizedBufferVT, the
\* cases of UnmarshalVT).
THEOREM BytesRoundTrip ==
    ASSUME NEW b, Text(b), NEW tail \in Octets
    PROVE  TakeBytes(Prefixed(b) \o tail) = << [value |-> b, rest |-> tail] >>
<1> DEFINE e == EncodeVarint(Groups(Len(b)))
           n == Len(b)
           after == b \o tail
<1>1. /\ e \in Octets /\ Prefixed(b) = e \o b
      /\ b \in Octets /\ n \in Nat
  BY PrefixedShape DEF Text, Octets
<1>2. /\ after \in Octets /\ Len(after) = n + Len(tail) /\ Len(tail) \in Nat
      /\ Cut(after, n) = b /\ After(after, n) = tail
  BY <1>1, ConcatFact DEF Octets
<1>3. Prefixed(b) \o tail = e \o after
  <2> HIDE DEF e
  <2> QED BY <1>1 DEF Octets
<1>4. /\ ReadVarint(e \o after) = << [value |-> Groups(n), rest |-> after] >>
      /\ Number(Groups(n)) = n
  BY <1>2, ReadLength
<1> HIDE DEF e, after
<1>5. ~ Beyond(n, after)
  BY <1>1, <1>2 DEF Beyond
<1> QED BY <1>2, <1>3, <1>4, <1>5 DEF TakeBytes, Then

\* Bytes that have lost their end are refused (regatta_vtproto.pb.go: postIndex
\* > l in UnmarshalVT).
THEOREM BytesCut ==
    ASSUME NEW b, Text(b), NEW n \in 0..(Len(Prefixed(b)) - 1)
    PROVE  TakeBytes(Cut(Prefixed(b), n)) = <<>>
<1> DEFINE e == EncodeVarint(Groups(Len(b)))
<1>1. /\ e \in Octets /\ Prefixed(b) = e \o b /\ Len(Prefixed(b)) = Len(e) + Len(b)
      /\ b \in Octets /\ Len(b) \in Nat /\ Len(e) \in Nat
  BY PrefixedShape DEF Text, Octets
<1>2. Numeral(Groups(Len(b)))
  BY <1>1, LengthRoundTrip DEF Text
<1>3. Cut(Prefixed(b), n) = IF n < Len(e) THEN Cut(e, n) ELSE e \o Cut(b, n - Len(e))
  <2> HIDE DEF e
  <2>1. n \in 0..(Len(e) + Len(b))
    BY <1>1
  <2> QED BY <1>1, <2>1, CutConcat DEF Octets
<1>4. CASE n < Len(e)
  <2>1. ReadVarint(Cut(e, n)) = <<>>
    BY <1>2, <1>4, VarintCut
  <2>2. Cut(Prefixed(b), n) = Cut(e, n)
    BY <1>1, <1>3, <1>4
  <2> QED BY <2>1, <2>2 DEF TakeBytes, Then
<1>5. CASE n >= Len(e)
  <2> DEFINE k == n - Len(e)
             short == Cut(b, k)
  <2>1. k \in 0..Len(b) /\ k < Len(b)
    BY <1>1, <1>5
  <2>2. short \in Octets /\ Len(short) = k
    BY <1>1, <2>1, CutFact DEF Octets
  <2>3. Cut(Prefixed(b), n) = e \o short
    BY <1>1, <1>3, <1>5
  <2>4. ReadVarint(e \o short) = << [value |-> Groups(Len(b)), rest |-> short] >>
        /\ Number(Groups(Len(b))) = Len(b)
    BY <2>2, ReadLength
  <2> HIDE DEF e, short
  <2>5. Beyond(Len(b), short)
    BY <1>1, <2>1, <2>2 DEF Beyond
  <2> QED BY <2>3, <2>4, <2>5 DEF TakeBytes, Then
<1> QED BY <1>1, <1>4, <1>5

-------------------------------------------------------------------------------
(* Fields *)

\* A tag is taken apart as it was put together.
LEMMA TagFact ==
    ASSUME NEW c, HasTag(c)
    PROVE  LET g == Groups(TagOf(c))
           IN  Numeral(g) /\ FieldNumber(g) = c.at /\ TagType(g) = WireType(c)
<1> DEFINE g == Groups(TagOf(c))
<1>1. WireType(c) \in {0, 2}
  BY DEF WireType
<1>2. TagOf(c) \in Nat /\ TagOf(c) < Huge
  <2> DEFINE at == c.at
             w == WireType(c)
  <2>1. at \in Nat /\ 8 * at + 7 < Huge /\ w \in {0, 2} /\ Huge \in Nat
    BY <1>1 DEF HasTag, Huge
  <2> HIDE DEF at, w
  <2>2. 8 * at + w \in Nat /\ 8 * at + w < Huge
    BY <2>1
  <2> QED BY <2>2 DEF TagOf, at, w
<1>3. Numeral(g) /\ Len(g) <= 4 /\ Lowest(g) = TagOf(c)
  BY <1>2, LengthRoundTrip
<1>4. Len(g) \in Nat
  BY <1>3 DEF Numeral
<1> HIDE DEF g
<1>5. FieldNumber(g) = TagOf(c) \div 8 /\ TagType(g) = TagOf(c) % 8
  BY <1>3, <1>4 DEF FieldNumber, TagType
<1>6. TagOf(c) \div 8 = c.at /\ TagOf(c) % 8 = WireType(c)
  <2> DEFINE at == c.at
             w == WireType(c)
  <2>1. at \in Nat /\ w \in {0, 2}
    BY <1>1 DEF HasTag
  <2> HIDE DEF at, w
  <2>2. (8 * at + w) \div 8 = at /\ (8 * at + w) % 8 = w
    BY <2>1
  <2> QED BY <2>2 DEF TagOf, at, w
<1> QED BY <1>3, <1>5, <1>6 DEF g

\* A payload is bytes, at least one, that are read as what was written.
LEMMA PayloadShape ==
    ASSUME NEW c, NEW x, IsValue(c, x)
    PROVE  Payload(c, x) \in Octets /\ Len(Payload(c, x)) \in Nat /\ Len(Payload(c, x)) > 0
<1>1. CASE IsNumber(c)
  <2>1. LET e == EncodeVarint(x)
        IN  e \in Octets /\ Len(e) \in Nat /\ 1 <= Len(e) /\ Len(e) <= 10
    BY <1>1, VarintShape DEF IsValue
  <2> QED BY <1>1, <2>1 DEF Payload
<1>2. CASE ~ IsNumber(c)
  <2>1. Len(x) \in Nat
    BY <1>2 DEF IsValue, Text, Octets
  <2> DEFINE n == Len(EncodeVarint(Groups(Len(x))))
             b == Prefixed(x)
  <2>2. b \in Octets /\ n \in Nat /\ 1 <= n /\ n <= 10 /\ Len(b) = n + Len(x)
    BY <1>2, PrefixedShape DEF IsValue
  <2>3. Payload(c, x) = b
    BY <1>2 DEF Payload
  <2> HIDE DEF n, b
  <2> QED BY <2>1, <2>2, <2>3
<1> QED BY <1>1, <1>2

\* It is read as what was written, whatever follows it,
LEMMA PayloadRead ==
    ASSUME NEW c, NEW x, IsValue(c, x), NEW tail \in Octets
    PROVE  ReadValue(c, Payload(c, x) \o tail) = << [value |-> x, rest |-> tail] >>
BY VarintRoundTrip, BytesRoundTrip DEF IsValue, Payload, ReadValue

\* and is refused when its end is missing.
LEMMA PayloadCut ==
    ASSUME NEW c, NEW x, IsValue(c, x), NEW n \in 0..(Len(Payload(c, x)) - 1)
    PROVE  ReadValue(c, Cut(Payload(c, x), n)) = <<>>
BY VarintCut, BytesCut DEF IsValue, Payload, ReadValue

\* A field is its tag, its payload and what follows.
LEMMA FieldParts ==
    ASSUME NEW row, NEW c, SameTag(row, c), NEW x, IsValue(c, x), NEW tail \in Octets
    PROVE  LET e == EncodeVarint(Groups(TagOf(c)))
               p == Payload(c, x)
           IN  /\ e \in Octets /\ Len(e) \in Nat /\ Len(e) > 0
               /\ Tagged(row, p) = e \o p /\ Tagged(row, p) \in Octets
               /\ Len(Tagged(row, p)) = Len(e) + Len(p)
               /\ Tagged(row, p) \o tail = e \o (p \o tail)
               /\ p \o tail \in Octets /\ Len(p \o tail) = Len(p) + Len(tail)
               /\ Cut(Tagged(row, p) \o tail, Len(e) + Len(p)) = Tagged(row, p)
               /\ After(Tagged(row, p) \o tail, Len(e) + Len(p)) = tail
<1> DEFINE e == EncodeVarint(Groups(TagOf(c)))
           p == Payload(c, x)
           f == Tagged(row, p)
<1>1. e \in Seq(Byte) /\ Len(e) \in Nat /\ Len(e) > 0
  <2>1. Numeral(Groups(TagOf(c)))
    BY TagFact DEF SameTag
  <2>2. e \in Seq(Byte) /\ Len(e) \in Nat /\ 1 <= Len(e) /\ Len(e) <= 10
    BY <2>1, VarintShape DEF Octets
  <2> HIDE DEF e
  <2> QED BY <2>2
<1>2. p \in Seq(Byte) /\ tail \in Seq(Byte)
  BY PayloadShape DEF Octets
<1>3. f = e \o p
  <2>1. e = <<row.at>> \o row.more /\ row.at \in Byte /\ row.more \in Seq(Byte)
    BY DEF SameTag, Octets
  <2> HIDE DEF e, p
  <2> QED BY <1>2, <2>1 DEF Tagged
<1> HIDE DEF e, p, f
<1>4. f \in Seq(Byte) /\ Len(f) = Len(e) + Len(p)
  BY <1>1, <1>2, <1>3, ConcatFact
<1>5. f \o tail = e \o (p \o tail)
  BY <1>1, <1>2, <1>3
<1>6. p \o tail \in Seq(Byte) /\ Len(p \o tail) = Len(p) + Len(tail)
  BY <1>2, ConcatFact
<1>7. Cut(f \o tail, Len(f)) = f /\ After(f \o tail, Len(f)) = tail
  BY <1>2, <1>4, ConcatFact
<1> QED BY <1>1, <1>3, <1>4, <1>5, <1>6, <1>7 DEF e, p, f, Octets

\* A field that is given to a reader who knows it: the value that was written,
\* and what follows it (regatta_vtproto.pb.go: a field of MarshalToSizedBufferVT
\* and its case in UnmarshalVT).
THEOREM FieldRoundTrip ==
    ASSUME NEW cases, NEW c \in cases, \A d \in cases : d.at = c.at => d = c,
           NEW row, SameTag(row, c), NEW x, IsValue(c, x), NEW tail \in Octets
    PROVE  NextField(cases, Tagged(row, Payload(c, x)) \o tail)
                = << [case |-> {c}, value |-> x, rest |-> tail] >>
<1> DEFINE g == Groups(TagOf(c))
           e == EncodeVarint(g)
           after == Payload(c, x) \o tail
           b == Tagged(row, Payload(c, x)) \o tail
<1>1. HasTag(c)
  BY DEF SameTag
<1>2. Numeral(g) /\ FieldNumber(g) = c.at /\ TagType(g) = WireType(c)
  BY <1>1, TagFact
<1>3. b = e \o after /\ after \in Octets
  <2>1. after \in Octets
    <3>1. Payload(c, x) \in Octets
      BY PayloadShape
    <3> QED BY <3>1 DEF Octets
  <2>2. Tagged(row, Payload(c, x)) \o tail = e \o (Payload(c, x) \o tail)
    BY FieldParts
  <2> QED BY <2>1, <2>2, Zenon DEF b, after
<1>4. ReadVarint(b) = << [value |-> g, rest |-> after] >>
  BY <1>2, <1>3, VarintRoundTrip
<1>5. CasesFor(cases, g) = {c} /\ CaseFor(cases, g) = c
  <2>1. CasesFor(cases, g) = {c}
    BY <1>2 DEF CasesFor
  <2> QED BY <2>1 DEF CaseFor
<1>6. ReadValue(c, after) = << [value |-> x, rest |-> tail] >>
  BY PayloadRead
<1>7. ~ (WireType(c) = 4 \/ c.at <= 0)
  BY <1>1 DEF WireType, HasTag
<1>8. NextField(cases, b) = KnownField(c, g, after)
  <2> HIDE DEF g, e, after, b
  <2> QED BY <1>2, <1>4, <1>5, <1>7 DEF NextField, Then
<1>9. KnownField(c, g, after) = << [case |-> {c}, value |-> x, rest |-> tail] >>
  <2> HIDE DEF g, e, after, b
  <2> QED BY <1>2, <1>6 DEF KnownField, Then
<1> QED BY <1>8, <1>9, Zenon

\* A field is skipped to its end.
LEMMA SkipField ==
    ASSUME NEW row, NEW c, SameTag(row, c), NEW x, IsValue(c, x), NEW tail \in Octets
    PROVE  LET f == Tagged(row, Payload(c, x))
           IN  Skip(f \o tail) = <<Len(f)>>
<1> DEFINE g == Groups(TagOf(c))
           e == EncodeVarint(g)
           p == Payload(c, x)
           f == Tagged(row, p)
           b == f \o tail
           after == p \o tail
<1>1. /\ b = e \o after /\ after \in Octets /\ Len(after) = Len(p) + Len(tail)
      /\ e \in Octets /\ Len(e) \in Nat /\ Len(f) = Len(e) + Len(p)
  <2>1. b = e \o after
    BY FieldParts
  <2>3. after \in Octets /\ Len(after) = Len(p) + Len(tail)
    <3>1. p \in Seq(Byte) /\ tail \in Seq(Byte)
      BY PayloadShape DEF Octets
    <3> HIDE DEF p
    <3> QED BY <3>1, ConcatFact DEF Octets
  <2>2. e \in Octets /\ Len(e) \in Nat /\ Len(f) = Len(e) + Len(p)
    BY FieldParts
  <2> QED BY <2>1, <2>2, <2>3
<1>2. Numeral(g) /\ TagType(g) = WireType(c)
  BY TagFact DEF SameTag
<1>3. ReadVarint(b) = << [value |-> g, rest |-> after] >>
  BY <1>1, <1>2, VarintRoundTrip
<1>4. Len(p) \in Nat /\ Len(tail) \in Nat
  BY PayloadShape DEF Octets
<1>5. Len(b) = Len(e) + Len(after)
  <2> HIDE DEF e, after
  <2>1. e \in Seq(Byte) /\ after \in Seq(Byte) /\ b = e \o after
    BY <1>1 DEF Octets
  <2> HIDE DEF b
  <2> QED BY <2>1, ConcatFact
<1>6. CASE IsNumber(c)
  <2>1. ReadVarint(after) = << [value |-> x, rest |-> tail] >>
    BY <1>6, PayloadRead DEF ReadValue
  <2>2. TagType(g) = 0
    BY <1>2, <1>6 DEF WireType
  <2> HIDE DEF b, g, after, e, p, f
  <2>3. Skip(b) = <<Len(b) - Len(tail)>>
    BY <1>3, <2>1, <2>2 DEF Skip, Then
  <2> QED BY <1>1, <1>4, <1>5, <2>3 DEF b, f, p
<1>7. CASE ~ IsNumber(c)
  <2> DEFINE inner == x \o tail
             len == Groups(Len(x))
  <2>1. Text(x) /\ x \in Seq(Byte) /\ Len(x) \in Nat
    BY <1>7 DEF IsValue, Text, Octets
  <2>2. inner \in Octets /\ Len(inner) = Len(x) + Len(tail)
    BY <2>1, ConcatFact DEF Octets
  <2>3. after = EncodeVarint(len) \o inner
    <3> DEFINE l == EncodeVarint(len)
    <3>1. l \in Seq(Byte) /\ p = l \o x
      BY <1>7, <2>1, PrefixedShape DEF Payload, Octets
    <3> HIDE DEF l, p
    <3> QED BY <2>1, <3>1 DEF Octets, l
  <2>4. ReadVarint(after) = << [value |-> len, rest |-> inner] >> /\ Number(len) = Len(x)
    BY <2>1, <2>2, <2>3, ReadLength
  <2>5. TagType(g) = 2
    BY <1>2, <1>7 DEF WireType
  <2> HIDE DEF b, g, after, e, p, f, inner, len
  <2>6. Skip(b) = <<Len(b) - Len(inner) + Number(len)>>
    BY <1>3, <2>4, <2>5 DEF Skip, Then
  <2>7. Len(b) - Len(inner) + Number(len) = Len(f)
    BY <1>1, <1>4, <1>5, <2>1, <2>2, <2>4
  <2> QED BY <2>6, <2>7 DEF b, f, p
<1> QED BY <1>6, <1>7

\* A field that is given to a reader who has no case for it is kept byte for
\* byte (regatta_vtproto.pb.go: the default case of UnmarshalVT).
THEOREM UnknownFieldKept ==
    ASSUME NEW row, NEW c, SameTag(row, c), NEW x, IsValue(c, x), NEW tail \in Octets,
           NEW cases, \A d \in cases : d.at # c.at
    PROVE  LET f == Tagged(row, Payload(c, x))
           IN  NextField(cases, f \o tail) = << [case |-> {}, value |-> f, rest |-> tail] >>
<1> DEFINE g == Groups(TagOf(c))
           p == Payload(c, x)
           f == Tagged(row, p)
           b == f \o tail
           after == p \o tail
<1>1. HasTag(c)
  BY DEF SameTag
<1>2. Numeral(g) /\ FieldNumber(g) = c.at /\ TagType(g) = WireType(c)
  BY <1>1, TagFact
<1>3. b = EncodeVarint(g) \o after /\ after \in Octets
  BY FieldParts
<1>4. ReadVarint(b) = << [value |-> g, rest |-> after] >>
  BY <1>2, <1>3, VarintRoundTrip
<1>5. CasesFor(cases, g) = {}
  BY <1>2 DEF CasesFor
<1>6. ~ (WireType(c) = 4 \/ c.at <= 0)
  BY <1>1 DEF WireType, HasTag
<1>7. Skip(b) = <<Len(f)>>
  BY SkipField
<1>8. f \in Seq(Byte) /\ tail \in Seq(Byte)
  BY FieldParts DEF Octets
<1>9. Cut(b, Len(f)) = f /\ After(b, Len(f)) = tail /\ ~ Beyond(Len(f), b)
  <2> HIDE DEF f
  <2>1. Cut(b, Len(f)) = f /\ After(b, Len(f)) = tail /\ Len(b) = Len(f) + Len(tail)
    BY <1>8, ConcatFact
  <2>2. Len(f) \in Nat /\ Len(tail) \in Nat
    BY <1>8
  <2> HIDE DEF b
  <2> QED BY <2>1, <2>2 DEF Beyond
<1> HIDE DEF b, f, g, after, p
<1>10. NextField(cases, b) = SkippedField(b)
  BY <1>2, <1>4, <1>5, <1>6 DEF NextField, Then
<1>11. SkippedField(b) = << [case |-> {}, value |-> f, rest |-> tail] >>
  <2> DEFINE n == Len(f)
  <2>1. Skip(b) = <<n>> /\ Cut(b, n) = f /\ After(b, n) = tail /\ ~ Beyond(n, b)
    BY <1>7, <1>9
  <2> HIDE DEF n
  <2> QED BY <2>1 DEF SkippedField, Then
<1> QED BY <1>10, <1>11 DEF b, f, p

\* A field that has lost its end is refused, whatever the reader knows
\* (regatta_vtproto.pb.go: io.ErrUnexpectedEOF in UnmarshalVT).
THEOREM FieldCut ==
    ASSUME NEW row, NEW c, SameTag(row, c), NEW x, IsValue(c, x), NEW cases,
           NEW n \in 0..(Len(Tagged(row, Payload(c, x))) - 1)
    PROVE  NextField(cases, Cut(Tagged(row, Payload(c, x)), n)) = <<>>
<1> DEFINE g == Groups(TagOf(c))
           e == EncodeVarint(g)
           p == Payload(c, x)
           f == Tagged(row, p)
           b == Cut(f, n)
<1>1. Numeral(g) /\ FieldNumber(g) = c.at /\ TagType(g) = WireType(c)
  BY TagFact DEF SameTag
<1>2. /\ e \in Octets /\ Len(e) \in Nat /\ f = e \o p /\ Len(f) = Len(e) + Len(p)
      /\ f \in Octets
  <2>1. <<>> \in Octets
    BY DEF Octets
  <2> QED BY <2>1, FieldParts
<1>3. p \in Octets /\ Len(p) \in Nat
  BY PayloadShape
<1> HIDE DEF e, f, p
<1>4. n \in Nat /\ n < Len(e) + Len(p) /\ n \in 0..(Len(e) + Len(p))
  BY <1>2, <1>3 DEF f, p
<1>5. b = IF n < Len(e) THEN Cut(e, n) ELSE e \o Cut(p, n - Len(e))
  BY <1>2, <1>3, <1>4, CutConcat DEF Octets
<1>6. CASE n < Len(e)
  <2>1. ReadVarint(Cut(e, n)) = <<>>
    <3>1. n \in 0..(Len(e) - 1)
      BY <1>2, <1>4, <1>6
    <3> QED BY <1>1, <3>1, VarintCut DEF e
  <2> QED BY <1>5, <1>6, <2>1 DEF NextField, Then, f, p
<1>7. CASE n >= Len(e)
  <2> DEFINE k == n - Len(e)
             short == Cut(p, k)
  <2>1. k \in 0..(Len(p) - 1) /\ k \in Nat /\ k \in 0..Len(p)
    BY <1>2, <1>3, <1>4, <1>7
  <2>2. short \in Octets /\ Len(short) = k
    BY <1>3, <2>1, CutFact DEF Octets
  <2>3. b = e \o short
    BY <1>2, <1>4, <1>5, <1>7
  <2>4. ReadVarint(b) = << [value |-> g, rest |-> short] >>
    BY <1>1, <2>2, <2>3, VarintRoundTrip DEF e
  <2>5. ReadValue(c, short) = <<>>
    BY <2>1, PayloadCut DEF p
  <2>6. Len(b) = Len(e) + k
    <3> HIDE DEF short, b
    <3>1. e \in Seq(Byte) /\ short \in Seq(Byte)
      BY <1>2, <2>2 DEF Octets
    <3> QED BY <2>2, <2>3, <3>1, ConcatFact
  <2>7. SkippedField(b) = <<>>
    <3>1. CASE IsNumber(c)
      <4>1. ReadVarint(short) = <<>> /\ TagType(g) = 0
        BY <1>1, <2>5, <3>1 DEF ReadValue, WireType
      <4> HIDE DEF b, g, short
      <4>2. Skip(b) = <<>>
        BY <2>4, <4>1 DEF Skip, Then
      <4> QED BY <4>2 DEF SkippedField, Then
    <3>2. CASE ~ IsNumber(c)
      <4>1. TagType(g) = 2
        BY <1>1, <3>2 DEF WireType
      <4>2. Text(x) /\ Len(x) \in Nat /\ p = Prefixed(x)
        BY <3>2 DEF IsValue, Text, Octets, Payload, p
      <4>3. CASE ReadVarint(short) = <<>>
        <5> HIDE DEF b, g, short
        <5>1. Skip(b) = <<>>
          BY <2>4, <4>1, <4>3 DEF Skip, Then
        <5> QED BY <5>1 DEF SkippedField, Then
      <4>4. CASE ReadVarint(short) # <<>>
        <5> DEFINE l == EncodeVarint(Groups(Len(x)))
                   inner == Cut(x, k - Len(l))
        <5>1. /\ l \in Octets /\ p = l \o x /\ Len(p) = Len(l) + Len(x)
              /\ Len(l) \in Nat /\ x \in Octets
          BY <4>2, PrefixedShape DEF Text, Octets
        <5>2. Numeral(Groups(Len(x)))
          BY <4>2, LengthRoundTrip DEF Text
        <5>3. short = IF k < Len(l) THEN Cut(l, k) ELSE l \o Cut(x, k - Len(l))
          <6> HIDE DEF l
          <6>1. k \in 0..(Len(l) + Len(x))
            BY <2>1, <5>1
          <6> HIDE DEF k
          <6> QED BY <5>1, <6>1, CutConcat DEF Octets
        <5>4. k >= Len(l)
          <6> SUFFICES ASSUME k < Len(l) PROVE FALSE
            BY <2>1, <5>1
          <6>1. k \in 0..(Len(l) - 1)
            BY <2>1, <5>1
          <6>2. ReadVarint(Cut(l, k)) = <<>>
            BY <5>2, <6>1, VarintCut
          <6> QED BY <4>4, <5>3, <6>2
        <5>5. k - Len(l) \in 0..Len(x) /\ k - Len(l) < Len(x)
          BY <2>1, <4>2, <5>1, <5>4
        <5>6. inner \in Octets /\ Len(inner) = k - Len(l)
          BY <5>1, <5>5, CutFact DEF Octets
        <5>7. short = l \o inner
          <6> HIDE DEF l, k, short
          <6> QED BY <2>1, <5>1, <5>3, <5>4
        <5>8. /\ ReadVarint(short) = << [value |-> Groups(Len(x)), rest |-> inner] >>
              /\ Number(Groups(Len(x))) = Len(x)
          BY <4>2, <5>6, <5>7, ReadLength
        <5> DEFINE len == Groups(Len(x))
        <5> HIDE DEF b, g, short, inner, len, l
        <5>9. Skip(b) = <<Len(b) - Len(inner) + Number(len)>>
          BY <2>4, <4>1, <5>8 DEF Skip, Then, len
        <5>10. Len(b) - Len(inner) + Number(len) > Len(b)
          <6> HIDE DEF k
          <6> QED BY <1>2, <2>1, <2>6, <4>2, <5>1, <5>5, <5>6, <5>8 DEF len
        <5> QED BY <5>9, <5>10 DEF SkippedField, Then, Beyond
      <4> QED BY <4>3, <4>4
    <3> QED BY <3>1, <3>2
  <2>8. \A d : KnownField(d, g, short) = <<>>
    <3> TAKE d
    <3>1. CASE WireType(d) = WireType(c)
      <4>1. IsNumber(d) <=> IsNumber(c)
        BY <3>1 DEF WireType
      <4>2. ReadValue(d, short) = <<>>
        BY <2>5, <4>1 DEF ReadValue
      <4> QED BY <4>2 DEF KnownField, Then
    <3>2. CASE WireType(d) # WireType(c)
      BY <1>1, <3>2 DEF KnownField
    <3> QED BY <3>1, <3>2
  <2> HIDE DEF b, g, short
  <2>9. NextField(cases, b) = <<>>
    BY <2>4, <2>7, <2>8 DEF NextField, Then
  <2> QED BY <2>9 DEF b, f, p
<1> QED BY <1>2, <1>4, <1>6, <1>7

\* A field takes as many bytes as are counted for it: those of its tag, and
\* those of the number or of the bytes and their length (regatta_vtproto.pb.go:
\* SizeVT and MarshalToSizedBufferVT).
THEOREM FieldSize ==
    ASSUME NEW row, NEW c, SameTag(row, c), NEW x, IsValue(c, x)
    PROVE  Len(Tagged(row, Payload(c, x))) = Len(<<row.at>> \o row.more) +
              IF IsNumber(c) THEN SizeOfVarint(x) ELSE SizeOfPrefixed(Len(x))
<1> DEFINE e == EncodeVarint(Groups(TagOf(c)))
           p == Payload(c, x)
<1>1. e = <<row.at>> \o row.more
  BY DEF SameTag
<1>2. Len(Tagged(row, p)) = Len(e) + Len(p)
  <2>1. <<>> \in Octets
    BY DEF Octets
  <2> QED BY <2>1, FieldParts
<1>3. Len(p) = IF IsNumber(c) THEN SizeOfVarint(x) ELSE SizeOfPrefixed(Len(x))
  <2>1. CASE IsNumber(c)
    BY <2>1, VarintShape DEF IsValue, Payload
  <2>2. CASE ~ IsNumber(c)
    <3> DEFINE n == SizeOfVarint(Groups(Len(x)))
    <3>1. Text(x) /\ Len(x) \in Nat
      BY <2>2 DEF IsValue, Text, Octets
    <3>2. Len(Prefixed(x)) = n + Len(x) /\ n \in Nat
      BY <3>1, PrefixedShape
    <3> HIDE DEF n
    <3>3. Len(Prefixed(x)) = Len(x) + n
      BY <3>1, <3>2
    <3> QED BY <2>2, <3>3 DEF Payload, SizeOfPrefixed, n
  <2> QED BY <2>1, <2>2
<1> HIDE DEF e, p
<1> QED BY <1>1, <1>2, <1>3 DEF p

\* Every non-empty set of naturals has a least member.
LEMMA LeastNatural ==
    ASSUME NEW T \in SUBSET Nat, T # {}
    PROVE  \E m \in T : \A n \in T : m <= n
<1>1. PICK m \in T : \A n \in T : ~ (<<n, m>> \in OpToRel(<, Nat))
  BY WFMin, NatLessThanWellFounded
<1>2. \A n \in T : ~ (n < m)
  BY <1>1 DEF OpToRel
<1> QED BY <1>2

-------------------------------------------------------------------------------
(* Sequences of bytes one after another *)

\* What the library's FlattenSeq is defined by, for the first n sequences.
IsFlatten(f, seqs, n) ==
    f = [i \in 1..n |-> IF i = 1 THEN seqs[i] ELSE f[i-1] \o seqs[i]]

\* Any sequences can be put together.
LEMMA FlattenExists ==
    ASSUME NEW seqs, NEW n \in Nat
    PROVE  \E f : IsFlatten(f, seqs, n)
<1> DEFINE T == {m \in Nat : ~ \E f : IsFlatten(f, seqs, m)}
<1> SUFFICES ASSUME T # {} PROVE FALSE
  OBVIOUS
<1>1. PICK m \in T : \A k \in T : m <= k
  BY LeastNatural
<1>2. CASE m = 0
  <2>1. IsFlatten([i \in 1..0 |-> <<>>], seqs, 0)
    BY DEF IsFlatten
  <2> QED BY <1>2, <2>1
<1>3. CASE m # 0
  <2>1. m \in Nat /\ m - 1 \in Nat /\ m - 1 \notin T
    BY <1>1, <1>3
  <2>2. PICK old : IsFlatten(old, seqs, m - 1)
    BY <2>1
  <2> DEFINE new == [i \in 1..m |-> IF i = 1 THEN seqs[i] ELSE old[i-1] \o seqs[i]]
  <2>3. ASSUME NEW i \in 1..(m-1) PROVE i \in 1..m /\ new[i] = old[i]
    <3>1. i \in 1..m
      BY <2>1
    <3>2. old[i] = IF i = 1 THEN seqs[i] ELSE old[i-1] \o seqs[i]
      BY <2>2 DEF IsFlatten
    <3> QED BY <3>1, <3>2
  <2>4. \A i \in 1..m : i # 1 => i - 1 \in 1..(m-1)
    BY <2>1
  <2>5. new = [i \in 1..m |-> IF i = 1 THEN seqs[i] ELSE new[i-1] \o seqs[i]]
    BY <2>3, <2>4
  <2> QED BY <2>5 DEF IsFlatten
<1> QED BY <1>2, <1>3

\* The sequences are put together one by one.
LEMMA FlattenFact ==
    ASSUME NEW S, NEW n \in Nat, NEW seqs \in [1..n -> Seq(S)]
    PROVE  \E f \in [0..n -> Seq(S)] :
              /\ f[0] = <<>>
              /\ \A i \in 1..n : f[i] = f[i-1] \o seqs[i]
              /\ FlattenSeq(seqs) = f[n]
<1>1. PICK g : g = CHOOSE f : IsFlatten(f, seqs, n)
  OBVIOUS
<1>2. IsFlatten(g, seqs, n)
  BY <1>1, FlattenExists
<1>3. Len(seqs) = n
  OBVIOUS
<1>4. n # 0 => FlattenSeq(seqs) = g[n]
  BY <1>1, <1>3 DEF FlattenSeq, IsFlatten
<1>5. n = 0 => FlattenSeq(seqs) = <<>>
  <2>1. n = 0 => seqs = <<>>
    OBVIOUS
  <2> QED BY <1>3, <2>1 DEF FlattenSeq
<1>6. \A i \in 1..n : g[i] \in Seq(S)
  <2> DEFINE T == {i \in 1..n : g[i] \notin Seq(S)}
  <2> SUFFICES ASSUME T # {} PROVE FALSE
    OBVIOUS
  <2>1. T \in SUBSET Nat
    OBVIOUS
  <2>2. PICK m \in T : \A k \in T : m <= k
    BY <2>1, LeastNatural
  <2>3. m \in 1..n /\ seqs[m] \in Seq(S)
    OBVIOUS
  <2>4. CASE m = 1
    BY <1>2, <2>2, <2>3, <2>4 DEF IsFlatten
  <2>5. CASE m # 1
    <3>1. m - 1 \in 1..n /\ m - 1 \notin T
      BY <2>2, <2>3, <2>5
    <3>2. g[m-1] \in Seq(S)
      BY <3>1
    <3>3. g[m] = g[m-1] \o seqs[m]
      BY <1>2, <2>3, <2>5 DEF IsFlatten
    <3>4. g[m-1] \o seqs[m] \in Seq(S)
      BY <2>3, <3>2, ConcatFact
    <3>5. m \in T
      BY <2>2
    <3> QED BY <3>3, <3>4, <3>5
  <2> QED BY <2>4, <2>5
<1> DEFINE h == [i \in 0..n |-> IF i = 0 THEN <<>> ELSE g[i]]
<1>7. h \in [0..n -> Seq(S)]
  BY <1>6
<1>8. ASSUME NEW i \in 1..n PROVE h[i] = h[i-1] \o seqs[i]
  <2>1. CASE i = 1
    <3>1. h[i] = seqs[i] /\ h[i-1] = <<>>
      BY <1>2, <2>1 DEF IsFlatten
    <3>2. seqs[i] \in Seq(S)
      OBVIOUS
    <3>3. <<>> \o seqs[i] = seqs[i]
      BY ONLY <3>2
    <3> HIDE DEF h
    <3> QED BY ONLY <3>1, <3>3
  <2>2. CASE i # 1
    <3>1. i \in 0..n /\ i - 1 \in 0..n /\ i # 0 /\ i - 1 # 0
      BY <2>2
    <3>2. h[i] = g[i] /\ h[i-1] = g[i-1]
      BY <3>1
    <3>3. g[i] = g[i-1] \o seqs[i]
      BY <1>2, <2>2 DEF IsFlatten
    <3> QED BY <3>2, <3>3
  <2> QED BY <2>1, <2>2
<1>9. h[0] = <<>> /\ FlattenSeq(seqs) = h[n]
  BY <1>4, <1>5
<1> HIDE DEF h
<1> QED BY <1>7, <1>8, <1>9
-------------------------------------------------------------------------------
(* The loops of UnmarshalVT *)

\* A step of the loop over the fields of a message, and of that over the parts
\* of an entry of a map; what is the cases of the message, or that of the map.
Message(cases) == [kind |-> "Message", cases |-> cases]
Step(what, s) == IF what.kind = "MapOf" THEN EntryField(what, s) ELSE ReadInto(what.cases, s)

\* A turn of the loop: nothing is left to do at the end of the input.
Turn(what, r) == Then(r, LAMBDA s : IF s.rest = <<>> THEN <<s>> ELSE Step(what, s))

\* What a loop is defined by, from state s on.
IsLoop(f, what, s, D) == f = [k \in D |-> IF k = 0 THEN <<s>> ELSE Turn(what, f[k-1])]

Loop(what, s) == CHOOSE f : IsLoop(f, what, s, Nat)

\* Every number of turns can be made,
LEMMA LoopUpTo ==
    ASSUME NEW what, NEW s, NEW n \in Nat
    PROVE  \E f : IsLoop(f, what, s, 0..n)
<1> DEFINE T == {m \in Nat : ~ \E f : IsLoop(f, what, s, 0..m)}
<1> SUFFICES ASSUME T # {} PROVE FALSE
  OBVIOUS
<1>1. PICK m \in T : \A k \in T : m <= k
  BY LeastNatural
<1>2. CASE m = 0
  <2>1. IsLoop([k \in 0..0 |-> <<s>>], what, s, 0..0)
    BY DEF IsLoop
  <2> QED BY <1>2, <2>1
<1>3. CASE m # 0
  <2>1. m \in Nat /\ m - 1 \in Nat /\ m - 1 \notin T
    BY <1>1, <1>3
  <2>2. PICK old : IsLoop(old, what, s, 0..(m-1))
    BY <2>1
  <2> DEFINE new == [k \in 0..m |-> IF k = 0 THEN <<s>> ELSE Turn(what, old[k-1])]
  <2>3. ASSUME NEW k \in 0..(m-1) PROVE k \in 0..m /\ new[k] = old[k]
    <3>1. k \in 0..m
      BY <2>1
    <3>2. old[k] = IF k = 0 THEN <<s>> ELSE Turn(what, old[k-1])
      BY <2>2 DEF IsLoop
    <3> QED BY <3>1, <3>2
  <2>4. \A k \in 0..m : k # 0 => k - 1 \in 0..(m-1)
    BY <2>1
  <2>5. new = [k \in 0..m |-> IF k = 0 THEN <<s>> ELSE Turn(what, new[k-1])]
    BY <2>3, <2>4
  <2> QED BY <2>5 DEF IsLoop
<1> QED BY <1>2, <1>3

\* and two such loops agree on the turns that both have.
Covers(D, m) == 0..m \subseteq D

\* and two such loops agree on the turns that both have.
LEMMA LoopAgrees ==
    ASSUME NEW what, NEW s, NEW m \in Nat, NEW D, NEW E, Covers(D, m), Covers(E, m),
           NEW f, IsLoop(f, what, s, D), NEW g, IsLoop(g, what, s, E)
    PROVE  \A k \in 0..m : f[k] = g[k]
<1> DEFINE T == {k \in 0..m : f[k] # g[k]}
<1> SUFFICES ASSUME T # {} PROVE FALSE
  OBVIOUS
<1>1. PICK k \in T : \A j \in T : k <= j
  <2>1. T \in SUBSET Nat
    OBVIOUS
  <2> QED BY <2>1, LeastNatural
<1>2. k \in 0..m /\ k \in D /\ k \in E
  BY DEF Covers
<1>3. /\ f[k] = IF k = 0 THEN <<s>> ELSE Turn(what, f[k-1])
      /\ g[k] = IF k = 0 THEN <<s>> ELSE Turn(what, g[k-1])
  BY <1>2 DEF IsLoop
<1>4. k # 0 => f[k-1] = g[k-1]
  <2> HAVE k # 0
  <2>1. k - 1 \in 0..m /\ k - 1 \notin T
    BY <1>1, <1>2
  <2> QED BY <2>1
<1> QED BY <1>3, <1>4

\* So the equation of the loop has a solution.
LEMMA LoopExists ==
    ASSUME NEW what, NEW s
    PROVE  IsLoop(Loop(what, s), what, s, Nat)
<1> DEFINE part(n) == CHOOSE f : IsLoop(f, what, s, 0..n)
           whole == [n \in Nat |-> part(n)[n]]
<1>1. \A n \in Nat : IsLoop(part(n), what, s, 0..n)
  BY LoopUpTo
<1> HIDE DEF part
<1>2. ASSUME NEW n \in Nat PROVE whole[n] = IF n = 0 THEN <<s>> ELSE Turn(what, whole[n-1])
  <2>1. part(n)[n] = IF n = 0 THEN <<s>> ELSE Turn(what, part(n)[n-1])
    BY <1>1 DEF IsLoop
  <2>2. n # 0 => part(n)[n-1] = part(n-1)[n-1]
    <3> HAVE n # 0
    <3>1. n - 1 \in Nat /\ n - 1 <= n /\ n - 1 \in 0..(n-1)
      OBVIOUS
    <3>2. IsLoop(part(n-1), what, s, 0..(n-1)) /\ IsLoop(part(n), what, s, 0..n)
      BY <1>1, <3>1
    <3>3. Covers(0..n, n - 1) /\ Covers(0..(n-1), n - 1)
      BY <3>1 DEF Covers
    <3>4. \A k \in 0..(n-1) : part(n-1)[k] = part(n)[k]
      <4> DEFINE p == n - 1
                 f == part(p)
                 g == part(n)
      <4>1. p \in Nat /\ Covers(0..n, p) /\ Covers(0..p, p)
            /\ IsLoop(f, what, s, 0..p) /\ IsLoop(g, what, s, 0..n)
        BY <3>1, <3>2, <3>3
      <4> HIDE DEF p, f, g
      <4>2. \A k \in 0..p : f[k] = g[k]
        BY <4>1, LoopAgrees
      <4> QED BY <4>2 DEF p, f, g
    <3> QED BY <3>1, <3>4
  <2> QED BY <2>1, <2>2
<1>3. whole = [n \in Nat |-> IF n = 0 THEN <<s>> ELSE Turn(what, whole[n-1])]
  BY <1>2
<1>4. IsLoop(whole, what, s, Nat)
  BY <1>3 DEF IsLoop
<1> HIDE DEF whole
<1> QED BY <1>4 DEF Loop

\* What the loop of UnmarshalVT has done after k turns.
LEMMA LoopTurns ==
    ASSUME NEW what, NEW s
    PROVE  /\ Loop(what, s)[0] = <<s>>
           /\ \A k \in Nat : Loop(what, s)[k+1] = Turn(what, Loop(what, s)[k])
<1> DEFINE f == Loop(what, s)
<1>1. f = [k \in Nat |-> IF k = 0 THEN <<s>> ELSE Turn(what, f[k-1])]
  BY LoopExists DEF IsLoop
<1> HIDE DEF f
<1>2. f[0] = <<s>>
  BY <1>1
<1>3. ASSUME NEW k \in Nat PROVE f[k+1] = Turn(what, f[k])
  <2>1. k + 1 \in Nat /\ k + 1 # 0 /\ (k + 1) - 1 = k
    OBVIOUS
  <2> QED BY <1>1, <2>1
<1> QED BY <1>2, <1>3 DEF f

\* It has only one.
LEMMA LoopOnly ==
    ASSUME NEW what, NEW s, NEW f, IsLoop(f, what, s, Nat), NEW k \in Nat
    PROVE  f[k] = Loop(what, s)[k]
<1>1. Covers(Nat, k) /\ k \in 0..k
  BY DEF Covers
<1> QED BY <1>1, LoopExists, LoopAgrees

\* UnmarshalVT is such a loop,
LEMMA FillIsLoop ==
    ASSUME NEW cases, NEW m, NEW b \in Octets
    PROVE  Fill(cases, m, b) =
              Then(Loop(Message(cases), [msg |-> m, rest |-> b])[Turns(b)], LAMBDA s : <<s.msg>>)
<1> DEFINE start == [msg |-> m, rest |-> b]
           turn(r) == Then(r, LAMBDA s : IF s.rest = <<>> THEN <<s>> ELSE ReadInto(cases, s))
           Is(f) == f = [k \in Nat |-> IF k = 0 THEN <<start>> ELSE turn(f[k-1])]
           g == CHOOSE f : Is(f)
<1>1. Fill(cases, m, b) = Then(g[Turns(b)], LAMBDA s : <<s.msg>>)
  BY DEF Fill
<1>2. \A r : turn(r) = Turn(Message(cases), r)
  BY DEF Turn, Step, Message, Then
<1> HIDE DEF turn, start
<1>3. ASSUME NEW f PROVE Is(f) <=> IsLoop(f, Message(cases), start, Nat)
  BY <1>2 DEF IsLoop
<1>4. IsLoop(Loop(Message(cases), start), Message(cases), start, Nat)
  BY LoopExists
<1>5. \E f : Is(f)
  BY <1>3, <1>4
<1> HIDE DEF Is
<1>6. IsLoop(g, Message(cases), start, Nat)
  BY <1>3, <1>5
<1> HIDE DEF g
<1>7. Turns(b) \in Nat
  BY DEF Turns, Octets
<1>8. g[Turns(b)] = Loop(Message(cases), start)[Turns(b)]
  BY <1>6, <1>7, LoopOnly
<1>9. Then(g[Turns(b)], LAMBDA s : <<s.msg>>) =
        Then(Loop(Message(cases), start)[Turns(b)], LAMBDA s : <<s.msg>>)
  BY <1>8
<1> QED BY <1>1, <1>9 DEF start

\* and so is the reading of an entry of a map.
LEMMA FillEntryIsLoop ==
    ASSUME NEW c, c.kind = "MapOf", NEW b \in Octets
    PROVE  FillEntry(c, b) =
              Then(Loop(c, [key |-> <<>>, value |-> <<>>, rest |-> b])[Turns(b)],
                   LAMBDA s : << [key |-> s.key, value |-> s.value] >>)
<1> DEFINE start == [key |-> <<>>, value |-> <<>>, rest |-> b]
           turn(r) == Then(r, LAMBDA s : IF s.rest = <<>> THEN <<s>> ELSE EntryField(c, s))
           Is(f) == f = [k \in Nat |-> IF k = 0 THEN <<start>> ELSE turn(f[k-1])]
           g == CHOOSE f : Is(f)
<1>1. FillEntry(c, b) = Then(g[Turns(b)], LAMBDA s : << [key |-> s.key, value |-> s.value] >>)
  BY DEF FillEntry
<1>2. \A r : turn(r) = Turn(c, r)
  BY DEF Turn, Step, Then
<1> HIDE DEF turn, start
<1>3. ASSUME NEW f PROVE Is(f) <=> IsLoop(f, c, start, Nat)
  BY <1>2 DEF IsLoop
<1>4. IsLoop(Loop(c, start), c, start, Nat)
  BY LoopExists
<1>5. \E f : Is(f)
  BY <1>3, <1>4
<1> HIDE DEF Is
<1>6. IsLoop(g, c, start, Nat)
  BY <1>3, <1>5
<1> HIDE DEF g
<1>7. Turns(b) \in Nat
  BY DEF Turns, Octets
<1>8. g[Turns(b)] = Loop(c, start)[Turns(b)]
  BY <1>6, <1>7, LoopOnly
<1>9. Then(g[Turns(b)], LAMBDA s : << [key |-> s.key, value |-> s.value] >>) =
        Then(Loop(c, start)[Turns(b)], LAMBDA s : << [key |-> s.key, value |-> s.value] >>)
  BY <1>8
<1> QED BY <1>1, <1>9 DEF start
-------------------------------------------------------------------------------

-------------------------------------------------------------------------------
(* What is read does not depend on what follows *)

\* What is left of b when n bytes or more have been read.
Left(r, b, n) == r \in Octets /\ Len(r) + n <= Len(b)

\* The less is read, the more is left.
LEMMA LeftFact ==
    ASSUME NEW b \in Octets, NEW n \in Nat, NEW r, Left(r, b, n)
    PROVE  /\ r \in Octets /\ Len(r) \in Nat /\ Len(b) \in Nat /\ Len(r) + n <= Len(b)
           /\ Len(b) - Len(r) \in Nat /\ n <= Len(b) - Len(r)
BY DEF Left, Octets

\* Nothing may follow.
LEMMA EmptyTail ==
    ASSUME NEW b \in Octets
    PROVE  <<>> \in Octets /\ b \o <<>> = b
BY DEF Octets

\* What is after the first n bytes.
LEMMA AfterConcat ==
    ASSUME NEW b \in Octets, NEW n \in 0..Len(b), NEW tail \in Octets
    PROVE  /\ b \o tail \in Octets /\ Len(b \o tail) = Len(b) + Len(tail)
           /\ n \in 0..Len(b \o tail)
           /\ After(b \o tail, n) = After(b, n) \o tail
           /\ Cut(b \o tail, n) = Cut(b, n)
<1> DEFINE w == b \o tail
<1>1. /\ b \in Seq(Byte) /\ tail \in Seq(Byte) /\ Len(b) \in Nat /\ Len(tail) \in Nat
      /\ n \in Nat /\ n <= Len(b)
  BY DEF Octets
<1>2. /\ w \in Seq(Byte) /\ Len(w) = Len(b) + Len(tail)
      /\ \A i \in 1..Len(b) : w[i] = b[i]
      /\ \A i \in 1..Len(tail) : w[Len(b) + i] = tail[i]
  BY <1>1, ConcatFact
<1>3. n \in 0..Len(w)
  BY <1>1, <1>2
<1> HIDE DEF w
<1>4. /\ After(w, n) \in Seq(Byte) /\ Len(After(w, n)) = Len(w) - n
      /\ \A i \in 1..(Len(w) - n) : After(w, n)[i] = w[n + i]
  BY <1>2, <1>3, AfterFact
<1>5. /\ After(b, n) \in Seq(Byte) /\ Len(After(b, n)) = Len(b) - n
      /\ \A i \in 1..(Len(b) - n) : After(b, n)[i] = b[n + i]
  BY <1>1, AfterFact
<1> DEFINE a == After(b, n)
           z == a \o tail
<1>6. /\ z \in Seq(Byte) /\ Len(z) = Len(a) + Len(tail)
      /\ \A i \in 1..Len(a) : z[i] = a[i]
      /\ \A i \in 1..Len(tail) : z[Len(a) + i] = tail[i]
  <2> HIDE DEF a
  <2>1. a \in Seq(Byte)
    BY <1>5 DEF a
  <2> QED BY <1>1, <2>1, ConcatFact
<1> HIDE DEF z
<1>7. Len(After(w, n)) = Len(z)
  BY <1>1, <1>2, <1>4, <1>5, <1>6
<1>8. ASSUME NEW i \in 1..Len(z) PROVE After(w, n)[i] = z[i]
  <2>1. After(w, n)[i] = w[n + i]
    BY <1>4, <1>7
  <2>2. CASE i <= Len(b) - n
    <3>1. i \in 1..(Len(b) - n) /\ n + i \in 1..Len(b)
      BY <1>1, <2>2
    <3> QED BY <1>2, <1>5, <1>6, <2>1, <3>1
  <2>3. CASE ~ (i <= Len(b) - n)
    <3> DEFINE j == i - (Len(b) - n)
    <3>1. j \in 1..Len(tail) /\ n + i = Len(b) + j /\ i = Len(a) + j
      BY <1>1, <1>5, <1>6, <2>3
    <3> HIDE DEF j
    <3>2. w[n + i] = tail[j] /\ z[i] = tail[j]
      BY <1>2, <1>6, <3>1
    <3> QED BY <2>1, <3>2
  <2> QED BY <2>2, <2>3
<1>9. After(w, n) = z
  BY <1>4, <1>6, <1>7, <1>8, SameSeq
<1>10. Cut(w, n) = Cut(b, n)
  <2>1. /\ Cut(w, n) \in Seq(Byte) /\ Len(Cut(w, n)) = n /\ \A i \in 1..n : Cut(w, n)[i] = w[i]
    BY <1>2, <1>3, CutFact
  <2>2. /\ Cut(b, n) \in Seq(Byte) /\ Len(Cut(b, n)) = n /\ \A i \in 1..n : Cut(b, n)[i] = b[i]
    BY <1>1, CutFact
  <2>3. \A i \in 1..n : w[i] = b[i]
    BY <1>1, <1>2
  <2> QED BY <2>1, <2>2, <2>3, SameSeq
<1> QED BY <1>2, <1>3, <1>9, <1>10 DEF w, z, Octets

\* The groups of a number that is read are as short as can be.
LEMMA CanonicalGroups ==
    ASSUME NEW g \in Seq(Group)
    PROVE  Canonical(g) \in Seq(Group)
<1> DEFINE T == {0} \cup {i \in 1..Len(g) : g[i] # 0}
<1>1. T \in SUBSET (0..Len(g)) /\ 0 \in T /\ Len(g) \in Nat
  OBVIOUS
<1>2. PICK k \in T : \A y \in T : y <= k
  <2> DEFINE Q == {Len(g) - i : i \in T}
  <2>1. Q \in SUBSET Nat /\ Q # {}
    BY <1>1
  <2>2. PICK d \in Q : \A y \in Q : d <= y
    BY <2>1, LeastNatural
  <2>3. PICK k \in T : d = Len(g) - k
    BY <2>2
  <2>4. ASSUME NEW y \in T PROVE y <= k
    <3>1. Len(g) - y \in Q
      OBVIOUS
    <3>2. d <= Len(g) - y /\ y \in Int /\ k \in Int
      BY <1>1, <2>2, <3>1
    <3> QED BY <1>1, <2>3, <3>2
  <2> QED BY <2>4
<1>3. T \in SUBSET Int /\ k \in 0..Len(g)
  BY <1>1
<1>4. Max(T) = k
  BY <1>2, <1>3, MaxIs
<1>5. Canonical(g) = Cut(g, k)
  BY <1>4 DEF Canonical
<1> QED BY <1>3, <1>5, CutFact

\* A number that is read is one.
LEMMA NumberIsNat ==
    ASSUME NEW g \in Seq(Group)
    PROVE  Number(g) \in Nat
<1> DEFINE group(i) == IF i <= Len(g) THEN g[i] ELSE 0
<1>1. ASSUME NEW i \in 1..4 PROVE group(i) \in Nat
  BY Ranges, ElementFact
<1>2. group(1) \in Nat /\ group(2) \in Nat /\ group(3) \in Nat /\ group(4) \in Nat
  BY <1>1
<1>3. Lowest(g) = group(1) + 128 * group(2) + 128 * 128 * group(3) + 128 * 128 * 128 * group(4)
  BY DEF Lowest
<1> HIDE DEF group
<1>4. Lowest(g) \in Nat
  BY <1>2, <1>3
<1>5. Huge \in Nat
  BY DEF Huge
<1> QED BY <1>4, <1>5 DEF Number

\* A number.
VarintAt(b, v, r) ==
    \A tail \in Octets : ReadVarint(b \o tail) = << [value |-> v, rest |-> r \o tail] >>

\* A number that can be read is read alike whatever follows,
LEMMA VarintLocal ==
    ASSUME NEW b \in Octets
    PROVE  \/ ReadVarint(b) = <<>>
           \/ \E v \in Seq(Group) : \E r : Left(r, b, 1) /\ VarintAt(b, v, r)
<1> DEFINE ends == {i \in 1..Len(b) : i <= 10 /\ b[i] < 128}
           group(i) == IF i = 10 THEN b[i] % 2 ELSE b[i] % 128
<1>1. CASE ends = {}
  BY <1>1 DEF ReadVarint
<1>2. CASE ends # {}
  <2>1. ends \in SUBSET Nat /\ ends \in SUBSET (1..Len(b))
    OBVIOUS
  <2>2. PICK e \in ends : \A y \in ends : e <= y
    <3> HIDE DEF ends
    <3> QED BY <1>2, <2>1, LeastNatural
  <2>3. /\ e \in 1..Len(b) /\ Len(b) \in Nat /\ e <= 10 /\ b[e] < 128 /\ e \in 0..Len(b) /\ e > 0
        /\ \A i \in 1..(e - 1) : ~ (b[i] < 128)
    <3>1. e \in 1..Len(b) /\ Len(b) \in Nat /\ e <= 10 /\ b[e] < 128
      BY DEF Octets
    <3>2. ASSUME NEW i \in 1..(e - 1) PROVE ~ (b[i] < 128)
      <4>1. i \in 1..Len(b) /\ i <= 10 /\ ~ (e <= i)
        BY <3>1
      <4> QED BY <2>2, <4>1
    <3> QED BY <3>1, <3>2
  <2> DEFINE q == [i \in 1..e |-> group(i)]
  <2>4. q \in Seq(Group)
    <3>1. \A i \in 1..e : group(i) \in Group
      <4> TAKE i \in 1..e
      <4>1. b[i] \in Int
        BY <2>3, Ranges, ElementFact DEF Octets
      <4> QED BY <4>1, Ranges
    <3> QED BY <2>3, <3>1
  <2>5. ASSUME NEW tail \in Octets
        PROVE  ReadVarint(b \o tail) = << [value |-> Canonical(q), rest |-> After(b, e) \o tail] >>
    <3> DEFINE w == b \o tail
               all == {i \in 1..Len(w) : i <= 10 /\ w[i] < 128}
               its(i) == IF i = 10 THEN w[i] % 2 ELSE w[i] % 128
    <3>1. /\ Len(w) = Len(b) + Len(tail) /\ Len(tail) \in Nat
          /\ \A i \in 1..Len(b) : w[i] = b[i]
      BY ConcatFact DEF Octets
    <3>2. After(w, e) = After(b, e) \o tail
      BY <2>3, AfterConcat
    <3> HIDE DEF w
    <3>3. e \in all
      BY <2>3, <3>1
    <3>4. ASSUME NEW y \in all PROVE e <= y
      <4> SUFFICES ASSUME y < e PROVE FALSE
        BY <2>3
      <4>1. y \in 1..(e - 1) /\ y \in 1..Len(b)
        BY <2>3, <3>1
      <4> QED BY <2>3, <3>1, <4>1
    <3>5. Min(all) = e
      <4>1. all \in SUBSET Int
        OBVIOUS
      <4> HIDE DEF all
      <4> QED BY <3>3, <3>4, <4>1, MinIs
    <3>6. [i \in 1..e |-> its(i)] = q
      BY <2>3, <3>1
    <3>7. ReadVarint(w) = << [value |-> Canonical([i \in 1..Min(all) |-> its(i)]), rest |-> After(w, Min(all))] >>
      BY <3>3 DEF ReadVarint
    <3> HIDE DEF all, its, q
    <3> QED BY <3>2, <3>5, <3>6, <3>7 DEF w
  <2>6. Canonical(q) \in Seq(Group)
    <3> HIDE DEF q
    <3> QED BY <2>4, CanonicalGroups
  <2>7. Left(After(b, e), b, 1)
    BY <2>3, AfterFact DEF Left, Octets
  <2> HIDE DEF q
  <2>8. VarintAt(b, Canonical(q), After(b, e))
    BY <2>5 DEF VarintAt
  <2> QED BY <2>6, <2>7, <2>8
<1> QED BY <1>1, <1>2

\* and takes a byte at least.
LEMMA VarintHere ==
    ASSUME NEW b \in Octets, NEW v, NEW r \in Octets, VarintAt(b, v, r)
    PROVE  ReadVarint(b) = << [value |-> v, rest |-> r] >>
<1>1. ReadVarint(b \o <<>>) = << [value |-> v, rest |-> r \o <<>>] >>
  BY EmptyTail DEF VarintAt
<1> QED BY <1>1, EmptyTail

\* Bytes with their length.
BytesAt(b, v, r) ==
    \A tail \in Octets : TakeBytes(b \o tail) = << [value |-> v, rest |-> r \o tail] >>

\* So are bytes with their length,
LEMMA BytesLocal ==
    ASSUME NEW b \in Octets
    PROVE  \/ TakeBytes(b) = <<>>
           \/ \E v \in Octets : \E r : Left(r, b, 1) /\ BytesAt(b, v, r)
<1>1. CASE ReadVarint(b) = <<>>
  BY <1>1 DEF TakeBytes, Then
<1>2. ASSUME NEW v \in Seq(Group), NEW r, Left(r, b, 1), VarintAt(b, v, r)
      PROVE  \/ TakeBytes(b) = <<>>
             \/ \E w \in Octets : \E q : Left(q, b, 1) /\ BytesAt(b, w, q)
  <2> DEFINE n == Number(v)
  <2>1. /\ r \in Octets /\ Len(r) \in Nat /\ Len(b) \in Nat /\ Len(r) + 1 <= Len(b)
        /\ n \in Nat
    BY <1>2, LeftFact, NumberIsNat
  <2>2. ASSUME NEW tail \in Octets
        PROVE  TakeBytes(b \o tail) =
                    IF Beyond(n, r \o tail) THEN <<>>
                    ELSE << [value |-> Cut(r \o tail, n), rest |-> After(r \o tail, n)] >>
    <3> DEFINE w == b \o tail
               q == r \o tail
    <3>1. ReadVarint(w) = << [value |-> v, rest |-> q] >>
      BY <1>2 DEF VarintAt
    <3> HIDE DEF w, q
    <3>2. TakeBytes(w) = IF Beyond(n, q) THEN <<>> ELSE << [value |-> Cut(q, n), rest |-> After(q, n)] >>
      BY <3>1 DEF TakeBytes, Then
    <3> QED BY <3>2 DEF w, q
  <2> HIDE DEF n
  <2>3. CASE Beyond(n, r)
    <3>1. r \o <<>> = r /\ b \o <<>> = b /\ <<>> \in Octets
      BY <2>1, EmptyTail
    <3>2. TakeBytes(b) = IF Beyond(n, r) THEN <<>> ELSE << [value |-> Cut(r, n), rest |-> After(r, n)] >>
      BY <2>2, <3>1
    <3> QED BY <2>3, <3>2
  <2>4. CASE ~ Beyond(n, r)
    <3>1. n \in 0..Len(r)
      BY <2>1, <2>4 DEF Beyond
    <3>2. /\ Cut(r, n) \in Octets /\ After(r, n) \in Octets
          /\ Len(After(r, n)) = Len(r) - n
      BY <2>1, <3>1, CutFact, AfterFact DEF Octets
    <3>3. Left(After(r, n), b, 1)
      BY <2>1, <3>2 DEF Left
    <3>4. ASSUME NEW tail \in Octets
          PROVE  TakeBytes(b \o tail) = << [value |-> Cut(r, n), rest |-> After(r, n) \o tail] >>
      <4>1. /\ n \in 0..Len(r \o tail) /\ After(r \o tail, n) = After(r, n) \o tail
            /\ Cut(r \o tail, n) = Cut(r, n)
        BY <2>1, <3>1, AfterConcat
      <4>2. ~ Beyond(n, r \o tail)
        BY <4>1, <2>1 DEF Beyond
      <4> QED BY <2>2, <4>1, <4>2
    <3>5. BytesAt(b, Cut(r, n), After(r, n))
      BY <3>4 DEF BytesAt
    <3> QED BY <3>2, <3>3, <3>5
  <2> QED BY <2>3, <2>4
<1> QED BY <1>1, <1>2, VarintLocal

\* The length of a field.
SkipAt(b, n) == \A tail \in Octets : Skip(b \o tail) = <<n>>

\* what is skipped of an unknown field,
LEMMA SkipLocal ==
    ASSUME NEW b \in Octets
    PROVE  \/ Skip(b) = <<>>
           \/ \E n \in Nat : n >= 2 /\ SkipAt(b, n)
<1>1. CASE ReadVarint(b) = <<>>
  BY <1>1 DEF Skip, Then
<1>2. ASSUME NEW v \in Seq(Group), NEW r, Left(r, b, 1), VarintAt(b, v, r)
      PROVE  Skip(b) = <<>> \/ \E n \in Nat : n >= 2 /\ SkipAt(b, n)
  <2>1. r \in Octets /\ Len(r) \in Nat /\ Len(b) \in Nat /\ Len(r) + 1 <= Len(b)
    BY <1>2, LeftFact
  <2>2. ReadVarint(b) = << [value |-> v, rest |-> r] >>
    BY <1>2, <2>1, VarintHere
  <2>3. ASSUME NEW tail \in Octets
        PROVE  /\ ReadVarint(b \o tail) = << [value |-> v, rest |-> r \o tail] >>
               /\ Len(b \o tail) - Len(r \o tail) = Len(b) - Len(r)
    <3>1. /\ Len(b \o tail) = Len(b) + Len(tail) /\ Len(r \o tail) = Len(r) + Len(tail)
          /\ Len(tail) \in Nat
      BY <2>1, ConcatFact DEF Octets
    <3>2. Len(b \o tail) - Len(r \o tail) = Len(b) - Len(r)
      BY <2>1, <3>1
    <3> QED BY <1>2, <3>2 DEF VarintAt
  <2>4. ASSUME NEW w, NEW q, Left(q, r, 1), NEW tail \in Octets
        PROVE  Len(b \o tail) - Len(q \o tail) = Len(b) - Len(q)
    <3>1. q \in Octets /\ Len(q) \in Nat
      BY <2>1, <2>4, LeftFact
    <3>2. /\ Len(b \o tail) = Len(b) + Len(tail) /\ Len(q \o tail) = Len(q) + Len(tail)
          /\ Len(tail) \in Nat
      BY <2>1, <3>1, ConcatFact DEF Octets
    <3> QED BY <2>1, <3>1, <3>2
  <2>5. CASE TagType(v) = 0
    <3>1. ReadVarint(r) = <<>> => Skip(b) = <<>>
      BY <2>2, <2>5 DEF Skip, Then
    <3>2. ASSUME NEW w, NEW q, Left(q, r, 1), VarintAt(r, w, q)
          PROVE  \E n \in Nat : n >= 2 /\ SkipAt(b, n)
      <4>1. Len(q) \in Nat /\ Len(q) + 1 <= Len(r)
        BY <2>1, <3>2, LeftFact
      <4>2. ASSUME NEW tail \in Octets PROVE Skip(b \o tail) = <<Len(b) - Len(q)>>
        <5>1. ReadVarint(r \o tail) = << [value |-> w, rest |-> q \o tail] >>
          BY <3>2 DEF VarintAt
        <5>2. Skip(b \o tail) = <<Len(b \o tail) - Len(q \o tail)>>
          <6> DEFINE bt == b \o tail
                     rt == r \o tail
                     qt == q \o tail
          <6>1. /\ ReadVarint(bt) = << [value |-> v, rest |-> rt] >>
                /\ ReadVarint(rt) = << [value |-> w, rest |-> qt] >>
            BY <2>3, <5>1
          <6> HIDE DEF bt, rt, qt
          <6>2. Skip(bt) = <<Len(bt) - Len(qt)>>
            BY <2>5, <6>1 DEF Skip, Then
          <6> QED BY <6>2 DEF bt, rt, qt
        <5> QED BY <2>4, <3>2, <5>2
      <4>3. Len(b) - Len(q) \in Nat /\ Len(b) - Len(q) >= 2
        BY <2>1, <4>1
      <4> QED BY <4>2, <4>3 DEF SkipAt
    <3> QED BY <2>1, <3>1, <3>2, VarintLocal
  <2>6. CASE TagType(v) = 1
    <3> DEFINE n == Len(b) - Len(r) + 8
    <3>1. n \in Nat /\ n >= 2
      BY <2>1
    <3>2. ASSUME NEW tail \in Octets PROVE Skip(b \o tail) = <<n>>
      <4>1. Skip(b \o tail) = <<Len(b \o tail) - Len(r \o tail) + 8>>
        <5> DEFINE bt == b \o tail
                   rt == r \o tail
        <5>1. ReadVarint(bt) = << [value |-> v, rest |-> rt] >>
          BY <2>3
        <5> HIDE DEF bt, rt
        <5>2. Skip(bt) = <<Len(bt) - Len(rt) + 8>>
          BY <2>6, <5>1 DEF Skip, Then
        <5> QED BY <5>2 DEF bt, rt
      <4> QED BY <2>3, <4>1
    <3> HIDE DEF n
    <3> QED BY <3>1, <3>2 DEF SkipAt
  <2>7. CASE TagType(v) = 5
    <3> DEFINE n == Len(b) - Len(r) + 4
    <3>1. n \in Nat /\ n >= 2
      BY <2>1
    <3>2. ASSUME NEW tail \in Octets PROVE Skip(b \o tail) = <<n>>
      <4>1. Skip(b \o tail) = <<Len(b \o tail) - Len(r \o tail) + 4>>
        <5> DEFINE bt == b \o tail
                   rt == r \o tail
        <5>1. ReadVarint(bt) = << [value |-> v, rest |-> rt] >>
          BY <2>3
        <5> HIDE DEF bt, rt
        <5>2. Skip(bt) = <<Len(bt) - Len(rt) + 4>>
          BY <2>7, <5>1 DEF Skip, Then
        <5> QED BY <5>2 DEF bt, rt
      <4> QED BY <2>3, <4>1
    <3> HIDE DEF n
    <3> QED BY <3>1, <3>2 DEF SkipAt
  <2>8. CASE TagType(v) = 2
    <3>1. ReadVarint(r) = <<>> => Skip(b) = <<>>
      BY <2>2, <2>8 DEF Skip, Then
    <3>2. ASSUME NEW w \in Seq(Group), NEW q, Left(q, r, 1), VarintAt(r, w, q)
          PROVE  \E n \in Nat : n >= 2 /\ SkipAt(b, n)
      <4>1. Len(q) \in Nat /\ Len(q) + 1 <= Len(r) /\ Number(w) \in Nat
        BY <2>1, <3>2, LeftFact, NumberIsNat
      <4>2. ASSUME NEW tail \in Octets PROVE Skip(b \o tail) = <<Len(b) - Len(q) + Number(w)>>
        <5>1. ReadVarint(r \o tail) = << [value |-> w, rest |-> q \o tail] >>
          BY <3>2 DEF VarintAt
        <5>2. Skip(b \o tail) = <<Len(b \o tail) - Len(q \o tail) + Number(w)>>
          <6> DEFINE bt == b \o tail
                     rt == r \o tail
                     qt == q \o tail
          <6>1. /\ ReadVarint(bt) = << [value |-> v, rest |-> rt] >>
                /\ ReadVarint(rt) = << [value |-> w, rest |-> qt] >>
            BY <2>3, <5>1
          <6> HIDE DEF bt, rt, qt
          <6>2. Skip(bt) = <<Len(bt) - Len(qt) + Number(w)>>
            BY <2>8, <6>1 DEF Skip, Then
          <6> QED BY <6>2 DEF bt, rt, qt
        <5> QED BY <2>4, <3>2, <5>2
      <4>3. Len(b) - Len(q) + Number(w) \in Nat /\ Len(b) - Len(q) + Number(w) >= 2
        BY <2>1, <4>1
      <4> QED BY <4>2, <4>3 DEF SkipAt
    <3> QED BY <2>1, <3>1, <3>2, VarintLocal
  <2>9. CASE TagType(v) \notin {0, 1, 2, 5}
    BY <2>2, <2>9 DEF Skip, Then
  <2> QED BY <2>5, <2>6, <2>7, <2>8, <2>9
<1> QED BY <1>1, <1>2, VarintLocal

\* A field, for a reader.
FieldAt(cases, b, its, x, r) ==
    \A tail \in Octets :
        NextField(cases, b \o tail) = << [case |-> its, value |-> x, rest |-> r \o tail] >>

SkippedAt(b, x, r) ==
    \A tail \in Octets : SkippedField(b \o tail) = << [case |-> {}, value |-> x, rest |-> r \o tail] >>

KnownAt(c, tag, b, x, r) ==
    \A tail \in Octets :
        KnownField(c, tag, b \o tail) = << [case |-> {c}, value |-> x, rest |-> r \o tail] >>

ValueAt(c, b, x, r) ==
    \A tail \in Octets : ReadValue(c, b \o tail) = << [value |-> x, rest |-> r \o tail] >>

\* the field that is kept,
LEMMA SkippedLocal ==
    ASSUME NEW b \in Octets
    PROVE  \/ SkippedField(b) = <<>>
           \/ \E x, r : Left(r, b, 2) /\ SkippedAt(b, x, r)
<1>1. CASE Skip(b) = <<>>
  BY <1>1 DEF SkippedField, Then
<1>2. ASSUME NEW n \in Nat, n >= 2, SkipAt(b, n)
      PROVE  \/ SkippedField(b) = <<>>
             \/ \E x, r : Left(r, b, 2) /\ SkippedAt(b, x, r)
  <2>1. ASSUME NEW tail \in Octets
        PROVE  SkippedField(b \o tail) =
                    IF Beyond(n, b \o tail) THEN <<>>
                    ELSE << [case |-> {}, value |-> Cut(b \o tail, n), rest |-> After(b \o tail, n)] >>
    <3> DEFINE w == b \o tail
    <3>1. Skip(w) = <<n>>
      BY <1>2 DEF SkipAt
    <3> HIDE DEF w
    <3>2. SkippedField(w) = IF Beyond(n, w) THEN <<>>
                            ELSE << [case |-> {}, value |-> Cut(w, n), rest |-> After(w, n)] >>
      BY <3>1 DEF SkippedField, Then
    <3> QED BY <3>2 DEF w
  <2>2. Len(b) \in Nat
    BY DEF Octets
  <2>3. CASE Beyond(n, b)
    <3>1. b \o <<>> = b /\ <<>> \in Octets
      BY EmptyTail
    <3>2. SkippedField(b) = IF Beyond(n, b) THEN <<>>
                            ELSE << [case |-> {}, value |-> Cut(b, n), rest |-> After(b, n)] >>
      BY <2>1, <3>1
    <3> QED BY <2>3, <3>2
  <2>4. CASE ~ Beyond(n, b)
    <3>1. n \in 0..Len(b)
      BY <2>2, <2>4 DEF Beyond
    <3>2. Left(After(b, n), b, 2)
      BY <1>2, <2>2, <3>1, AfterFact DEF Left, Octets
    <3>3. ASSUME NEW tail \in Octets
          PROVE  SkippedField(b \o tail) =
                    << [case |-> {}, value |-> Cut(b, n), rest |-> After(b, n) \o tail] >>
      <4>1. /\ n \in 0..Len(b \o tail) /\ After(b \o tail, n) = After(b, n) \o tail
            /\ Cut(b \o tail, n) = Cut(b, n)
        BY <3>1, AfterConcat
      <4>2. ~ Beyond(n, b \o tail)
        BY <4>1 DEF Beyond
      <4> QED BY <2>1, <4>1, <4>2
    <3> QED BY <3>2, <3>3 DEF SkippedAt
  <2> QED BY <2>3, <2>4
<1> QED BY <1>1, <1>2, SkipLocal

\* and the one that has a case.
LEMMA KnownLocal ==
    ASSUME NEW c, NEW tag, NEW b \in Octets
    PROVE  \/ KnownField(c, tag, b) = <<>>
           \/ \E x, r : Left(r, b, 1) /\ KnownAt(c, tag, b, x, r)
<1>1. CASE TagType(tag) # WireType(c)
  BY <1>1 DEF KnownField
<1>2. CASE TagType(tag) = WireType(c)
  <2>1. CASE ReadValue(c, b) = <<>>
    BY <1>2, <2>1 DEF KnownField, Then
  <2>2. ASSUME NEW x, NEW r, Left(r, b, 1), ValueAt(c, b, x, r)
        PROVE  KnownAt(c, tag, b, x, r)
    <3>1. ASSUME NEW tail \in Octets
          PROVE  KnownField(c, tag, b \o tail) = << [case |-> {c}, value |-> x, rest |-> r \o tail] >>
      <4> DEFINE w == b \o tail
                 q == r \o tail
      <4>1. ReadValue(c, w) = << [value |-> x, rest |-> q] >>
        BY <2>2 DEF ValueAt
      <4> HIDE DEF w, q
      <4>2. KnownField(c, tag, w) = << [case |-> {c}, value |-> x, rest |-> q] >>
        BY <1>2, <4>1 DEF KnownField, Then
      <4> QED BY <4>2 DEF w, q
    <3> QED BY <3>1 DEF KnownAt
  <2>3. \/ ReadValue(c, b) = <<>>
        \/ \E x, r : Left(r, b, 1) /\ ValueAt(c, b, x, r)
    <3>1. CASE IsNumber(c)
      <4>1. ASSUME NEW x, NEW r, VarintAt(b, x, r) PROVE ValueAt(c, b, x, r)
        BY <3>1, <4>1 DEF ReadValue, VarintAt, ValueAt
      <4>2. ReadValue(c, b) = ReadVarint(b)
        BY <3>1 DEF ReadValue
      <4> QED BY <4>1, <4>2, VarintLocal
    <3>2. CASE ~ IsNumber(c)
      <4>1. ASSUME NEW x, NEW r, BytesAt(b, x, r) PROVE ValueAt(c, b, x, r)
        BY <3>2, <4>1 DEF ReadValue, BytesAt, ValueAt
      <4>2. ReadValue(c, b) = TakeBytes(b)
        BY <3>2 DEF ReadValue
      <4> QED BY <4>1, <4>2, BytesLocal
    <3> QED BY <3>1, <3>2
  <2> QED BY <2>1, <2>2, <2>3
<1> QED BY <1>1, <1>2

\* A field takes at least two bytes, and is read alike whatever follows.
LEMMA FieldLocal ==
    ASSUME NEW cases, NEW b \in Octets
    PROVE  \/ NextField(cases, b) = <<>>
           \/ \E its, x, r : Left(r, b, 2) /\ FieldAt(cases, b, its, x, r)
<1>1. CASE ReadVarint(b) = <<>>
  BY <1>1 DEF NextField, Then
<1>2. ASSUME NEW v, NEW r, Left(r, b, 1), VarintAt(b, v, r)
      PROVE  \/ NextField(cases, b) = <<>>
             \/ \E its, x, q : Left(q, b, 2) /\ FieldAt(cases, b, its, x, q)
  <2>1. r \in Octets /\ Len(r) \in Nat /\ Len(b) \in Nat /\ Len(r) + 1 <= Len(b)
    BY <1>2, LeftFact
  <2>2. ReadVarint(b) = << [value |-> v, rest |-> r] >>
    BY <1>2, <2>1, VarintHere
  <2>3. ASSUME NEW tail \in Octets
        PROVE  ReadVarint(b \o tail) = << [value |-> v, rest |-> r \o tail] >>
    BY <1>2 DEF VarintAt
  <2>4. CASE TagType(v) = 4 \/ FieldNumber(v) <= 0
    BY <2>2, <2>4 DEF NextField, Then
  <2>5. CASE ~ (TagType(v) = 4 \/ FieldNumber(v) <= 0) /\ CasesFor(cases, v) = {}
    <3>1. NextField(cases, b) = SkippedField(b)
      BY <2>2, <2>5 DEF NextField, Then
    <3>2. ASSUME NEW tail \in Octets PROVE NextField(cases, b \o tail) = SkippedField(b \o tail)
      BY <2>3, <2>5 DEF NextField, Then
    <3>3. ASSUME NEW x, NEW q, SkippedAt(b, x, q) PROVE FieldAt(cases, b, {}, x, q)
      BY <3>2, <3>3 DEF FieldAt, SkippedAt
    <3> QED BY <3>1, <3>3, SkippedLocal
  <2>6. CASE ~ (TagType(v) = 4 \/ FieldNumber(v) <= 0) /\ CasesFor(cases, v) # {}
    <3> DEFINE c == CaseFor(cases, v)
    <3>1. NextField(cases, b) = KnownField(c, v, r)
      BY <2>2, <2>6 DEF NextField, Then
    <3>2. ASSUME NEW tail \in Octets
          PROVE  NextField(cases, b \o tail) = KnownField(c, v, r \o tail)
      <4> DEFINE w == b \o tail
                 q == r \o tail
      <4>1. ReadVarint(w) = << [value |-> v, rest |-> q] >>
        BY <2>3
      <4> HIDE DEF w, q
      <4>2. NextField(cases, w) = KnownField(CaseFor(cases, v), v, q)
        BY <2>6, <4>1 DEF NextField, Then
      <4> QED BY <4>2 DEF w, q
    <3> HIDE DEF c
    <3>3. ASSUME NEW q, Left(q, r, 1) PROVE Left(q, b, 2)
      <4>1. q \in Octets /\ Len(q) \in Nat /\ Len(q) + 1 <= Len(r)
        BY <2>1, <3>3, LeftFact
      <4> QED BY <2>1, <4>1 DEF Left
    <3>4. ASSUME NEW x, NEW q, KnownAt(c, v, r, x, q) PROVE FieldAt(cases, b, {c}, x, q)
      BY <3>2, <3>4 DEF FieldAt, KnownAt
    <3> QED BY <2>1, <3>1, <3>3, <3>4, KnownLocal
  <2> QED BY <2>4, <2>5, <2>6
<1> QED BY <1>1, <1>2, VarintLocal

-------------------------------------------------------------------------------
(* What a reader makes of bytes one after another *)

State(m, b) == [msg |-> m, rest |-> b]

\* There is a turn for every two bytes.
LEMMA TurnsFact ==
    ASSUME NEW b \in Octets
    PROVE  /\ Turns(b) \in Nat /\ Len(b) <= 2 * Turns(b)
           /\ \A r \in Octets : Len(r) + 2 <= Len(b) => Turns(r) + 1 <= Turns(b)
BY DEF Turns, Octets

\* A turn of the loop with a field.
LEMMA ReadIntoField ==
    ASSUME NEW cases, NEW m, NEW b, NEW c, NEW x, NEW r,
           NextField(cases, b) = << [case |-> c, value |-> x, rest |-> r] >>
    PROVE  LET new == Merged([case |-> c, value |-> x, rest |-> r], m)
           IN  /\ new = <<>> => ReadInto(cases, State(m, b)) = <<>>
               /\ new # <<>> => ReadInto(cases, State(m, b)) = <<State(new[1], r)>>
BY DEF ReadInto, Then, State

\* What is read of a field when nothing follows.
LEMMA FieldHere ==
    ASSUME NEW cases, NEW b \in Octets, NEW its, NEW x, NEW r \in Octets,
           FieldAt(cases, b, its, x, r)
    PROVE  NextField(cases, b) = << [case |-> its, value |-> x, rest |-> r] >>
<1>1. NextField(cases, b \o <<>>) = << [case |-> its, value |-> x, rest |-> r \o <<>>] >>
  BY EmptyTail DEF FieldAt
<1> QED BY <1>1, EmptyTail

\* A turn of the loop leaves two bytes less, or ends it.
LEMMA ReadIntoProgress ==
    ASSUME NEW cases, NEW m, NEW b \in Octets
    PROVE  \/ ReadInto(cases, State(m, b)) = <<>>
           \/ \E n, r : ReadInto(cases, State(m, b)) = <<State(n, r)>> /\ Left(r, b, 2)
<1>1. CASE NextField(cases, b) = <<>>
  BY <1>1 DEF ReadInto, Then, State
<1>2. ASSUME NEW c, NEW x, NEW r, Left(r, b, 2), FieldAt(cases, b, c, x, r)
      PROVE  \/ ReadInto(cases, State(m, b)) = <<>>
             \/ ReadInto(cases, State(m, b)) =
                    <<State(Merged([case |-> c, value |-> x, rest |-> r], m)[1], r)>>
  <2>1. r \in Octets
    BY <1>2 DEF Left
  <2>2. NextField(cases, b) = << [case |-> c, value |-> x, rest |-> r] >>
    BY <1>2, <2>1, FieldHere
  <2> QED BY <2>2, ReadIntoField
<1> QED BY <1>1, <1>2, FieldLocal

\* Nothing more happens after the end of the input or an error.
Final(r) == r = <<>> \/ \E s : r = <<s>> /\ s.rest = <<>>

\* How far k turns have come from b.
Behind(q, b, k) == q \in Octets /\ (q = <<>> \/ Len(q) + 2 * k <= Len(b))
Come(r, b, k) == r = <<>> \/ \E m, q : r = <<State(m, q)>> /\ Behind(q, b, k)

\* An error and the end of the input are final.
LEMMA TurnFinal ==
    ASSUME NEW what, NEW r, Final(r)
    PROVE  Turn(what, r) = r
BY DEF Final, Turn, Then

\* Every turn comes two bytes further.
LEMMA TurnComes ==
    ASSUME NEW cases, NEW r, NEW b \in Octets, NEW k \in Nat, Come(r, b, k)
    PROVE  Come(Turn(Message(cases), r), b, k + 1)
<1> DEFINE t == Turn(Message(cases), r)
<1>1. CASE r = <<>>
  BY <1>1 DEF Turn, Then, Come
<1>2. ASSUME NEW m, NEW q, r = <<State(m, q)>>, Behind(q, b, k)
      PROVE  Come(t, b, k + 1)
  <2> q \in Octets /\ (q = <<>> \/ Len(q) + 2 * k <= Len(b))
    BY <1>2 DEF Behind
  <2>1. CASE q = <<>>
    <3>1. Final(r)
      BY <1>2, <2>1 DEF Final, State
    <3>2. t = r
      BY <3>1, TurnFinal
    <3> QED BY <1>2, <2>1, <3>2 DEF Come, Behind
  <2>2. CASE q # <<>>
    <3>1. t = ReadInto(cases, State(m, q))
      BY <1>2, <2>2 DEF Turn, Step, Message, Then, State
    <3>2. ASSUME NEW n, NEW p, Left(p, q, 2) PROVE Come(<<State(n, p)>>, b, k + 1)
      <4>1. p \in Octets /\ Len(p) \in Nat /\ Len(q) \in Nat /\ Len(p) + 2 <= Len(q) /\ Len(b) \in Nat
        BY <1>2, <3>2, LeftFact DEF Octets
      <4>2. Len(p) + 2 * (k + 1) <= Len(b)
        BY <1>2, <2>2, <4>1
      <4> QED BY <4>1, <4>2 DEF Come, Behind
    <3>3. Come(<<>>, b, k + 1)
      BY DEF Come
    <3> HIDE DEF t
    <3> QED BY <1>2, <3>1, <3>2, <3>3, ReadIntoProgress
  <2> QED BY <2>1, <2>2
<1> HIDE DEF t
<1>3. r = <<>> \/ \E m, q : r = <<State(m, q)>> /\ Behind(q, b, k)
  BY DEF Come
<1>4. Come(t, b, k + 1)
  BY <1>1, <1>2, <1>3 DEF t
<1> QED BY <1>4 DEF t

\* Half as many turns as there are bytes lead to the end.
LEMMA LoopEnds ==
    ASSUME NEW cases, NEW m, NEW b \in Octets
    PROVE  Final(Loop(Message(cases), State(m, b))[Turns(b)])
<1> DEFINE f == Loop(Message(cases), State(m, b))
           T == {k \in Nat : ~ Come(f[k], b, k)}
           n == Turns(b)
<1>1. f[0] = <<State(m, b)>> /\ \A k \in Nat : f[k+1] = Turn(Message(cases), f[k])
  BY LoopTurns
<1>2. Len(b) \in Nat /\ n \in Nat /\ Len(b) <= 2 * n
  BY TurnsFact DEF Octets
<1> HIDE DEF f, n
<1>3. T = {}
  <2> SUFFICES ASSUME T # {} PROVE FALSE
    OBVIOUS
  <2>1. PICK k \in T : \A j \in T : k <= j
    BY LeastNatural
  <2>2. CASE k = 0
    <3>1. Come(f[0], b, 0)
      BY <1>1, <1>2 DEF Come, Behind
    <3> QED BY <2>2, <3>1
  <2>3. CASE k # 0
    <3>1. k - 1 \in Nat /\ k - 1 \notin T /\ (k - 1) + 1 = k
      BY <2>1, <2>3
    <3>2. Come(f[k-1], b, k - 1) /\ f[k] = Turn(Message(cases), f[k-1])
      BY <1>1, <3>1
    <3>3. Come(f[k], b, k)
      BY <3>1, <3>2, TurnComes
    <3> QED BY <3>3
  <2> QED BY <2>2, <2>3
<1>4. Come(f[n], b, n)
  BY <1>2, <1>3
<1>5. ASSUME NEW q \in Octets, Len(q) + 2 * n <= Len(b) PROVE q = <<>>
  BY <1>2, <1>5 DEF Octets
<1>6. ASSUME NEW p, NEW q, f[n] = <<State(p, q)>>, q = <<>> PROVE Final(f[n])
  <2>1. State(p, q).rest = <<>>
    BY <1>6 DEF State
  <2> QED BY <1>6, <2>1 DEF Final
<1>7. f[n] = <<>> => Final(f[n])
  BY DEF Final
<1>8. Final(f[n])
  BY <1>4, <1>5, <1>6, <1>7 DEF Come, Behind
<1> QED BY <1>8 DEF f, n

\* More turns change nothing.
LEMMA LoopStays ==
    ASSUME NEW what, NEW s, NEW n \in Nat, Final(Loop(what, s)[n]), NEW k \in Nat, n <= k
    PROVE  Loop(what, s)[k] = Loop(what, s)[n]
<1> DEFINE f == Loop(what, s)
           T == {j \in Nat : n <= j /\ f[j] # f[n]}
<1>1. \A j \in Nat : f[j+1] = Turn(what, f[j])
  BY LoopTurns
<1> HIDE DEF f
<1> SUFFICES ASSUME T # {} PROVE FALSE
  BY DEF f
<1>2. PICK j \in T : \A i \in T : j <= i
  BY LeastNatural
<1>3. j # n /\ j \in Nat /\ n <= j
  OBVIOUS
<1>4. j - 1 \in Nat /\ n <= j - 1 /\ (j - 1) + 1 = j /\ j - 1 \notin T
  BY <1>2, <1>3
<1>5. f[j-1] = f[n] /\ f[j] = Turn(what, f[j-1])
  BY <1>1, <1>4
<1>6. f[j] = f[n]
  BY <1>5, TurnFinal DEF f
<1> QED BY <1>6

\* After the first turn, the loop is that of the state it has reached.
LEMMA LoopShifts ==
    ASSUME NEW what, NEW s, NEW t, Turn(what, <<s>>) = <<t>>, NEW k \in Nat
    PROVE  Loop(what, s)[k+1] = Loop(what, t)[k]
<1> DEFINE f == Loop(what, s)
           g == Loop(what, t)
           T == {j \in Nat : f[j+1] # g[j]}
<1>1. /\ f[0] = <<s>> /\ \A j \in Nat : f[j+1] = Turn(what, f[j])
      /\ g[0] = <<t>> /\ \A j \in Nat : g[j+1] = Turn(what, g[j])
  BY LoopTurns
<1> HIDE DEF f, g
<1> SUFFICES ASSUME T # {} PROVE FALSE
  BY DEF f, g
<1>2. PICK j \in T : \A i \in T : j <= i
  BY LeastNatural
<1>3. CASE j = 0
  <2>1. f[0+1] = g[0]
    BY <1>1
  <2> QED BY <1>3, <2>1
<1>4. CASE j # 0
  <2>1. j - 1 \in Nat /\ (j - 1) + 1 = j /\ j - 1 \notin T
    BY <1>2, <1>4
  <2>2. f[j] = g[j-1]
    BY <2>1
  <2>3. f[j+1] = Turn(what, f[j]) /\ g[j] = Turn(what, g[j-1])
    BY <1>1, <2>1
  <2> QED BY <2>2, <2>3
<1> QED BY <1>3, <1>4

\* A field is read, and then the rest.
LEMMA FillStep ==
    ASSUME NEW cases, NEW m, NEW b \in Octets, NEW n, NEW r, Left(r, b, 2),
           ReadInto(cases, State(m, b)) = <<State(n, r)>>
    PROVE  Fill(cases, m, b) = Fill(cases, n, r)
<1> DEFINE what == Message(cases)
           k == Turns(b) - 1
<1>1. /\ r \in Octets /\ Len(r) \in Nat /\ Len(b) \in Nat /\ b # <<>>
      /\ Turns(r) \in Nat /\ k \in Nat /\ k + 1 = Turns(b) /\ Turns(r) <= k
  <2>1. r \in Octets /\ Len(r) \in Nat /\ Len(b) \in Nat /\ Len(r) + 2 <= Len(b)
    BY LeftFact
  <2>2. b # <<>>
    BY <2>1
  <2>3. Turns(r) \in Nat /\ Turns(b) \in Nat /\ Turns(r) + 1 <= Turns(b)
    BY <2>1, TurnsFact
  <2> QED BY <2>1, <2>2, <2>3
<1> HIDE DEF k
<1>2. Turn(what, <<State(m, b)>>) = <<State(n, r)>>
  BY <1>1 DEF Turn, Step, Message, Then, State
<1> HIDE DEF what
<1>3. Loop(what, State(m, b))[k + 1] = Loop(what, State(n, r))[k]
  <2> DEFINE s == State(m, b)
             t == State(n, r)
  <2>1. Turn(what, <<s>>) = <<t>>
    BY <1>2
  <2> HIDE DEF s, t
  <2>2. Loop(what, s)[k + 1] = Loop(what, t)[k]
    <3>1. k \in Nat
      BY <1>1
    <3> QED BY <2>1, <3>1, LoopShifts
  <2> QED BY <2>2 DEF s, t
<1>4. Loop(what, State(n, r))[k] = Loop(what, State(n, r))[Turns(r)]
  BY <1>1, LoopEnds, LoopStays DEF what
<1> DEFINE x == Loop(what, State(m, b))[Turns(b)]
           y == Loop(what, State(n, r))[Turns(r)]
<1>5. Fill(cases, m, b) = Then(x, LAMBDA s : <<s.msg>>)
  BY FillIsLoop DEF State, what
<1>6. Fill(cases, n, r) = Then(y, LAMBDA s : <<s.msg>>)
  BY <1>1, FillIsLoop DEF State, what
<1>7. x = y
  BY <1>1, <1>3, <1>4
<1> HIDE DEF x, y
<1> QED BY <1>5, <1>6, <1>7

\* A field that is refused, and the end.
LEMMA FillRefused ==
    ASSUME NEW cases, NEW m, NEW b \in Octets, b # <<>>, ReadInto(cases, State(m, b)) = <<>>
    PROVE  Fill(cases, m, b) = <<>>
<1> DEFINE what == Message(cases)
           f == Loop(what, State(m, b))
<1>1. Turns(b) \in Nat /\ 1 <= Turns(b)
  BY TurnsFact DEF Octets
<1>2. f[0] = <<State(m, b)>> /\ f[0+1] = Turn(what, f[0])
  BY LoopTurns
<1>3. f[1] = <<>>
  BY <1>2 DEF Turn, Step, Message, Then, State
<1>4. f[Turns(b)] = <<>>
  BY <1>1, <1>3, LoopStays DEF Final
<1>5. Fill(cases, m, b) = Then(f[Turns(b)], LAMBDA s : <<s.msg>>)
  BY FillIsLoop DEF State
<1> HIDE DEF f
<1> QED BY <1>4, <1>5 DEF Then

\* Nothing is made of no bytes.
LEMMA FillEnd ==
    ASSUME NEW cases, NEW m
    PROVE  Fill(cases, m, <<>>) = <<m>>
<1> DEFINE f == Loop(Message(cases), State(m, <<>>))
<1>1. f[0] = <<State(m, <<>>)>>
  BY LoopTurns
<1>2. Turns(<<>>) = 0 /\ <<>> \in Octets
  BY DEF Turns, Octets
<1>3. Fill(cases, m, <<>>) = Then(f[0], LAMBDA s : <<s.msg>>)
  BY <1>2, FillIsLoop DEF State
<1> HIDE DEF f
<1> QED BY <1>1, <1>3 DEF Then, State

-------------------------------------------------------------------------------
(* From one message to the next *)

\* Whatever follows, the bytes f make n of m.
Carries(cases, m, f, n) ==
    f \in Octets /\ \A tail \in Octets : Fill(cases, m, f \o tail) = Fill(cases, n, tail)

\* No bytes change nothing.
LEMMA CarriesNothing ==
    ASSUME NEW cases, NEW m
    PROVE  Carries(cases, m, <<>>, m)
BY DEF Carries, Octets

\* Bytes that lead from m to n, and those from n to o.
LEMMA CarriesBoth ==
    ASSUME NEW cases, NEW m, NEW f, NEW n, NEW g, NEW p,
           Carries(cases, m, f, n), Carries(cases, n, g, p)
    PROVE  Carries(cases, m, f \o g, p)
<1>1. f \in Octets /\ g \in Octets /\ f \o g \in Octets
  BY DEF Carries, Octets
<1>2. ASSUME NEW tail \in Octets
      PROVE  Fill(cases, m, (f \o g) \o tail) = Fill(cases, p, tail)
  <2>1. (f \o g) \o tail = f \o (g \o tail) /\ g \o tail \in Octets
    BY <1>1 DEF Octets
  <2>2. Fill(cases, m, f \o (g \o tail)) = Fill(cases, n, g \o tail)
    BY <2>1 DEF Carries
  <2>3. Fill(cases, n, g \o tail) = Fill(cases, p, tail)
    BY DEF Carries
  <2> QED BY <2>1, <2>2, <2>3
<1> QED BY <1>1, <1>2 DEF Carries

\* Messages that fields make of each other, one by one.
LEMMA CarriesAll ==
    ASSUME NEW cases, NEW n \in Nat, NEW chunks, DOMAIN chunks = 1..n,
           chunks = [i \in 1..n |-> chunks[i]], NEW msgs,
           \A i \in 1..n : Carries(cases, msgs[i-1], chunks[i], msgs[i])
    PROVE  Carries(cases, msgs[0], FlattenSeq(chunks), msgs[n])
<1>1. chunks \in [1..n -> Seq(Byte)]
  BY DEF Carries, Octets
<1>2. PICK f \in [0..n -> Seq(Byte)] :
          /\ f[0] = <<>>
          /\ \A i \in 1..n : f[i] = f[i-1] \o chunks[i]
          /\ FlattenSeq(chunks) = f[n]
  BY <1>1, FlattenFact
<1> DEFINE T == {i \in 0..n : ~ Carries(cases, msgs[0], f[i], msgs[i])}
<1>3. T = {}
  <2> SUFFICES ASSUME T # {} PROVE FALSE
    OBVIOUS
  <2>1. PICK i \in T : \A j \in T : i <= j
    <3>1. T \in SUBSET Nat
      OBVIOUS
    <3> QED BY <3>1, LeastNatural
  <2>2. CASE i = 0
    BY <1>2, <2>2, CarriesNothing
  <2>3. CASE i # 0
    <3>1. i \in 1..n /\ i - 1 \in 0..n /\ i - 1 \notin T
      BY <2>1, <2>3
    <3>2. Carries(cases, msgs[0], f[i-1], msgs[i-1]) /\ f[i] = f[i-1] \o chunks[i]
      BY <1>2, <3>1
    <3>3. Carries(cases, msgs[i-1], chunks[i], msgs[i])
      BY <3>1
    <3>4. Carries(cases, msgs[0], f[i], msgs[i])
      BY <3>2, <3>3, CarriesBoth
    <3> QED BY <3>4
  <2> QED BY <2>2, <2>3
<1>4. n \in 0..n /\ n \notin T
  BY <1>3
<1> QED BY <1>2, <1>4

\* The bytes of one field.
IsPiece(cases, f, its, x) ==
    f \in Octets /\ NextField(cases, f) = << [case |-> its, value |-> x, rest |-> <<>>] >>

\* A field is read as the piece that it is.
LEMMA PieceFact ==
    ASSUME NEW cases, NEW f, NEW its, NEW x, IsPiece(cases, f, its, x)
    PROVE  Left(<<>>, f, 2) /\ FieldAt(cases, f, its, x, <<>>)
<1>1. f \in Octets /\ NextField(cases, f) = << [case |-> its, value |-> x, rest |-> <<>>] >>
  BY DEF IsPiece
<1>2. PICK i, y, r : Left(r, f, 2) /\ FieldAt(cases, f, i, y, r)
  <2>1. NextField(cases, f) # <<>>
    BY <1>1
  <2> QED BY <1>1, <2>1, FieldLocal
<1>3. r \in Octets
  BY <1>2 DEF Left
<1>4. NextField(cases, f) = << [case |-> i, value |-> y, rest |-> r] >>
  BY <1>1, <1>2, <1>3, FieldHere
<1>5. i = its /\ y = x /\ r = <<>>
  <2>1. [case |-> i, value |-> y, rest |-> r] = [case |-> its, value |-> x, rest |-> <<>>]
    BY <1>1, <1>4
  <2> QED BY <2>1
<1> QED BY <1>2, <1>5

\* It takes a message to the one that the field has been merged into.
LEMMA CarriesPiece ==
    ASSUME NEW cases, NEW f, NEW its, NEW x, IsPiece(cases, f, its, x), NEW m, NEW n,
           \A tail : Merged([case |-> its, value |-> x, rest |-> tail], m) = <<n>>
    PROVE  Carries(cases, m, f, n)
<1>1. f \in Octets /\ Len(f) \in Nat /\ Len(f) >= 2
  BY PieceFact DEF IsPiece, Left, Octets
<1>2. ASSUME NEW tail \in Octets
      PROVE  Fill(cases, m, f \o tail) = Fill(cases, n, tail)
  <2> DEFINE b == f \o tail
             field == [case |-> its, value |-> x, rest |-> tail]
  <2>1. NextField(cases, b) = <<field>>
    <3>1. <<>> \o tail = tail
      BY DEF Octets
    <3> QED BY <3>1, PieceFact DEF FieldAt
  <2>2. b \in Octets /\ Left(tail, b, 2)
    <3>1. b \in Seq(Byte) /\ Len(b) = Len(f) + Len(tail) /\ Len(tail) \in Nat
      BY <1>1, ConcatFact DEF Octets
    <3> QED BY <1>1, <3>1 DEF Left, Octets
  <2>3. Merged(field, m) = <<n>>
    OBVIOUS
  <2> HIDE DEF b
  <2>4. ReadInto(cases, State(m, b)) = <<State(n, tail)>>
    <3>1. <<n>> # <<>> /\ <<n>>[1] = n
      OBVIOUS
    <3> QED BY <2>1, <2>3, <3>1, ReadIntoField
  <2> QED BY <2>2, <2>4, FillStep DEF b
<1> QED BY <1>1, <1>2 DEF Carries

\* What has lost its end is refused.
LEMMA PieceCut ==
    ASSUME NEW cases, NEW f, NEW its, NEW x, IsPiece(cases, f, its, x),
           NEW m, NEW n \in 1..(Len(f) - 1)
    PROVE  Fill(cases, m, Cut(f, n)) = <<>>
<1> DEFINE b == Cut(f, n)
           tail == After(f, n)
<1>1. f \in Octets /\ f \in Seq(Byte) /\ Len(f) \in Nat /\ n \in 0..Len(f) /\ n > 0 /\ n < Len(f)
  BY DEF IsPiece, Octets
<1>2. b \in Octets /\ Len(b) = n /\ tail \in Octets /\ Len(tail) = Len(f) - n
  BY <1>1, CutFact, AfterFact DEF Octets
<1>3. b \o tail = f
  <2>1. /\ Len(b \o tail) = Len(f) /\ b \o tail \in Seq(Byte)
        /\ \A i \in 1..Len(b) : (b \o tail)[i] = b[i]
        /\ \A i \in 1..Len(tail) : (b \o tail)[Len(b) + i] = tail[i]
    <3> HIDE DEF b, tail
    <3> QED BY <1>1, <1>2, ConcatFact DEF Octets
  <2>2. /\ \A i \in 1..n : b[i] = f[i]
        /\ \A i \in 1..(Len(f) - n) : tail[i] = f[n + i]
    <3>1. f \in Seq(Byte) /\ n \in 0..Len(f)
      BY <1>1
    <3>2. /\ \A i \in 1..n : Cut(f, n)[i] = f[i]
          /\ \A i \in 1..(Len(f) - n) : After(f, n)[i] = f[n + i]
      <4>1. \A i \in 1..n : Cut(f, n)[i] = f[i]
        BY ONLY <3>1, CutFact, Zenon
      <4>2. \A i \in 1..(Len(f) - n) : After(f, n)[i] = f[n + i]
        BY ONLY <3>1, AfterFact, Zenon
      <4> QED BY <4>1, <4>2
    <3> QED BY <3>2
  <2>3. ASSUME NEW i \in 1..Len(f) PROVE (b \o tail)[i] = f[i]
    <3> HIDE DEF b, tail
    <3>1. CASE i <= n
      BY <1>1, <1>2, <2>1, <2>2, <3>1
    <3>2. CASE ~ (i <= n)
      <4> DEFINE j == i - n
      <4>1. j \in 1..(Len(f) - n) /\ i = n + j
        BY <1>1, <3>2
      <4> HIDE DEF j
      <4> QED BY <1>1, <1>2, <2>1, <2>2, <4>1
    <3> QED BY <3>1, <3>2
  <2> HIDE DEF b, tail
  <2> QED BY <1>1, <2>1, <2>3, SameSeq
<1> HIDE DEF b, tail
<1>4. NextField(cases, b) = <<>>
  <2> SUFFICES ASSUME NextField(cases, b) # <<>> PROVE FALSE
    OBVIOUS
  <2>1. PICK i, y, r : Left(r, b, 2) /\ FieldAt(cases, b, i, y, r)
    BY <1>2, FieldLocal
  <2>2. r \in Octets /\ Len(r \o tail) = Len(r) + Len(tail) /\ Len(r) \in Nat /\ Len(tail) > 0
    <3>1. r \in Octets /\ r \in Seq(Byte) /\ tail \in Seq(Byte) /\ Len(r) \in Nat
      BY <1>2, <2>1 DEF Left, Octets
    <3>2. Len(r \o tail) = Len(r) + Len(tail)
      BY <3>1, ConcatFact
    <3> QED BY <1>1, <1>2, <3>1, <3>2
  <2>3. NextField(cases, f) = << [case |-> i, value |-> y, rest |-> r \o tail] >>
    BY <1>2, <1>3, <2>1 DEF FieldAt
  <2>4. [case |-> i, value |-> y, rest |-> r \o tail] = [case |-> its, value |-> x, rest |-> <<>>]
    BY <2>3 DEF IsPiece
  <2>5. r \o tail = <<>>
    BY <2>4
  <2> QED BY <1>2, <2>2, <2>5
<1>5. b # <<>> /\ ReadInto(cases, State(m, b)) = <<>>
  BY <1>1, <1>2, <1>4 DEF ReadInto, Then, State
<1> QED BY <1>2, <1>5, FillRefused DEF b

\* A field that a row has written is a piece, for a reader with a case for it,
LEMMA KnownPiece ==
    ASSUME NEW cases, NEW c \in cases, \A d \in cases : d.at = c.at => d = c,
           NEW row, SameTag(row, c), NEW x, IsValue(c, x)
    PROVE  IsPiece(cases, Tagged(row, Payload(c, x)), {c}, x)
<1>1. <<>> \in Octets
  BY DEF Octets
<1>2. Tagged(row, Payload(c, x)) \in Octets
  BY <1>1, FieldParts
<1>3. NextField(cases, Tagged(row, Payload(c, x)) \o <<>>)
                = << [case |-> {c}, value |-> x, rest |-> <<>>] >>
  <2> DEFINE tail == <<>>
  <2>1. tail \in Octets
    BY <1>1
  <2> HIDE DEF tail
  <2>2. NextField(cases, Tagged(row, Payload(c, x)) \o tail)
                = << [case |-> {c}, value |-> x, rest |-> tail] >>
    BY <2>1, FieldRoundTrip
  <2> QED BY <2>2 DEF tail
<1> QED BY <1>2, <1>3, EmptyTail DEF IsPiece

\* and for one without.
LEMMA UnknownPiece ==
    ASSUME NEW row, NEW c, SameTag(row, c), NEW x, IsValue(c, x),
           NEW cases, \A d \in cases : d.at # c.at
    PROVE  LET f == Tagged(row, Payload(c, x)) IN IsPiece(cases, f, {}, f)
<1> DEFINE f == Tagged(row, Payload(c, x))
<1>1. <<>> \in Octets
  BY DEF Octets
<1>2. f \in Octets
  BY <1>1, FieldParts
<1>3. NextField(cases, f \o <<>>) = << [case |-> {}, value |-> f, rest |-> <<>>] >>
  BY <1>1, UnknownFieldKept
<1> HIDE DEF f
<1>4. IsPiece(cases, f, {}, f)
  BY <1>2, <1>3, EmptyTail DEF IsPiece
<1> QED BY <1>4 DEF f

\* A field that has a case is stored,
LEMMA CarriesField ==
    ASSUME NEW cases, NEW c \in cases, \A d \in cases : d.at = c.at => d = c,
           NEW row, SameTag(row, c), NEW x, IsValue(c, x),
           NEW m, NEW n, Stored(c, m, x) = <<n>>
    PROVE  Carries(cases, m, Tagged(row, Payload(c, x)), n)
<1>1. (CHOOSE d \in {c} : TRUE) = c
  OBVIOUS
<1>2. \A tail : Merged([case |-> {c}, value |-> x, rest |-> tail], m) = <<n>>
  BY <1>1 DEF Merged
<1> QED BY <1>2, KnownPiece, CarriesPiece

\* and one that has none is kept.
LEMMA CarriesUnknown ==
    ASSUME NEW cases, NEW f, IsPiece(cases, f, {}, f), NEW m
    PROVE  Carries(cases, m, f, Keep(m, f))
<1> DEFINE n == Keep(m, f)
<1>1. \A tail : Merged([case |-> {}, value |-> f, rest |-> tail], m) = <<n>>
  BY DEF Merged
<1> HIDE DEF n
<1>2. Carries(cases, m, f, n)
  BY <1>1, CarriesPiece
<1> QED BY <1>2 DEF n

-------------------------------------------------------------------------------
(* The fields of a message *)

\* The messages within a field that a case can read.
Inner(c, v) ==
    CASE c.kind \in {"Msg", "Msgs"} -> {v[i] : i \in DOMAIN v}
      [] c.kind = "MapOf" -> {v[i].value[1] : i \in DOMAIN v}
      [] OTHER -> {}

\* A message that is counted right and comes out of its encoding again.
Returns(type, e) ==
    LET b == NestedEncoded(Marshals[type], e)
    IN  /\ Text(b) /\ NestedSizeVT(Sizes[type], e) = Len(b)
        /\ NestedFill(Unmarshals[type], New(Unmarshals[type]), b) = <<e>>

\* A field that holds old is given an element, and then holds new.
Reads(row, c, old, e, new) ==
    /\ IsValue(c, Raw(row, e))
    /\ \E w : Meaning(c, old, Raw(row, e)) = <<w>> /\ Put(c, old, w) = new

Plain == Scalars \cup Lists \cup (Options \ {"Arm", "BytesArm"})

\* What is written of a field of each kind.
LEMMA Kinds ==
    /\ Scalars = {"Bytes", "Num", "Enum", "Bool"}
    /\ Lists = {"Texts", "Msgs", "MapOf"}
    /\ Options = {"OptBytes", "OptNum", "Opaque", "Msg", "Arm", "BytesArm"}
    /\ Plain = {"Bytes", "Num", "Enum", "Bool", "Texts", "Msgs", "MapOf",
                "OptBytes", "OptNum", "Opaque", "Msg"}
BY DEF Scalars, Lists, Options, Plain

\* A scalar is replaced by the one that is read,
LEMMA ReadsScalar ==
    ASSUME NEW row, NEW c, row.kind = c.kind, c.kind \in Scalars,
           NEW v, Holds(c, v), v # <<>>, NEW old
    PROVE  Reads(row, c, old, v, v)
<1>1. CASE c.kind = "Bytes"
  BY <1>1 DEF Reads, Holds, IsValue, IsNumber, Raw, Meaning, Put
<1>2. CASE c.kind = "Num"
  BY <1>2 DEF Reads, Holds, IsValue, IsNumber, Raw, Meaning, Put
<1>3. CASE c.kind = "Enum"
  BY <1>3 DEF Reads, Holds, IsValue, IsNumber, Raw, Meaning, Put
<1>4. CASE c.kind = "Bool"
  <2>1. v = <<1>>
    BY <1>4 DEF Holds
  <2>2. Numeral(v)
    <3>1. <<1>> \in Seq(Group) /\ Len(<<1>>) = 1 /\ <<1>>[1] = 1
      BY Ranges
    <3> QED BY <2>1, <3>1 DEF Numeral
  <2> QED BY <1>4, <2>1, <2>2 DEF Reads, IsValue, IsNumber, Raw, Meaning, Put
<1> QED BY <1>1, <1>2, <1>3, <1>4, Kinds

\* a list and its elements,
LEMMA ListFact ==
    ASSUME NEW v, IsList(v), NEW i \in 1..Len(v)
    PROVE  /\ Len(v) \in Nat /\ DOMAIN v = 1..Len(v) /\ i \in DOMAIN v
           /\ SubSeq(v, 1, 0) = <<>> /\ SubSeq(v, 1, Len(v)) = v
           /\ Append(SubSeq(v, 1, i - 1), v[i]) = SubSeq(v, 1, i)
           /\ Len(SubSeq(v, 1, i - 1)) = i - 1 /\ DOMAIN SubSeq(v, 1, i - 1) = 1..(i - 1)
           /\ \A j \in 1..(i - 1) : SubSeq(v, 1, i - 1)[j] = v[j] /\ j \in DOMAIN v
<1> DEFINE S == {v[j] : j \in DOMAIN v}
<1>1. v \in Seq(S)
  BY DEF IsList
<1> HIDE DEF S
<1>2. Len(v) \in Nat /\ DOMAIN v = 1..Len(v) /\ i \in DOMAIN v
  BY <1>1
<1>3. SubSeq(v, 1, 0) = <<>> /\ SubSeq(v, 1, Len(v)) = v
  BY <1>1
<1>4. /\ SubSeq(v, 1, i - 1) \in Seq(S) /\ Len(SubSeq(v, 1, i - 1)) = i - 1
      /\ \A j \in 1..(i - 1) : SubSeq(v, 1, i - 1)[j] = v[j] /\ j \in DOMAIN v
  BY <1>1, <1>2
<1>5. Append(SubSeq(v, 1, i - 1), v[i]) = SubSeq(v, 1, i)
  <2> DEFINE a == SubSeq(v, 1, i - 1)
             s == Append(a, v[i])
             t == SubSeq(v, 1, i)
  <2>1. v[i] \in S
    BY <1>1, <1>2
  <2>2. /\ s \in Seq(S) /\ Len(s) = i /\ \A j \in 1..(i - 1) : s[j] = v[j]
        /\ s[i] = v[i]
    <3>1. a \in Seq(S) /\ Len(a) = i - 1 /\ \A j \in 1..(i - 1) : a[j] = v[j]
      BY <1>4
    <3> HIDE DEF a
    <3> QED BY <2>1, <3>1
  <2>3. t \in Seq(S) /\ Len(t) = i /\ \A j \in 1..i : t[j] = v[j]
    BY <1>1, <1>2
  <2> HIDE DEF s, t
  <2>4. \A j \in 1..i : s[j] = t[j]
    BY <2>2, <2>3
  <2>5. s = t
    BY <2>2, <2>3, <2>4, SameSeq
  <2> QED BY <2>5 DEF s, t
<1> QED BY <1>2, <1>3, <1>4, <1>5

\* a pointer is set,
LEMMA ReadsOption ==
    ASSUME NEW row, NEW c, row.kind = c.kind, row.type = c.type,
           c.kind \in Options \ {"Arm", "BytesArm"},
           NEW v, Holds(c, v), IsList(v), Len(v) = 1, \A e \in Inner(c, v) : Returns(c.type, e)
    PROVE  Reads(row, c, <<>>, v[1], v)
<1>1. v = <<v[1]>> /\ 1 \in DOMAIN v
  BY DEF IsList
<1>2. CASE c.kind = "OptBytes"
  BY <1>1, <1>2 DEF Reads, Holds, IsValue, IsNumber, Raw, Meaning, Put
<1>3. CASE c.kind = "OptNum"
  BY <1>1, <1>3 DEF Reads, Holds, IsValue, IsNumber, Raw, Meaning, Put
<1>4. CASE c.kind = "Opaque"
  <2>1. Text(v[1])
    BY <1>1, <1>4 DEF Holds
  <2>2. FlattenSeq(<<>>) \o v[1] = v[1]
    BY <2>1 DEF FlattenSeq, Text, Octets
  <2> DEFINE e == v[1]
  <2>3. v = <<FlattenSeq(<<>>) \o e>>
    BY <1>1, <2>2
  <2> HIDE DEF e
  <2>4. Raw(row, e) = e /\ Meaning(c, <<>>, e) = <<e>> /\ Put(c, <<>>, e) = v
    BY <1>4, <2>3 DEF Raw, Meaning, Put
  <2>5. IsValue(c, e)
    BY <1>4, <2>1 DEF IsValue, IsNumber, e
  <2>6. Reads(row, c, <<>>, e, v)
    BY <2>4, <2>5 DEF Reads
  <2> QED BY <2>6 DEF e
<1>5. CASE c.kind = "Msg"
  <2> DEFINE e == v[1]
             b == NestedEncoded(Marshals[c.type], e)
  <2>1. Returns(c.type, e)
    BY <1>1, <1>5 DEF Inner
  <2>2. Raw(row, e) = b
    BY <1>5 DEF Raw
  <2>3. Start(c, <<>>) = New(Unmarshals[c.type])
    BY <1>5 DEF Start
  <2>4. Text(b) /\ NestedFill(Unmarshals[c.type], New(Unmarshals[c.type]), b) = <<e>>
    BY <2>1 DEF Returns
  <2> HIDE DEF e, b
  <2>5. Meaning(c, <<>>, b) = <<e>>
    BY <1>5, <2>3, <2>4 DEF Meaning
  <2>6. Put(c, <<>>, e) = v
    BY <1>1, <1>5 DEF Put, e
  <2>7. IsValue(c, b)
    BY <1>5, <2>4 DEF IsValue, IsNumber
  <2>8. Reads(row, c, <<>>, e, v)
    BY <2>2, <2>5, <2>6, <2>7 DEF Reads
  <2> QED BY <2>8 DEF e
<1> QED BY <1>2, <1>3, <1>4, <1>5, Kinds

\* a string is appended,
LEMMA ReadsTexts ==
    ASSUME NEW row, NEW c, row.kind = c.kind, c.kind = "Texts",
           NEW v, Holds(c, v), IsList(v), NEW i \in 1..Len(v)
    PROVE  Reads(row, c, SubSeq(v, 1, i - 1), v[i], SubSeq(v, 1, i))
<1> DEFINE old == SubSeq(v, 1, i - 1)
           e == v[i]
<1>1. Append(old, e) = SubSeq(v, 1, i) /\ i \in DOMAIN v
  BY ListFact
<1>2. Text(e)
  BY <1>1 DEF Holds
<1> HIDE DEF old, e
<1>3. Raw(row, e) = e /\ Meaning(c, old, e) = <<e>> /\ Put(c, old, e) = SubSeq(v, 1, i)
  BY <1>1 DEF Raw, Meaning, Put
<1>4. IsValue(c, e)
  BY <1>2 DEF IsValue, IsNumber
<1>5. Reads(row, c, old, e, SubSeq(v, 1, i))
  BY <1>3, <1>4 DEF Reads
<1> QED BY <1>5 DEF old, e

\* and so is a message.
LEMMA ReadsMsgs ==
    ASSUME NEW row, NEW c, row.kind = c.kind, row.type = c.type, c.kind = "Msgs",
           NEW v, IsList(v), \A e \in Inner(c, v) : Returns(c.type, e), NEW i \in 1..Len(v)
    PROVE  Reads(row, c, SubSeq(v, 1, i - 1), v[i], SubSeq(v, 1, i))
<1> DEFINE old == SubSeq(v, 1, i - 1)
           e == v[i]
           b == NestedEncoded(Marshals[c.type], e)
<1>1. Append(old, e) = SubSeq(v, 1, i) /\ i \in DOMAIN v
  BY ListFact
<1>2. Returns(c.type, e)
  BY <1>1 DEF Inner
<1>3. Text(b) /\ NestedFill(Unmarshals[c.type], New(Unmarshals[c.type]), b) = <<e>>
  BY <1>2 DEF Returns
<1>4. Start(c, old) = New(Unmarshals[c.type])
  BY DEF Start
<1>5. Raw(row, e) = b
  BY DEF Raw
<1> HIDE DEF old, e, b
<1>6. Meaning(c, old, b) = <<e>>
  BY <1>3, <1>4 DEF Meaning
<1>7. Put(c, old, e) = SubSeq(v, 1, i)
  BY <1>1 DEF Put
<1>8. IsValue(c, b)
  BY <1>3 DEF IsValue, IsNumber
<1>9. Reads(row, c, old, e, SubSeq(v, 1, i))
  BY <1>5, <1>6, <1>7, <1>8 DEF Reads
<1> QED BY <1>9 DEF old, e

\* The tags of an entry's key and value.
EntryTag(at, byte) ==
    at \in 1..15 /\ EncodeVarint(Groups(8 * at + 2)) = <<byte>>

\* The tag of a key or a value is read.
LEMMA EntryTagRead ==
    ASSUME NEW at, NEW byte, EntryTag(at, byte), NEW tail \in Octets
    PROVE  /\ <<byte>> \in Octets
           /\ \E g : /\ ReadVarint(<<byte>> \o tail) = << [value |-> g, rest |-> tail] >>
                     /\ FieldNumber(g) = at
<1> DEFINE c == [at |-> at, kind |-> "Bytes"]
           g == Groups(TagOf(c))
<1>1. c.at = at /\ c.kind = "Bytes" /\ WireType(c) = 2
  BY DEF WireType, IsNumber
<1>2. TagOf(c) = 8 * at + 2
  BY <1>1 DEF TagOf
<1>3. HasTag(c)
  BY <1>1 DEF HasTag, EntryTag, Huge
<1> HIDE DEF c
<1>4. Numeral(g) /\ FieldNumber(g) = at
  BY <1>1, <1>3, TagFact
<1>5. EncodeVarint(g) = <<byte>>
  BY <1>2 DEF EntryTag
<1> HIDE DEF g
<1>6. <<byte>> \in Octets
  BY <1>4, <1>5, VarintShape
<1>7. ReadVarint(<<byte>> \o tail) = << [value |-> g, rest |-> tail] >>
  BY <1>4, <1>5, VarintRoundTrip
<1> QED BY <1>4, <1>6, <1>7

\* An entry of a map is read as it was written.
EntryFits(row, c) ==
    EntryTag(c.keyAt, row.keyAt) /\ EntryTag(c.valueAt, row.valueAt) /\ c.keyAt # c.valueAt

\* One sequence alone.
LEMMA FlattenOne ==
    ASSUME NEW b \in Octets
    PROVE  FlattenSeq([k \in 1..1 |-> b]) = b
<1> DEFINE seqs == [k \in 1..1 |-> b]
           n == 1
<1>1. seqs \in [1..n -> Seq(Byte)] /\ seqs[1] = b /\ n \in Nat
  BY DEF Octets
<1> HIDE DEF seqs, n
<1>2. PICK f \in [0..n -> Seq(Byte)] :
          /\ f[0] = <<>>
          /\ \A i \in 1..n : f[i] = f[i-1] \o seqs[i]
          /\ FlattenSeq(seqs) = f[n]
  BY <1>1, FlattenFact
<1>3. f[1] = <<>> \o b
  <2>1. 1 \in 1..n /\ 1 - 1 = 0
    BY DEF n
  <2>2. f[1] = f[1-1] \o seqs[1]
    BY <1>2, <2>1
  <2> QED BY <1>1, <1>2, <2>1, <2>2
<1>4. <<>> \o b = b
  BY DEF Octets
<1>5. FlattenSeq(seqs) = b
  BY <1>2, <1>3, <1>4 DEF n
<1> QED BY <1>5 DEF seqs

\* An entry is its key and its value, each with a tag.
LEMMA EntryParts ==
    ASSUME NEW row, NEW e, IsList(e.value), Len(e.value) = 1,
           Text(NestedEncoded(Marshals[row.type], e.value[1]))
    PROVE  EntryBytes(row, e) = (<<row.keyAt>> \o Prefixed(e.key)) \o
              (<<row.valueAt>> \o Prefixed(NestedEncoded(Marshals[row.type], e.value[1])))
<1> DEFINE b == NestedEncoded(Marshals[row.type], e.value[1])
           all == [k \in 1..Len(e.value) |-> NestedEncoded(Marshals[row.type], e.value[k])]
<1>1. all = [k \in 1..1 |-> b]
  OBVIOUS
<1>2. b \in Octets
  BY DEF Text
<1> HIDE DEF b
<1>3. FlattenSeq(all) = b
  BY <1>1, <1>2, FlattenOne
<1>4. EntryBytes(row, e) = <<row.keyAt>> \o Prefixed(e.key) \o <<row.valueAt>> \o Prefixed(FlattenSeq(all))
  BY DEF EntryBytes
<1> HIDE DEF all
<1>5. EntryBytes(row, e) = <<row.keyAt>> \o Prefixed(e.key) \o <<row.valueAt>> \o Prefixed(b)
  BY <1>3, <1>4
<1> QED BY <1>5 DEF b

Entry(key, value, rest) == [key |-> key, value |-> value, rest |-> rest]

\* The key is read first,
LEMMA EntryKeyRead ==
    ASSUME NEW row, NEW c, EntryFits(row, c), NEW key, Text(key), NEW value, NEW tail \in Octets
    PROVE  LET b == (<<row.keyAt>> \o Prefixed(key)) \o tail
           IN  /\ b \in Octets /\ Len(b) >= Len(tail) + 2
               /\ EntryField(c, Entry(<<>>, value, b)) = <<Entry(key, value, tail)>>
<1> DEFINE k == <<row.keyAt>>
           p == Prefixed(key)
           after == p \o tail
           b == (k \o p) \o tail
           s == Entry(<<>>, value, b)
<1>1. p \in Octets /\ Len(p) \in Nat /\ Len(p) >= 1
  <2> DEFINE e == EncodeVarint(Groups(Len(key)))
  <2>1. e \in Octets /\ Len(e) \in Nat /\ 1 <= Len(e) /\ p \in Octets /\ Len(p) = Len(e) + Len(key)
    BY PrefixedShape
  <2>2. Len(key) \in Nat
    BY DEF Text, Octets
  <2> HIDE DEF e, p
  <2> QED BY <2>1, <2>2
<1>2. TakeBytes(after) = << [value |-> key, rest |-> tail] >>
  BY BytesRoundTrip
<1> HIDE DEF p
<1>3. after \in Octets /\ Len(after) = Len(p) + Len(tail) /\ Len(tail) \in Nat
  <2>1. p \in Seq(Byte) /\ tail \in Seq(Byte)
    BY <1>1 DEF Octets
  <2> QED BY <2>1, ConcatFact DEF Octets
<1>4. PICK g : ReadVarint(k \o after) = << [value |-> g, rest |-> after] >> /\ FieldNumber(g) = c.keyAt
  BY <1>3, EntryTagRead DEF EntryFits
<1>5. k \in Octets /\ Len(k) = 1
  BY <1>3, EntryTagRead DEF EntryFits
<1> HIDE DEF k
<1>6. b = k \o after /\ b \in Octets /\ Len(b) = Len(k) + Len(after)
  <2>1. k \in Seq(Byte) /\ p \in Seq(Byte) /\ tail \in Seq(Byte)
    BY <1>1, <1>5 DEF Octets
  <2>2. b = k \o after
    BY <2>1
  <2>3. k \o after \in Seq(Byte) /\ Len(k \o after) = Len(k) + Len(after)
    <3>1. after \in Seq(Byte)
      BY <1>3 DEF Octets
    <3> HIDE DEF after
    <3> QED BY <2>1, <3>1, ConcatFact
  <2> QED BY <2>2, <2>3 DEF Octets
<1> HIDE DEF after, b
<1>7. s.rest = b /\ s.value = value
  BY DEF Entry
<1> HIDE DEF s
<1>8. EntryField(c, s) = EntryKey(s, after)
  <2> DEFINE tag == [value |-> g, rest |-> after]
  <2>1. ReadVarint(s.rest) = <<tag>> /\ FieldNumber(tag.value) = c.keyAt /\ tag.rest = after
    BY <1>4, <1>6, <1>7
  <2> HIDE DEF tag
  <2>2. <<tag>> # <<>> /\ <<tag>>[1] = tag
    OBVIOUS
  <2>3. EntryField(c, s) =
            CASE FieldNumber(tag.value) = c.keyAt -> EntryKey(s, tag.rest)
              [] FieldNumber(tag.value) = c.valueAt -> EntryValue(c, s, tag.rest)
              [] OTHER -> EntryOther(s)
    BY <2>1, <2>2 DEF EntryField, Then
  <2>4. c.keyAt # c.valueAt
    BY DEF EntryFits
  <2> QED BY <2>1, <2>3, <2>4
<1>9. EntryKey(s, after) = <<Entry(key, value, tail)>>
  BY <1>2, <1>7 DEF EntryKey, Then, Entry
<1>10. Len(b) >= Len(tail) + 2
  BY <1>1, <1>3, <1>5, <1>6
<1>11. b \in Octets /\ Len(b) >= Len(tail) + 2 /\ EntryField(c, s) = <<Entry(key, value, tail)>>
  BY <1>6, <1>8, <1>9, <1>10
<1> QED BY <1>11 DEF s, b, k, p

\* then the value,
LEMMA EntryValueRead ==
    ASSUME NEW row, NEW c, EntryFits(row, c), NEW x, NEW b, Text(b),
           NestedFill(Unmarshals[c.type], New(Unmarshals[c.type]), b) = <<x>>, NEW key
    PROVE  LET w == <<row.valueAt>> \o Prefixed(b)
           IN  /\ w \in Octets /\ Len(w) >= 2
               /\ EntryField(c, Entry(key, <<>>, w)) = <<Entry(key, <<x>>, <<>>)>>
<1> DEFINE k == <<row.valueAt>>
           p == Prefixed(b)
           w == k \o p
           s == Entry(key, <<>>, w)
<1>1. p \in Octets /\ Len(p) \in Nat /\ Len(p) >= 1
  <2> DEFINE e == EncodeVarint(Groups(Len(b)))
  <2>1. e \in Octets /\ Len(e) \in Nat /\ 1 <= Len(e) /\ p \in Octets /\ Len(p) = Len(e) + Len(b)
    BY PrefixedShape
  <2>2. Len(b) \in Nat
    BY DEF Text, Octets
  <2> HIDE DEF e, p
  <2> QED BY <2>1, <2>2
<1>2. TakeBytes(p) = << [value |-> b, rest |-> <<>>] >>
  <2> DEFINE tail == <<>>
  <2>1. tail \in Octets
    BY DEF Octets
  <2>2. p \o tail = p
    BY <1>1, EmptyTail
  <2> HIDE DEF tail
  <2>3. TakeBytes(p \o tail) = << [value |-> b, rest |-> tail] >>
    BY <2>1, BytesRoundTrip
  <2> HIDE DEF p
  <2> QED BY <2>2, <2>3 DEF tail
<1> HIDE DEF p
<1>4. PICK g : ReadVarint(k \o p) = << [value |-> g, rest |-> p] >> /\ FieldNumber(g) = c.valueAt
  BY <1>1, EntryTagRead DEF EntryFits
<1>5. k \in Octets /\ Len(k) = 1
  BY <1>1, EntryTagRead DEF EntryFits
<1> HIDE DEF k
<1>6. w \in Octets /\ Len(w) >= 2
  <2>1. k \in Seq(Byte) /\ p \in Seq(Byte)
    BY <1>1, <1>5 DEF Octets
  <2>2. w \in Seq(Byte) /\ Len(w) = Len(k) + Len(p)
    BY <2>1, ConcatFact
  <2> HIDE DEF w
  <2> QED BY <1>1, <1>5, <2>2 DEF Octets
<1>7. s.rest = w /\ s.key = key /\ c.keyAt # c.valueAt
  BY DEF Entry, EntryFits
<1> HIDE DEF s
<1>8. EntryField(c, s) = EntryValue(c, s, p)
  <2> DEFINE tag == [value |-> g, rest |-> p]
  <2>1. ReadVarint(s.rest) = <<tag>> /\ FieldNumber(tag.value) = c.valueAt /\ tag.rest = p
    BY <1>4, <1>7
  <2> HIDE DEF tag
  <2>2. <<tag>> # <<>> /\ <<tag>>[1] = tag
    OBVIOUS
  <2>3. EntryField(c, s) =
            CASE FieldNumber(tag.value) = c.keyAt -> EntryKey(s, tag.rest)
              [] FieldNumber(tag.value) = c.valueAt -> EntryValue(c, s, tag.rest)
              [] OTHER -> EntryOther(s)
    BY <2>1, <2>2 DEF EntryField, Then
  <2> QED BY <1>7, <2>1, <2>3
<1>9. EntryValue(c, s, p) = <<Entry(key, <<x>>, <<>>)>>
  <2> DEFINE fresh == New(Unmarshals[c.type])
             cases == Unmarshals[c.type]
  <2>1. NestedFill(cases, fresh, b) = <<x>>
    OBVIOUS
  <2> HIDE DEF fresh, cases
  <2> QED BY <1>2, <1>7, <2>1 DEF EntryValue, Then, Entry, fresh, cases
<1>10. w \in Octets /\ Len(w) >= 2 /\ EntryField(c, s) = <<Entry(key, <<x>>, <<>>)>>
  BY <1>6, <1>8, <1>9
<1> QED BY <1>10 DEF s, w, k, p

\* and nothing is left of the entry.
LEMMA EntryRead ==
    ASSUME NEW row, NEW c, c.kind = "MapOf", EntryFits(row, c), row.type = c.type,
           NEW e, e = [key |-> e.key, value |-> e.value],
           Text(e.key), IsList(e.value), Len(e.value) = 1, Returns(c.type, e.value[1])
    PROVE  FillEntry(c, EntryBytes(row, e)) = <<e>>
<1> DEFINE key == e.key
           x == e.value[1]
           enc == NestedEncoded(Marshals[c.type], x)
           w == <<row.valueAt>> \o Prefixed(enc)
           b == (<<row.keyAt>> \o Prefixed(key)) \o w
           f == Loop(c, Entry(<<>>, <<>>, b))
<1>1. Text(enc) /\ NestedFill(Unmarshals[c.type], New(Unmarshals[c.type]), enc) = <<x>>
  BY DEF Returns
<1>2. EntryBytes(row, e) = b
  BY <1>1, EntryParts
<1>3. e.value = <<x>>
  BY DEF IsList
<1> HIDE DEF key, x, enc
<1>4. /\ w \in Octets /\ Len(w) >= 2
      /\ EntryField(c, Entry(key, <<>>, w)) = <<Entry(key, <<x>>, <<>>)>>
  BY <1>1, EntryValueRead
<1> HIDE DEF w
<1>5. /\ b \in Octets /\ Len(b) >= Len(w) + 2
      /\ EntryField(c, Entry(<<>>, <<>>, b)) = <<Entry(key, <<>>, w)>>
  BY <1>4, EntryKeyRead DEF key
<1> HIDE DEF b
<1>6. Len(w) \in Nat /\ Len(b) \in Nat /\ b # <<>> /\ w # <<>> /\ Turns(b) \in Nat /\ 2 <= Turns(b)
  <2>1. Len(w) \in Nat /\ Len(b) \in Nat
    BY <1>4, <1>5 DEF Octets
  <2>2. Turns(b) \in Nat /\ Len(b) <= 2 * Turns(b)
    BY <1>5, TurnsFact
  <2> QED BY <1>4, <1>5, <2>1, <2>2
<1>7. /\ f[0] = <<Entry(<<>>, <<>>, b)>>
      /\ f[0+1] = Turn(c, f[0]) /\ f[1+1] = Turn(c, f[1])
  BY LoopTurns
<1> HIDE DEF f
<1>8. ASSUME NEW k, NEW v, NEW r, r # <<>>
      PROVE  Turn(c, <<Entry(k, v, r)>>) = EntryField(c, Entry(k, v, r))
  <2> DEFINE s == Entry(k, v, r)
  <2>1. s.rest # <<>>
    BY <1>8 DEF Entry
  <2> HIDE DEF s
  <2>2. Turn(c, <<s>>) = EntryField(c, s)
    BY <2>1 DEF Turn, Then, Step
  <2> QED BY <2>2 DEF s
<1>9. f[1] = <<Entry(key, <<>>, w)>>
  BY <1>5, <1>6, <1>7, <1>8
<1>10. f[2] = <<Entry(key, <<x>>, <<>>)>>
  BY <1>4, <1>6, <1>7, <1>8, <1>9
<1>11. f[Turns(b)] = f[2]
  <2>1. Final(f[2])
    BY <1>10 DEF Final, Entry
  <2> QED BY <1>6, <2>1, LoopStays DEF f
<1>12. FillEntry(c, b) = Then(f[Turns(b)], LAMBDA s : << [key |-> s.key, value |-> s.value] >>)
  BY <1>5, FillEntryIsLoop DEF f, Entry
<1>13. FillEntry(c, b) = << [key |-> key, value |-> <<x>>] >>
  BY <1>10, <1>11, <1>12 DEF Then, Entry
<1>14. FillEntry(c, b) = <<e>>
  BY <1>3, <1>13 DEF key
<1> QED BY <1>2, <1>14

\* An entry of a map is entered when there is none with its key.
LEMMA ReadsMap ==
    ASSUME NEW row, NEW c, row.kind = c.kind, row.type = c.type, c.kind = "MapOf",
           EntryFits(row, c), NEW v, Holds(c, v), IsList(v),
           \A e \in Inner(c, v) : Returns(c.type, e),
           NEW i \in 1..Len(v), Text(EntryBytes(row, v[i]))
    PROVE  Reads(row, c, SubSeq(v, 1, i - 1), v[i], SubSeq(v, 1, i))
<1> DEFINE old == SubSeq(v, 1, i - 1)
           e == v[i]
           b == EntryBytes(row, e)
<1>1. /\ Append(old, e) = SubSeq(v, 1, i) /\ i \in DOMAIN v
      /\ DOMAIN old = 1..(i - 1)
      /\ \A j \in 1..(i - 1) : old[j] = v[j] /\ j \in DOMAIN v
  BY ListFact
<1>2. /\ \A j \in DOMAIN v : IsEntry(c, v[j])
      /\ \A j, k \in DOMAIN v : v[j].key = v[k].key => j = k
  BY DEF Holds
<1>3. IsEntry(c, e) /\ Returns(c.type, e.value[1])
  <2>1. e.value[1] \in Inner(c, v)
    BY <1>1 DEF Inner
  <2> QED BY <1>1, <1>2, <2>1
<1>4. FillEntry(c, b) = <<e>>
  <2> HIDE DEF e
  <2>1. /\ e = [key |-> e.key, value |-> e.value] /\ Text(e.key)
        /\ IsList(e.value) /\ Len(e.value) = 1
    BY <1>3 DEF IsEntry
  <2> QED BY <1>3, <2>1, EntryRead
<1>5. \A j \in DOMAIN old : old[j].key # e.key
  <2> TAKE j \in DOMAIN old
  <2>1. j \in DOMAIN v /\ old[j] = v[j] /\ j # i
    <3>1. j \in 1..(i - 1)
      BY <1>1
    <3> HIDE DEF old
    <3> QED BY <1>1, <3>1
  <2> HIDE DEF old
  <2> QED BY <1>1, <1>2, <2>1
<1>6. Raw(row, e) = b
  BY DEF Raw
<1>7. IsValue(c, b)
  BY DEF IsValue, IsNumber
<1> HIDE DEF old, e, b
<1>8. Meaning(c, old, b) = <<e>>
  BY <1>4 DEF Meaning
<1>9. Put(c, old, e) = SubSeq(v, 1, i)
  <2>1. Put(c, old, e) = Entered(old, e)
    BY DEF Put
  <2>2. Entered(old, e) = Append(old, e)
    BY <1>5 DEF Entered
  <2> QED BY <1>1, <2>1, <2>2
<1>10. Reads(row, c, old, e, SubSeq(v, 1, i))
  BY <1>6, <1>7, <1>8, <1>9 DEF Reads
<1> QED BY <1>10 DEF old, e

\* A field that can be written and read.
Sound(row, c, v) ==
    /\ row.kind = c.kind /\ row.type = c.type /\ c.kind \in Plain
    /\ Holds(c, v)
    /\ c.kind \in Lists \cup Options => IsList(v)
    /\ c.kind \in Options => Len(v) <= 1
    /\ \A e \in Inner(c, v) : Returns(c.type, e)
    /\ c.kind = "MapOf" => EntryFits(row, c) /\ \A i \in DOMAIN v : Text(EntryBytes(row, v[i]))

\* What it holds after i elements.
Before(c, v, i) == IF c.kind \in Scalars THEN (IF i = 0 THEN <<>> ELSE v) ELSE SubSeq(v, 1, i)

\* All elements of a field are read, one by one.
ReadsAll(row, c, v, es) ==
    /\ Len(es) \in Nat /\ es = [i \in 1..Len(es) |-> es[i]]
    /\ Before(c, v, 0) = <<>> /\ Before(c, v, Len(es)) = v
    /\ \A i \in 1..Len(es) : Reads(row, c, Before(c, v, i - 1), es[i], Before(c, v, i))

\* Every element of a field is read, whatever its kind.
LEMMA ElementRead ==
    ASSUME NEW row, NEW c, NEW m, Sound(row, c, m[row.field])
    PROVE  ReadsAll(row, c, m[row.field], Elements(row, m))
<1> DEFINE v == m[row.field]
           es == Elements(row, m)
<1>1. row.kind = c.kind /\ row.type = c.type /\ c.kind \in Plain /\ Holds(c, v)
  BY DEF Sound
<1> SUFFICES ReadsAll(row, c, v, es)
  OBVIOUS
<1>2. CASE c.kind \in Scalars /\ v = <<>>
  <2>1. es = <<>>
    BY <1>1, <1>2, Kinds DEF Elements
  <2>2. \A i : Before(c, v, i) = <<>>
    BY <1>2 DEF Before
  <2> HIDE DEF es
  <2>3. Len(es) = 0
    BY <2>1
  <2>4. es = [i \in 1..Len(es) |-> es[i]]
    BY <2>1
  <2>5. \A i \in 1..Len(es) : FALSE
    BY <2>3
  <2> HIDE DEF v
  <2> QED BY <1>2, <2>2, <2>3, <2>4, <2>5 DEF ReadsAll
<1>3. CASE c.kind \in Scalars /\ v # <<>>
  <2>1. es = <<v>>
    BY <1>1, <1>3 DEF Elements
  <2>2. Before(c, v, 0) = <<>> /\ Before(c, v, 1) = v
    BY <1>3 DEF Before
  <2>3. Reads(row, c, <<>>, v, v)
    BY <1>1, <1>3, ReadsScalar
  <2> HIDE DEF es, v
  <2>4. Len(es) = 1 /\ es[1] = v /\ es = [i \in 1..Len(es) |-> es[i]]
    BY <2>1
  <2>5. \A i \in 1..Len(es) : i = 1 /\ i - 1 = 0
    BY <2>4
  <2>6. \A i \in 1..Len(es) : Reads(row, c, Before(c, v, i - 1), es[i], Before(c, v, i))
    BY <2>2, <2>3, <2>4, <2>5
  <2> QED BY <2>2, <2>4, <2>6 DEF ReadsAll
<1>4. CASE c.kind \notin Scalars
  <2>1. es = v
    BY <1>1, <1>4, Kinds DEF Elements
  <2>2. IsList(v) /\ (c.kind \in Options => Len(v) <= 1)
    BY <1>1, <1>4, Kinds DEF Sound
  <2>3. \A i : Before(c, v, i) = SubSeq(v, 1, i)
    BY <1>4 DEF Before
  <2>4. /\ Len(v) \in Nat /\ v = [i \in 1..Len(v) |-> v[i]]
        /\ SubSeq(v, 1, 0) = <<>> /\ SubSeq(v, 1, Len(v)) = v
    BY <2>2 DEF IsList
  <2>5. ASSUME NEW i \in 1..Len(v) PROVE Reads(row, c, SubSeq(v, 1, i - 1), v[i], SubSeq(v, 1, i))
    <3>1. CASE c.kind \in Options
      <4>1. i = 1 /\ i - 1 = 0 /\ Len(v) = 1
        <5> HIDE DEF v
        <5>1. Len(v) <= 1
          BY <2>2, <3>1
        <5> QED BY <2>4, <5>1
      <4>2. c.kind \in Options \ {"Arm", "BytesArm"}
        BY <1>1, <3>1, Kinds
      <4>3. \A e \in Inner(c, v) : Returns(c.type, e)
        BY DEF Sound
      <4> HIDE DEF v
      <4>4. Reads(row, c, <<>>, v[1], v)
        BY <1>1, <2>2, <4>1, <4>2, <4>3, ReadsOption
      <4> QED BY <2>4, <4>1, <4>4
    <3>2. CASE c.kind = "Texts"
      <4> HIDE DEF v
      <4> QED BY <1>1, <2>2, <3>2, ReadsTexts
    <3>3. CASE c.kind = "Msgs"
      <4>1. \A e \in Inner(c, v) : Returns(c.type, e)
        BY DEF Sound
      <4> HIDE DEF v
      <4> QED BY <1>1, <2>2, <3>3, <4>1, ReadsMsgs
    <3>4. CASE c.kind = "MapOf"
      <4>1. \A e \in Inner(c, v) : Returns(c.type, e)
        BY DEF Sound
      <4>2. EntryFits(row, c) /\ \A j \in DOMAIN v : Text(EntryBytes(row, v[j]))
        BY <3>4 DEF Sound
      <4>3. i \in DOMAIN v
        BY <2>4
      <4> HIDE DEF v
      <4> QED BY <1>1, <2>2, <3>4, <4>1, <4>2, <4>3, ReadsMap
    <3> QED BY <1>1, <1>4, <3>1, <3>2, <3>3, <3>4, Kinds
  <2> HIDE DEF es, v
  <2>6. \A i \in 1..Len(v) : Reads(row, c, Before(c, v, i - 1), v[i], Before(c, v, i))
    BY <2>3, <2>5
  <2> QED BY <2>1, <2>3, <2>4, <2>6 DEF ReadsAll
<1> QED BY <1>2, <1>3, <1>4

-------------------------------------------------------------------------------
(* What is written of a field takes a message to one that has the field *)

\* Fields one after another, and the messages that they lead to.
Chain(cases, chunks, msgs, n) ==
    /\ chunks = [i \in 1..n |-> chunks[i]]
    /\ \A i \in 1..n : \E its, x :
        /\ IsPiece(cases, chunks[i], its, x)
        /\ \A tail : Merged([case |-> its, value |-> x, rest |-> tail], msgs[i - 1]) = <<msgs[i]>>

\* The fields of a chain lead from its first message to its last one.
LEMMA ChainCarries ==
    ASSUME NEW cases, NEW n \in Nat, NEW chunks, NEW msgs, Chain(cases, chunks, msgs, n)
    PROVE  /\ chunks \in [1..n -> Octets]
           /\ Carries(cases, msgs[0], FlattenSeq(chunks), msgs[n])
<1>1. chunks = [i \in 1..n |-> chunks[i]] /\ DOMAIN chunks = 1..n
  BY DEF Chain
<1>2. ASSUME NEW i \in 1..n PROVE chunks[i] \in Octets /\ Carries(cases, msgs[i-1], chunks[i], msgs[i])
  <2>1. PICK its, x :
          /\ IsPiece(cases, chunks[i], its, x)
          /\ \A tail : Merged([case |-> its, value |-> x, rest |-> tail], msgs[i - 1]) = <<msgs[i]>>
    BY DEF Chain
  <2> QED BY <2>1, CarriesPiece DEF IsPiece
<1> QED BY <1>1, <1>2, CarriesAll

\* The message with another value in a field.
With(p, f, v) == [p EXCEPT ![f] = v]

\* Only that field has changed.
LEMMA WithFact ==
    ASSUME NEW p, p = [g \in DOMAIN p |-> p[g]], NEW f \in DOMAIN p, NEW a, NEW b
    PROVE  /\ With(p, f, a)[f] = a
           /\ With(With(p, f, a), f, b) = With(p, f, b)
           /\ p[f] = a => With(p, f, a) = p
           /\ DOMAIN With(p, f, a) = DOMAIN p
           /\ With(p, f, a) = [g \in DOMAIN p |-> IF g = f THEN a ELSE p[g]]
BY DEF With

\* A field that is stored is the only one that changes.
LEMMA StoredWith ==
    ASSUME NEW c, NEW m, NEW x, NEW w, Meaning(c, m[c.field], x) = <<w>>
    PROVE  Stored(c, m, x) = <<With(m, c.field, Put(c, m[c.field], w))>>
BY DEF Stored, Then, With

Chunks(row, m) ==
    [k \in 1..Len(Elements(row, m)) |-> Tagged(row, Payload(row, Raw(row, Elements(row, m)[k])))]

\* What is written of the elements of a field.
LEMMA PlainWritten ==
    ASSUME NEW row, NEW m, row.kind \in Plain
    PROVE  Written(row, m) = FlattenSeq(Chunks(row, m))
BY Kinds DEF Written, Chunks

\* The chain of a field that is neither a oneof nor unknown.
LEMMA PlainChain ==
    ASSUME NEW cases, NEW c \in cases, \A d \in cases : d.at = c.at => d = c,
           NEW row, SameTag(row, c), row.field = c.field, NEW m, Sound(row, c, m[row.field]),
           NEW p, p = [g \in DOMAIN p |-> p[g]], c.field \in DOMAIN p
    PROVE  LET n == Len(Elements(row, m))
               msgs == [i \in 0..n |-> With(p, c.field, Before(c, m[c.field], i))]
           IN  n \in Nat /\ Chain(cases, Chunks(row, m), msgs, n)
<1> DEFINE v == m[row.field]
           es == Elements(row, m)
           n == Len(es)
           f == c.field
           msgs == [i \in 0..n |-> With(p, f, Before(c, v, i))]
           chunks == Chunks(row, m)
<1>1. ReadsAll(row, c, v, es)
  BY ElementRead
<1>2. n \in Nat /\ \A i \in 1..n : Reads(row, c, Before(c, v, i - 1), es[i], Before(c, v, i))
  <2> HIDE DEF es, v
  <2> QED BY <1>1 DEF ReadsAll
<1>3. chunks = [i \in 1..n |-> Tagged(row, Payload(row, Raw(row, es[i])))]
  BY DEF Chunks
<1>4. \A x : Payload(row, x) = Payload(c, x)
  BY DEF Sound, Payload, IsNumber
<1> HIDE DEF es, n, v, chunks
<1>5. ASSUME NEW i \in 1..n
      PROVE  \E its, x :
                /\ IsPiece(cases, chunks[i], its, x)
                /\ \A tail : Merged([case |-> its, value |-> x, rest |-> tail], msgs[i - 1]) = <<msgs[i]>>
  <2> DEFINE x == Raw(row, es[i])
             a == Before(c, v, i - 1)
             b == Before(c, v, i)
  <2>1. IsValue(c, x) /\ \E w : Meaning(c, a, x) = <<w>> /\ Put(c, a, w) = b
    BY <1>2 DEF Reads
  <2>2. chunks[i] = Tagged(row, Payload(c, x))
    BY <1>3, <1>4
  <2>3. i \in 0..n /\ i - 1 \in 0..n
    BY <1>2
  <2>4. msgs[i - 1] = With(p, f, a) /\ msgs[i] = With(p, f, b)
    BY <2>3
  <2> HIDE DEF x, a, b, msgs
  <2>5. IsPiece(cases, chunks[i], {c}, x)
    BY <2>1, <2>2, KnownPiece
  <2>6. Stored(c, With(p, f, a), x) = <<With(p, f, b)>>
    <3> DEFINE q == With(p, f, a)
    <3>1. PICK w : Meaning(c, a, x) = <<w>> /\ Put(c, a, w) = b
      BY <2>1
    <3>2. q[f] = a /\ With(q, f, b) = With(p, f, b)
      BY WithFact
    <3> HIDE DEF q
    <3>3. Stored(c, q, x) = <<With(q, f, b)>>
      BY <3>1, <3>2, StoredWith
    <3> QED BY <3>2, <3>3 DEF q
  <2>7. (CHOOSE d \in {c} : TRUE) = c
    OBVIOUS
  <2>8. \A tail : Merged([case |-> {c}, value |-> x, rest |-> tail], msgs[i - 1]) = <<msgs[i]>>
    BY <2>4, <2>6, <2>7 DEF Merged
  <2> QED BY <2>5, <2>8
<1>6. Chain(cases, chunks, msgs, n)
  <2>1. chunks = [i \in 1..n |-> chunks[i]]
    BY <1>3
  <2> HIDE DEF msgs
  <2> QED BY <1>5, <2>1 DEF Chain
<1> QED BY <1>2, <1>6 DEF es, n, v, chunks

\* So a field that is neither a oneof nor unknown is read as it was written.
LEMMA PlainCarries ==
    ASSUME NEW cases, NEW c \in cases, \A d \in cases : d.at = c.at => d = c,
           NEW row, SameTag(row, c), row.field = c.field, NEW m, Sound(row, c, m[row.field]),
           NEW p, p = [g \in DOMAIN p |-> p[g]], c.field \in DOMAIN p, p[c.field] = <<>>
    PROVE  Carries(cases, p, Written(row, m), With(p, c.field, m[c.field]))
<1> DEFINE n == Len(Elements(row, m))
           msgs == [i \in 0..n |-> With(p, c.field, Before(c, m[c.field], i))]
<1>1. n \in Nat /\ Chain(cases, Chunks(row, m), msgs, n)
  BY PlainChain
<1>2. msgs[0] = p /\ msgs[n] = With(p, c.field, m[c.field])
  <2>1. Before(c, m[c.field], 0) = <<>> /\ Before(c, m[c.field], n) = m[c.field]
    <3>1. ReadsAll(row, c, m[c.field], Elements(row, m))
      BY ElementRead
    <3> QED BY <3>1 DEF ReadsAll
  <2>2. 0 \in 0..n /\ n \in 0..n
    BY <1>1
  <2> HIDE DEF n
  <2>3. msgs[0] = With(p, c.field, <<>>) /\ msgs[n] = With(p, c.field, m[c.field])
    BY <2>1, <2>2
  <2> QED BY <2>3, WithFact
<1>3. row.kind \in Plain
  BY DEF Sound
<1> HIDE DEF n, msgs
<1>4. Carries(cases, msgs[0], FlattenSeq(Chunks(row, m)), msgs[n])
  BY <1>1, ChainCarries
<1> QED BY <1>2, <1>3, <1>4, PlainWritten

\* The wrapper of a oneof is written as the one field it has.
ArmRaw(c, w) == IF c.kind = "Arm" THEN NestedEncoded(Marshals[c.type], w[1]) ELSE w

\* The method of an arm writes the one field of the wrapper.
LEMMA ArmWritten ==
    ASSUME NEW c, c.kind \in {"Arm", "BytesArm"}, ArmFits(c), NEW a, IsArm(c, a),
           c.kind = "Arm" => Text(NestedEncoded(Marshals[c.type], a.wrapper[c.inner][1]))
    PROVE  LET row == Marshals[c.arm][1]
               x == ArmRaw(c, a.wrapper[c.inner])
           IN  /\ SameTag(row, c) /\ IsValue(c, x)
               /\ Encoded(Marshals[c.arm], a.wrapper) = Tagged(row, Payload(c, x))
<1> DEFINE row == Marshals[c.arm][1]
           rows == Marshals[c.arm]
           wrapper == a.wrapper
           w == wrapper[c.inner]
           x == ArmRaw(c, w)
<1>1. /\ Len(rows) = 1 /\ row.kind = (IF c.kind = "Arm" THEN "Msg" ELSE "Always")
      /\ row.field = c.inner /\ SameTag(row, c) /\ row.type = c.type
  BY DEF ArmFits, RowFits
<1>2. /\ c.kind = "BytesArm" => Text(w)
      /\ c.kind = "Arm" => IsList(w) /\ Len(w) = 1
  BY DEF IsArm
<1>3. IsValue(c, x)
  BY <1>2 DEF IsValue, IsNumber, ArmRaw
<1>4. \A y : Payload(row, y) = Payload(c, y)
  BY <1>1 DEF Payload, IsNumber
<1>5. wrapper[row.field] = w
  BY <1>1
<1> HIDE DEF w, wrapper, row, rows
<1>6. ~ (row.kind \in Scalars) /\ row.kind # "Unknown" /\ row.kind # "OneOf"
  BY <1>1, Kinds
<1>7. Len(Elements(row, wrapper)) = 1 /\ Raw(row, Elements(row, wrapper)[1]) = x
  <2>1. CASE c.kind = "Arm"
    <3>1. row.kind = "Msg"
      BY <1>1, <2>1
    <3>2. Elements(row, wrapper) = w
      BY <1>5, <1>6, <3>1 DEF Elements
    <3>3. Raw(row, w[1]) = x
      BY <1>1, <2>1, <3>1 DEF Raw, ArmRaw
    <3> QED BY <1>2, <2>1, <3>2, <3>3
  <2>2. CASE c.kind = "BytesArm"
    <3>1. row.kind = "Always"
      BY <1>1, <2>2
    <3>2. Elements(row, wrapper) = <<w>>
      BY <1>5, <3>1 DEF Elements
    <3>3. Raw(row, w) = x
      BY <2>2, <3>1 DEF Raw, ArmRaw
    <3> HIDE DEF x
    <3> QED BY <3>2, <3>3
  <2> QED BY <2>1, <2>2
<1> DEFINE chunk == Tagged(row, Payload(c, x))
<1>8. chunk \in Octets
  <2>1. <<>> \in Octets
    BY DEF Octets
  <2> HIDE DEF x
  <2> QED BY <1>1, <1>3, <2>1, FieldParts
<1> HIDE DEF x
<1>9. Written(row, wrapper) = chunk
  <2> DEFINE es == Elements(row, wrapper)
             chunks == [k \in 1..Len(es) |-> Tagged(row, Payload(row, Raw(row, es[k])))]
  <2>1. Written(row, wrapper) = FlattenSeq(chunks)
    BY <1>6 DEF Written
  <2>2. chunks = [k \in 1..1 |-> chunk]
    <3>1. Len(es) = 1 /\ Raw(row, es[1]) = x
      BY <1>7
    <3> HIDE DEF es
    <3>2. \A k \in 1..1 : Tagged(row, Payload(row, Raw(row, es[k]))) = chunk
      BY <1>4, <3>1
    <3> QED BY <3>1, <3>2
  <2> HIDE DEF chunks, chunk
  <2> QED BY <1>8, <2>1, <2>2, FlattenOne
<1> HIDE DEF chunk
<1>10. Encoded(rows, wrapper) = chunk
  <2> DEFINE all == [k \in 1..Len(rows) |-> Written(rows[Len(rows) + 1 - k], wrapper)]
  <2>1. Encoded(rows, wrapper) = FlattenSeq(all)
    BY DEF Encoded
  <2>2. all = [k \in 1..1 |-> chunk]
    <3>1. \A k \in 1..1 : rows[Len(rows) + 1 - k] = row
      BY <1>1 DEF row, rows
    <3> QED BY <1>1, <1>9, <3>1
  <2> HIDE DEF all
  <2> QED BY <1>8, <2>1, <2>2, FlattenOne
<1> QED BY <1>1, <1>3, <1>10 DEF chunk, row, x, rows, w, wrapper

\* The arm that a oneof holds.
Arms(c, v) == {v[i].wrapper[c.inner][1] : i \in {j \in DOMAIN v : v[j].arm = c.arm}}

HoldsArm(c, v) ==
    /\ c.kind \in {"Arm", "BytesArm"} /\ ArmFits(c)
    /\ IsList(v) /\ Len(v) = 1 /\ v[1].arm = c.arm /\ IsArm(c, v[1])

SoundArm(c, v) ==
    /\ HoldsArm(c, v)
    /\ SameMethods(Marshals[c.arm], Sizes[c.arm], v[1].wrapper)
    /\ c.kind = "Arm" => Returns(c.type, v[1].wrapper[c.inner][1])

\* All that is written of a oneof.
LEMMA ArmChunk ==
    ASSUME NEW c, NEW row, row.kind = "OneOf", row.field = c.field,
           NEW m, HoldsArm(c, m[c.field]),
           NestedEncoded(Marshals[c.arm], m[c.field][1].wrapper) =
                Encoded(Marshals[c.arm], m[c.field][1].wrapper),
           c.kind = "Arm" => Text(NestedEncoded(Marshals[c.type],
                                                m[c.field][1].wrapper[c.inner][1]))
    PROVE  LET x == ArmRaw(c, m[c.field][1].wrapper[c.inner])
               it == Marshals[c.arm][1]
               chunk == Tagged(it, Payload(c, x))
           IN  /\ SameTag(it, c) /\ IsValue(c, x) /\ chunk \in Octets
               /\ Written(row, m) = chunk
<1> DEFINE v == m[c.field]
           a == v[1]
           w == a.wrapper[c.inner]
           x == ArmRaw(c, w)
           it == Marshals[c.arm][1]
           chunk == Tagged(it, Payload(c, x))
<1>1. /\ c.kind \in {"Arm", "BytesArm"} /\ ArmFits(c) /\ IsArm(c, a) /\ a.arm = c.arm
      /\ IsList(v) /\ Len(v) = 1
      /\ NestedEncoded(Marshals[c.arm], a.wrapper) = Encoded(Marshals[c.arm], a.wrapper)
  BY DEF HoldsArm
<1>2. c.kind = "Arm" => Text(NestedEncoded(Marshals[c.type], w[1]))
  OBVIOUS
<1>3. SameTag(it, c) /\ IsValue(c, x) /\ Encoded(Marshals[c.arm], a.wrapper) = chunk
  <2> HIDE DEF a
  <2> QED BY <1>1, <1>2, ArmWritten
<1>4. chunk \in Octets
  <2>1. <<>> \in Octets
    BY DEF Octets
  <2> HIDE DEF x, it
  <2> QED BY <1>3, <2>1, FieldParts
<1>5. Written(row, m) = chunk
  <2> DEFINE all == [k \in 1..Len(m[row.field]) |->
                        NestedEncoded(Marshals[m[row.field][k].arm], m[row.field][k].wrapper)]
  <2>1. Written(row, m) = FlattenSeq(all)
    BY DEF Written
  <2>2. all = [k \in 1..1 |-> chunk]
    <3>1. Len(m[row.field]) = 1 /\ m[row.field][1] = a
      BY <1>1
    <3>2. NestedEncoded(Marshals[a.arm], a.wrapper) = chunk
      BY <1>1, <1>3
    <3> HIDE DEF a, chunk
    <3>3. \A k \in 1..1 : NestedEncoded(Marshals[m[row.field][k].arm], m[row.field][k].wrapper) = chunk
      BY <3>1, <3>2
    <3> QED BY <3>1, <3>3
  <2> HIDE DEF all, chunk
  <2> QED BY <1>4, <2>1, <2>2, FlattenOne
<1> QED BY <1>3, <1>4, <1>5 DEF v, a, w, x, it, chunk

\* A oneof that is set, and what is written of it,
LEMMA SoundArmChunk ==
    ASSUME NEW c, NEW row, row.kind = "OneOf", row.field = c.field,
           NEW m, SoundArm(c, m[c.field])
    PROVE  LET x == ArmRaw(c, m[c.field][1].wrapper[c.inner])
               it == Marshals[c.arm][1]
               chunk == Tagged(it, Payload(c, x))
           IN  /\ SameTag(it, c) /\ IsValue(c, x) /\ chunk \in Octets
               /\ Written(row, m) = chunk
<1>1. /\ HoldsArm(c, m[c.field])
      /\ NestedEncoded(Marshals[c.arm], m[c.field][1].wrapper) =
            Encoded(Marshals[c.arm], m[c.field][1].wrapper)
      /\ c.kind = "Arm" => Text(NestedEncoded(Marshals[c.type],
                                              m[c.field][1].wrapper[c.inner][1]))
  BY DEF SoundArm, SameMethods, Returns
<1> QED BY <1>1, ArmChunk

\* Its only piece.
LEMMA ArmPiece ==
    ASSUME NEW cases, NEW c \in cases, \A d \in cases : d.at = c.at => d = c,
           NEW row, row.kind = "OneOf", row.field = c.field, NEW m, SoundArm(c, m[c.field]),
           NEW p, p = [g \in DOMAIN p |-> p[g]], c.field \in DOMAIN p, p[c.field] = <<>>
    PROVE  /\ \E x : /\ IsPiece(cases, Written(row, m), {c}, x)
                     /\ \A tail : Merged([case |-> {c}, value |-> x, rest |-> tail], p) =
                            <<With(p, c.field, m[c.field])>>
           /\ Carries(cases, p, Written(row, m), With(p, c.field, m[c.field]))
<1> DEFINE v == m[c.field]
           a == v[1]
           w == a.wrapper[c.inner]
           x == ArmRaw(c, w)
           it == Marshals[c.arm][1]
           chunk == Tagged(it, Payload(c, x))
<1>1. /\ c.kind \in {"Arm", "BytesArm"} /\ ArmFits(c) /\ IsArm(c, a) /\ a.arm = c.arm
      /\ IsList(v) /\ Len(v) = 1
      /\ c.kind = "Arm" => Returns(c.type, w[1])
  BY DEF SoundArm, HoldsArm
<1>2. SameTag(it, c) /\ IsValue(c, x) /\ chunk \in Octets /\ Written(row, m) = chunk
  BY SoundArmChunk
<1>3. SameTag(it, c) /\ IsValue(c, x)
  BY <1>2
<1>5. Written(row, m) = chunk
  BY <1>2
<1>6. Stored(c, p, x) = <<With(p, c.field, v)>>
  <2>0. v = <<a>> /\ a = [arm |-> c.arm, wrapper |-> [f \in {c.inner} |-> w]]
    <3>1. v = <<a>>
      BY <1>1 DEF IsList
    <3>2. a = [arm |-> c.arm, wrapper |-> [f \in {c.inner} |-> w]]
      BY <1>1 DEF IsArm
    <3> QED BY <3>1, <3>2
  <2>1. CASE c.kind = "Arm"
    <3> DEFINE e == w[1]
               b == NestedEncoded(Marshals[c.type], e)
    <3>1. NestedFill(Unmarshals[c.type], New(Unmarshals[c.type]), b) = <<e>>
      BY <1>1, <2>1 DEF Returns
    <3>2. x = b
      BY <2>1 DEF ArmRaw
    <3>3. Start(c, <<>>) = New(Unmarshals[c.type])
      BY <2>1 DEF Start
    <3>4. w = <<e>>
      <4>1. IsList(w) /\ Len(w) = 1
        BY <1>1, <2>1 DEF IsArm
      <4> HIDE DEF w
      <4> QED BY <4>1 DEF IsList
    <3> HIDE DEF e, b, x
    <3>5. Meaning(c, <<>>, x) = <<e>>
      BY <2>1, <3>1, <3>2, <3>3 DEF Meaning
    <3>6. Put(c, <<>>, e) = << [arm |-> c.arm, wrapper |-> [f \in {c.inner} |-> <<e>>]] >>
      BY <2>1 DEF Put
    <3> HIDE DEF v, a, w
    <3>7. Put(c, <<>>, e) = v
      BY <2>0, <3>4, <3>6
    <3> QED BY <3>5, <3>7, StoredWith
  <2>2. CASE c.kind = "BytesArm"
    <3>1. x = w
      BY <2>2 DEF ArmRaw
    <3> HIDE DEF x
    <3>2. Meaning(c, <<>>, x) = <<x>>
      BY <2>2 DEF Meaning
    <3>3. Put(c, <<>>, x) = << [arm |-> c.arm, wrapper |-> [f \in {c.inner} |-> x]] >>
      BY <2>2 DEF Put
    <3> HIDE DEF v, a, w
    <3>4. Put(c, <<>>, x) = v
      BY <2>0, <3>1, <3>3
    <3> QED BY <3>2, <3>4, StoredWith
  <2> QED BY <1>1, <2>1, <2>2
<1> HIDE DEF v, a, w, x, it
<1>7. IsPiece(cases, chunk, {c}, x)
  BY <1>3, KnownPiece
<1>8. (CHOOSE d \in {c} : TRUE) = c
  OBVIOUS
<1> HIDE DEF chunk
<1>9. \A tail : Merged([case |-> {c}, value |-> x, rest |-> tail], p) = <<With(p, c.field, v)>>
  BY <1>6, <1>8 DEF Merged
<1>10. Carries(cases, p, chunk, With(p, c.field, v))
  <2> DEFINE n == With(p, c.field, v)
  <2> HIDE DEF n
  <2>1. \A tail : Merged([case |-> {c}, value |-> x, rest |-> tail], p) = <<n>>
    BY <1>9 DEF n
  <2>2. Carries(cases, p, chunk, n)
    BY <1>7, <2>1, CarriesPiece
  <2> QED BY <2>2 DEF n
<1> QED BY <1>5, <1>7, <1>9, <1>10 DEF v

-------------------------------------------------------------------------------
\* What is unknown is kept, field by field.
LEMMA UnknownChain ==
    ASSUME NEW cases, NEW u, IsUnknown(cases, u)
    PROVE  \E n \in Nat : \E fields \in [1..n -> Octets] :
              /\ u = FlattenSeq(fields)
              /\ \A k \in 1..n : IsPiece(cases, fields[k], {}, fields[k])
<1>1. u \in Octets /\ Len(u) \in Nat
  BY DEF IsUnknown, Octets
<1>2. PICK n \in 0..Len(u) : \E fields \in [1..n -> Slices(u)] :
          u = FlattenSeq(fields) /\ \A k \in 1..n : IsKept(cases, fields[k])
  BY DEF IsUnknown
<1>3. PICK fields \in [1..n -> Slices(u)] :
          u = FlattenSeq(fields) /\ \A k \in 1..n : IsKept(cases, fields[k])
  BY <1>2
<1>4. Slices(u) \subseteq Octets
  <2> SUFFICES ASSUME NEW x \in Slices(u) PROVE x \in Octets
    OBVIOUS
  <2>1. PICK i \in 1..Len(u), j \in 1..Len(u) : x = SubSeq(u, i, j)
    BY DEF Slices
  <2>2. u \in Seq(Byte)
    BY <1>1 DEF Octets
  <2>3. SubSeq(u, i, j) \in Seq(Byte)
    BY <1>1, <2>2
  <2> QED BY <2>1, <2>3 DEF Octets
<1>5. n \in Nat
  BY <1>1
<1>6. fields \in [1..n -> Octets]
  BY <1>3, <1>4
<1>7. \A k \in 1..n : IsPiece(cases, fields[k], {}, fields[k])
  BY <1>3, <1>6 DEF IsPiece, IsKept
<1> QED BY <1>3, <1>5, <1>6, <1>7

\* They lead from p to the message that has them all.
UnknownSteps(cases, u, p, n, fields, msgs) ==
    /\ u = FlattenSeq(fields) /\ \A k \in 1..n : IsPiece(cases, fields[k], {}, fields[k])
    /\ Chain(cases, fields, msgs, n)
    /\ msgs[0] = p /\ msgs[n] = With(p, "unknownFields", u)

\* There are such messages,
LEMMA UnknownStepwise ==
    ASSUME NEW cases, NEW u, IsUnknown(cases, u),
           NEW p, p = [g \in DOMAIN p |-> p[g]], "unknownFields" \in DOMAIN p,
           p.unknownFields = <<>>
    PROVE  \E n \in Nat : \E fields \in [1..n -> Octets] : \E msgs :
              UnknownSteps(cases, u, p, n, fields, msgs)
<1> DEFINE at == "unknownFields"
<1>1. PICK n \in Nat : \E fields \in [1..n -> Octets] :
          /\ u = FlattenSeq(fields)
          /\ \A k \in 1..n : IsPiece(cases, fields[k], {}, fields[k])
  BY UnknownChain
<1>2. PICK fields \in [1..n -> Octets] :
          /\ u = FlattenSeq(fields)
          /\ \A k \in 1..n : IsPiece(cases, fields[k], {}, fields[k])
  BY <1>1
<1>3. fields \in [1..n -> Seq(Byte)]
  BY <1>2 DEF Octets
<1>4. PICK f \in [0..n -> Seq(Byte)] :
          /\ f[0] = <<>>
          /\ \A i \in 1..n : f[i] = f[i-1] \o fields[i]
          /\ FlattenSeq(fields) = f[n]
  <2>1. n \in Nat
    BY <1>1
  <2> QED BY ONLY <1>3, <2>1, FlattenFact
<1> DEFINE msgs == [i \in 0..n |-> With(p, at, f[i])]
<1>5. ASSUME NEW i \in 1..n
      PROVE  \E its, x :
                /\ IsPiece(cases, fields[i], its, x)
                /\ \A tail : Merged([case |-> its, value |-> x, rest |-> tail], msgs[i - 1]) = <<msgs[i]>>
  <2>1. i \in 0..n /\ i - 1 \in 0..n
    OBVIOUS
  <2>2. msgs[i - 1] = With(p, at, f[i - 1]) /\ msgs[i] = With(p, at, f[i])
    BY <2>1
  <2>3. Keep(With(p, at, f[i - 1]), fields[i]) = With(p, at, f[i])
    <3> DEFINE q == With(p, at, f[i - 1])
    <3>1. q.unknownFields = f[i - 1] /\ With(q, at, f[i]) = With(p, at, f[i])
      <4> HIDE DEF at
      <4>1. at \in DOMAIN p
        BY DEF at
      <4>2. q[at] = f[i - 1] /\ With(q, at, f[i]) = With(p, at, f[i])
        BY <4>1, WithFact
      <4> HIDE DEF q
      <4> QED BY <4>2 DEF at
    <3> HIDE DEF q
    <3>2. Keep(q, fields[i]) = With(q, at, f[i - 1] \o fields[i])
      BY <3>1 DEF Keep, With
    <3> QED BY <1>4, <3>1, <3>2 DEF q
  <2> HIDE DEF msgs
  <2>4. IsPiece(cases, fields[i], {}, fields[i])
    BY <1>2
  <2>5. \A tail : Merged([case |-> {}, value |-> fields[i], rest |-> tail], msgs[i - 1]) = <<msgs[i]>>
    BY <2>2, <2>3 DEF Merged
  <2> QED BY <2>4, <2>5
<1>6. msgs[0] = p /\ msgs[n] = With(p, at, u)
  <2>1. 0 \in 0..n /\ n \in 0..n
    OBVIOUS
  <2>2. With(p, at, <<>>) = p
    <3>1. at \in DOMAIN p /\ p[at] = <<>>
      OBVIOUS
    <3> HIDE DEF at
    <3> QED BY <3>1, WithFact
  <2> QED BY <1>2, <1>4, <2>1, <2>2
<1> HIDE DEF msgs
<1>7. Chain(cases, fields, msgs, n)
  BY <1>2, <1>5 DEF Chain
<1>8. UnknownSteps(cases, u, p, n, fields, msgs)
  BY <1>2, <1>6, <1>7 DEF UnknownSteps
<1> QED BY <1>8

\* and so unknown fields are kept as they were.
LEMMA UnknownCarries ==
    ASSUME NEW cases, NEW u, IsUnknown(cases, u),
           NEW p, p = [g \in DOMAIN p |-> p[g]], "unknownFields" \in DOMAIN p,
           p.unknownFields = <<>>
    PROVE  Carries(cases, p, u, With(p, "unknownFields", u))
<1>1. PICK n \in Nat : \E fields \in [1..n -> Octets] : \E msgs :
          UnknownSteps(cases, u, p, n, fields, msgs)
  BY UnknownStepwise
<1>2. PICK fields, msgs : UnknownSteps(cases, u, p, n, fields, msgs)
  BY <1>1
<1>3. /\ u = FlattenSeq(fields) /\ Chain(cases, fields, msgs, n)
      /\ msgs[0] = p /\ msgs[n] = With(p, "unknownFields", u)
  BY <1>2 DEF UnknownSteps
<1>4. Carries(cases, msgs[0], FlattenSeq(fields), msgs[n])
  BY <1>3, ChainCarries
<1> QED BY <1>3, <1>4

-------------------------------------------------------------------------------
(* A message, field by field *)

\* A row of M_Marshal and what the message holds in its field.
SoundField(cases, row, m) ==
    \/ row.kind = "Unknown" /\ row.field = "unknownFields" /\ IsUnknown(cases, m.unknownFields)
    \/ /\ row.kind = "OneOf"
       /\ m[row.field] = <<>> \/ \E c \in cases : row.field = c.field /\ SoundArm(c, m[c.field])
    \/ \E c \in cases : row.field = c.field /\ SameTag(row, c) /\ Sound(row, c, m[row.field])

\* A message whose fields can all be written and read.
SoundMessage(type, m) ==
    LET rows == Marshals[type]
        cases == Unmarshals[type]
    IN  /\ m = [f \in Fields(cases) |-> m[f]]
        /\ \A i \in DOMAIN rows : SoundField(cases, rows[i], m)

\* A message without any fields yet.
Blank(p, cases) == p = [g \in DOMAIN p |-> p[g]] /\ DOMAIN p = Fields(cases)

\* What a row writes of a field is read as what the field holds.
LEMMA FieldCarries ==
    ASSUME NEW cases, \A c, d \in cases : c.at = d.at => c = d,
           NEW row, NEW m, SoundField(cases, row, m), row.field \in Fields(cases),
           NEW p, Blank(p, cases), p[row.field] = <<>>
    PROVE  Carries(cases, p, Written(row, m), With(p, row.field, m[row.field]))
<1>1. p = [g \in DOMAIN p |-> p[g]] /\ row.field \in DOMAIN p
  BY DEF Blank
<1>2. CASE row.kind = "Unknown" /\ row.field = "unknownFields" /\ IsUnknown(cases, m.unknownFields)
  <2>1. Written(row, m) = m.unknownFields
    BY <1>2 DEF Written
  <2>2. Carries(cases, p, m.unknownFields, With(p, "unknownFields", m.unknownFields))
    <3>1. "unknownFields" \in DOMAIN p /\ p.unknownFields = <<>>
      BY <1>1, <1>2
    <3> QED BY <1>1, <1>2, <3>1, UnknownCarries
  <2> QED BY <1>2, <2>1, <2>2
<1>3. CASE row.kind = "OneOf" /\ m[row.field] = <<>>
  <2>1. Written(row, m) = <<>>
    <3> DEFINE all == [k \in 1..Len(m[row.field]) |->
                        NestedEncoded(Marshals[m[row.field][k].arm], m[row.field][k].wrapper)]
    <3>1. Written(row, m) = FlattenSeq(all)
      BY <1>3 DEF Written
    <3>2. all = <<>>
      BY <1>3
    <3> HIDE DEF all
    <3> QED BY <3>1, <3>2 DEF FlattenSeq
  <2>2. With(p, row.field, m[row.field]) = p
    BY <1>1, <1>3, WithFact
  <2> QED BY <2>1, <2>2, CarriesNothing
<1>4. ASSUME row.kind = "OneOf", NEW c \in cases, row.field = c.field, SoundArm(c, m[c.field])
      PROVE  Carries(cases, p, Written(row, m), With(p, row.field, m[row.field]))
  <2>1. \A d \in cases : d.at = c.at => d = c
    OBVIOUS
  <2> QED BY <1>1, <1>4, <2>1, ArmPiece
<1>5. ASSUME NEW c \in cases, row.field = c.field, SameTag(row, c), Sound(row, c, m[row.field])
      PROVE  Carries(cases, p, Written(row, m), With(p, row.field, m[row.field]))
  <2>1. \A d \in cases : d.at = c.at => d = c
    OBVIOUS
  <2> QED BY <1>1, <1>5, <2>1, PlainCarries
<1> QED BY <1>2, <1>3, <1>4, <1>5 DEF SoundField

\* A list of rows in which no field occurs twice.
Rows(rows, cases) ==
    /\ Len(rows) \in Nat /\ DOMAIN rows = 1..Len(rows)
    /\ \A i, j \in 1..Len(rows) : rows[i].field = rows[j].field => i = j
    /\ {rows[i].field : i \in 1..Len(rows)} = Fields(cases)

\* The message with the fields of its last k rows, which are written first.
Partial(rows, cases, m, k) ==
    [f \in Fields(cases) |->
        IF \E i \in 1..Len(rows) : rows[i].field = f /\ Len(rows) < i + k THEN m[f] ELSE <<>>]

\* With each row one field is there that was not there before.
LEMMA PartialFact ==
    ASSUME NEW cases, NEW rows, Rows(rows, cases), NEW m, m = [f \in Fields(cases) |-> m[f]]
    PROVE  /\ Partial(rows, cases, m, 0) = New(cases)
           /\ Partial(rows, cases, m, Len(rows)) = m
           /\ \A k \in 1..Len(rows) :
                LET p == Partial(rows, cases, m, k - 1)
                    f == rows[Len(rows) + 1 - k].field
                IN  /\ f \in Fields(cases) /\ Blank(p, cases) /\ p[f] = <<>>
                    /\ Partial(rows, cases, m, k) = With(p, f, m[f])
<1> DEFINE N == Len(rows)
<1>1. /\ N \in Nat /\ \A i, j \in 1..N : rows[i].field = rows[j].field => i = j
      /\ {rows[i].field : i \in 1..N} = Fields(cases)
  BY DEF Rows
<1> HIDE DEF N
<1>2. Partial(rows, cases, m, 0) = New(cases)
  <2>1. ~ \E i \in 1..N : N < i + 0
    BY <1>1
  <2> QED BY <2>1 DEF Partial, New, N
<1>3. Partial(rows, cases, m, N) = m
  <2>1. \A f \in Fields(cases) : \E i \in 1..N : rows[i].field = f /\ N < i + N
    BY <1>1
  <2> QED BY <2>1 DEF Partial, N
<1>4. ASSUME NEW k \in 1..N
      PROVE  LET p == Partial(rows, cases, m, k - 1)
                 f == rows[N + 1 - k].field
             IN  /\ f \in Fields(cases) /\ Blank(p, cases) /\ p[f] = <<>>
                 /\ Partial(rows, cases, m, k) = With(p, f, m[f])
  <2> DEFINE p == Partial(rows, cases, m, k - 1)
             q == Partial(rows, cases, m, k)
             j == N + 1 - k
             f == rows[j].field
  <2>1. j \in 1..N /\ f \in Fields(cases)
    BY <1>1
  <2>2. /\ p = [g \in Fields(cases) |->
                IF \E i \in 1..N : rows[i].field = g /\ N < i + (k - 1) THEN m[g] ELSE <<>>]
        /\ q = [g \in Fields(cases) |->
                IF \E i \in 1..N : rows[i].field = g /\ N < i + k THEN m[g] ELSE <<>>]
    BY DEF Partial, N
  <2> HIDE DEF p, q
  <2>3. ~ \E i \in 1..N : rows[i].field = f /\ N < i + (k - 1)
    BY <1>1, <2>1
  <2>4. \E i \in 1..N : rows[i].field = f /\ N < i + k
    BY <1>1, <2>1
  <2>5. \A i \in 1..N : N < i + k <=> N < i + (k - 1) \/ i = j
    BY <1>1
  <2> HIDE DEF j
  <2>6. \A g \in Fields(cases) : g # f =>
          ((\E i \in 1..N : rows[i].field = g /\ N < i + k) <=>
           (\E i \in 1..N : rows[i].field = g /\ N < i + (k - 1)))
    BY <2>5
  <2>7. DOMAIN p = Fields(cases) /\ Blank(p, cases) /\ p[f] = <<>>
    BY <2>1, <2>2, <2>3 DEF Blank
  <2>8. With(p, f, m[f]) = [g \in Fields(cases) |-> IF g = f THEN m[f] ELSE p[g]]
    <3>1. p = [g \in DOMAIN p |-> p[g]]
      BY <2>2
    <3>2. f \in DOMAIN p
      BY <2>1, <2>7
    <3> HIDE DEF f
    <3>3. With(p, f, m[f]) = [g \in DOMAIN p |-> IF g = f THEN m[f] ELSE p[g]]
      BY <3>1, <3>2 DEF With
    <3> QED BY <2>7, <3>3
  <2>9. \A g \in Fields(cases) : q[g] = IF g = f THEN m[f] ELSE p[g]
    BY <2>1, <2>2, <2>4, <2>6
  <2>10. q = With(p, f, m[f])
    BY <2>2, <2>8, <2>9
  <2> QED BY <2>1, <2>7, <2>10 DEF p, q, j
<1> QED BY <1>2, <1>3, <1>4 DEF N

\* A message is made of what is written of it, from one of its rows to the next.
LEMMA RowsCarry ==
    ASSUME NEW cases, NEW rows, Rows(rows, cases), \A c, d \in cases : c.at = d.at => c = d,
           NEW m, m = [f \in Fields(cases) |-> m[f]],
           \A i \in DOMAIN rows : SoundField(cases, rows[i], m)
    PROVE  Carries(cases, New(cases), Encoded(rows, m), m)
<1> DEFINE N == Len(rows)
           chunks == [k \in 1..N |-> Written(rows[N + 1 - k], m)]
           msgs == [k \in 0..N |-> Partial(rows, cases, m, k)]
<1>1. m = [f \in Fields(cases) |-> m[f]] /\ \A i \in DOMAIN rows : SoundField(cases, rows[i], m)
  OBVIOUS
<1>2. N \in Nat /\ DOMAIN rows = 1..N
  BY DEF Rows
<1>3. Rows(rows, cases) /\ \A c, d \in cases : c.at = d.at => c = d
  OBVIOUS
<1>e. Encoded(rows, m) = FlattenSeq(chunks)
  BY DEF Encoded
<1>4. msgs[0] = New(cases) /\ msgs[N] = m
  <2>1. 0 \in 0..N /\ N \in 0..N
    BY <1>2
  <2> QED BY <1>1, <1>3, <2>1, PartialFact
<1>5. ASSUME NEW k \in 1..N PROVE Carries(cases, msgs[k - 1], chunks[k], msgs[k])
  <2> DEFINE p == Partial(rows, cases, m, k - 1)
             row == rows[N + 1 - k]
  <2>1. k \in 0..N /\ k - 1 \in 0..N /\ N + 1 - k \in DOMAIN rows
    BY <1>2
  <2>2. /\ row.field \in Fields(cases) /\ Blank(p, cases) /\ p[row.field] = <<>>
        /\ Partial(rows, cases, m, k) = With(p, row.field, m[row.field])
    BY <1>1, <1>3, PartialFact
  <2>3. msgs[k - 1] = p /\ msgs[k] = With(p, row.field, m[row.field]) /\ chunks[k] = Written(row, m)
    BY <2>1, <2>2
  <2>4. SoundField(cases, row, m)
    BY <1>1, <2>1
  <2> HIDE DEF p, row, msgs, chunks
  <2>5. Carries(cases, p, Written(row, m), With(p, row.field, m[row.field]))
    BY <1>3, <2>2, <2>4, FieldCarries
  <2> QED BY <2>3, <2>5
<1>6. DOMAIN chunks = 1..N /\ chunks = [k \in 1..N |-> chunks[k]]
  OBVIOUS
<1> HIDE DEF chunks, msgs
<1>7. Carries(cases, msgs[0], FlattenSeq(chunks), msgs[N])
  BY <1>2, <1>5, <1>6, CarriesAll
<1> QED BY <1>4, <1>7, <1>e

\* So is a message whose fields can all be read by the cases of its type.
LEMMA MessageCarries ==
    ASSUME NEW type, Rows(Marshals[type], Unmarshals[type]),
           \A c, d \in Unmarshals[type] : c.at = d.at => c = d,
           NEW m, SoundMessage(type, m)
    PROVE  Carries(Unmarshals[type], New(Unmarshals[type]), Encoded(Marshals[type], m), m)
BY RowsCarry DEF SoundMessage

-------------------------------------------------------------------------------
(* Sums *)

IsSum(f, numbers, D) == f = [k \in D |-> IF k = 0 THEN 0 ELSE f[k-1] + numbers[k]]

\* Numbers can be added up,
LEMMA SumUpTo ==
    ASSUME NEW numbers, NEW n \in Nat
    PROVE  \E f : IsSum(f, numbers, 0..n)
<1> DEFINE T == {m \in Nat : ~ \E f : IsSum(f, numbers, 0..m)}
<1> SUFFICES ASSUME T # {} PROVE FALSE
  OBVIOUS
<1>1. PICK m \in T : \A k \in T : m <= k
  BY LeastNatural
<1>2. CASE m = 0
  <2>1. IsSum([k \in 0..0 |-> 0], numbers, 0..0)
    BY DEF IsSum
  <2> QED BY <1>2, <2>1
<1>3. CASE m # 0
  <2>1. m \in Nat /\ m - 1 \in Nat /\ m - 1 \notin T
    BY <1>1, <1>3
  <2>2. PICK old : IsSum(old, numbers, 0..(m-1))
    BY <2>1
  <2> DEFINE new == [k \in 0..m |-> IF k = 0 THEN 0 ELSE old[k-1] + numbers[k]]
  <2>3. ASSUME NEW k \in 0..(m-1) PROVE k \in 0..m /\ new[k] = old[k]
    <3>1. k \in 0..m
      BY <2>1
    <3>2. old[k] = IF k = 0 THEN 0 ELSE old[k-1] + numbers[k]
      BY <2>2 DEF IsSum
    <3> QED BY <3>1, <3>2
  <2>4. \A k \in 0..m : k # 0 => k - 1 \in 0..(m-1)
    BY <2>1
  <2>5. new = [k \in 0..m |-> IF k = 0 THEN 0 ELSE new[k-1] + numbers[k]]
    BY <2>3, <2>4
  <2> QED BY <2>5 DEF IsSum
<1> QED BY <1>2, <1>3

\* in one way only,
LEMMA SumAgrees ==
    ASSUME NEW numbers, NEW m \in Nat, NEW D, NEW E, Covers(D, m), Covers(E, m),
           NEW f, IsSum(f, numbers, D), NEW g, IsSum(g, numbers, E)
    PROVE  \A k \in 0..m : f[k] = g[k]
<1> DEFINE T == {k \in 0..m : f[k] # g[k]}
<1> SUFFICES ASSUME T # {} PROVE FALSE
  OBVIOUS
<1>1. PICK k \in T : \A j \in T : k <= j
  <2>1. T \in SUBSET Nat
    OBVIOUS
  <2> QED BY <2>1, LeastNatural
<1>2. k \in 0..m /\ k \in D /\ k \in E
  BY DEF Covers
<1>3. /\ f[k] = IF k = 0 THEN 0 ELSE f[k-1] + numbers[k]
      /\ g[k] = IF k = 0 THEN 0 ELSE g[k-1] + numbers[k]
  BY <1>2 DEF IsSum
<1>4. k # 0 => f[k-1] = g[k-1]
  <2> HAVE k # 0
  <2>1. k - 1 \in 0..m /\ k - 1 \notin T
    BY <1>1, <1>2
  <2> QED BY <2>1
<1> QED BY <1>3, <1>4

\* all of them.
LEMMA SumExists ==
    ASSUME NEW numbers
    PROVE  \E f : IsSum(f, numbers, Nat)
<1> DEFINE part(n) == CHOOSE f : IsSum(f, numbers, 0..n)
           whole == [n \in Nat |-> part(n)[n]]
<1>1. \A n \in Nat : IsSum(part(n), numbers, 0..n)
  BY SumUpTo
<1> HIDE DEF part
<1>2. ASSUME NEW n \in Nat PROVE whole[n] = IF n = 0 THEN 0 ELSE whole[n-1] + numbers[n]
  <2>1. part(n)[n] = IF n = 0 THEN 0 ELSE part(n)[n-1] + numbers[n]
    BY <1>1 DEF IsSum
  <2>2. n # 0 => part(n)[n-1] = part(n-1)[n-1]
    <3> HAVE n # 0
    <3> DEFINE p == n - 1
               f == part(p)
               g == part(n)
    <3>1. p \in Nat /\ p \in 0..p /\ Covers(0..n, p) /\ Covers(0..p, p)
      BY DEF Covers
    <3>2. IsSum(f, numbers, 0..p) /\ IsSum(g, numbers, 0..n)
      BY <1>1, <3>1
    <3> HIDE DEF p, f, g
    <3>3. \A k \in 0..p : f[k] = g[k]
      BY <3>1, <3>2, SumAgrees
    <3> QED BY <3>1, <3>3 DEF p, f, g
  <2> QED BY <2>1, <2>2
<1>3. IsSum(whole, numbers, Nat)
  BY <1>2 DEF IsSum
<1> QED BY <1>3

\* The sum, number by number.
LEMMA TotalFact ==
    ASSUME NEW n \in Nat, NEW numbers \in [1..n -> Nat]
    PROVE  \E f \in [0..n -> Nat] :
              /\ f[0] = 0
              /\ \A i \in 1..n : f[i] = f[i-1] + numbers[i]
              /\ Total(numbers) = f[n]
<1> DEFINE sum == CHOOSE f : IsSum(f, numbers, Nat)
<1>1. IsSum(sum, numbers, Nat)
  BY SumExists
<1>2. Len(numbers) = n
  OBVIOUS
<1>3. Total(numbers) = sum[n]
  BY <1>2 DEF Total, IsSum
<1> HIDE DEF sum
<1>4. sum[0] = 0 /\ \A i \in 1..n : sum[i] = sum[i-1] + numbers[i]
  BY <1>1 DEF IsSum
<1>5. \A i \in 0..n : sum[i] \in Nat
  <2> DEFINE T == {i \in 0..n : sum[i] \notin Nat}
  <2> SUFFICES ASSUME T # {} PROVE FALSE
    OBVIOUS
  <2>1. PICK i \in T : \A j \in T : i <= j
    <3>1. T \in SUBSET Nat
      OBVIOUS
    <3> QED BY <3>1, LeastNatural
  <2>2. i # 0
    BY <1>4
  <2>3. i \in 1..n /\ i - 1 \in 0..n /\ i - 1 \notin T
    BY <2>1, <2>2
  <2>4. sum[i-1] \in Nat /\ numbers[i] \in Nat /\ sum[i] = sum[i-1] + numbers[i]
    BY <1>4, <2>3
  <2> QED BY <2>4
<1> DEFINE f == [i \in 0..n |-> sum[i]]
<1>6. f \in [0..n -> Nat] /\ f[0] = 0 /\ f[n] = sum[n]
  BY <1>4, <1>5
<1>7. \A i \in 1..n : f[i] = f[i-1] + numbers[i]
  BY <1>4
<1> QED BY <1>3, <1>6, <1>7

\* A part is not more than the whole.
LEMMA TotalParts ==
    ASSUME NEW n \in Nat, NEW numbers \in [1..n -> Nat]
    PROVE  Total(numbers) \in Nat /\ \A i \in 1..n : numbers[i] <= Total(numbers)
<1>1. PICK f \in [0..n -> Nat] :
          /\ f[0] = 0
          /\ \A i \in 1..n : f[i] = f[i-1] + numbers[i]
          /\ Total(numbers) = f[n]
  BY TotalFact
<1>2. Total(numbers) \in Nat
  BY <1>1
<1>3. ASSUME NEW i \in 1..n PROVE numbers[i] <= f[n]
  <2> DEFINE T == {k \in i..n : ~ numbers[i] <= f[k]}
  <2>1. CASE T = {}
    <3>1. n \in i..n /\ n \notin T
      BY <2>1
    <3> QED BY <3>1
  <2>2. CASE T # {}
    <3>1. PICK k \in T : \A j \in T : k <= j
      <4>1. T \in SUBSET Nat
        OBVIOUS
      <4> QED BY <2>2, <4>1, LeastNatural
    <3>2. k \in 1..n /\ f[k] = f[k-1] + numbers[k] /\ f[k-1] \in Nat /\ numbers[k] \in Nat
      BY <1>1, <3>1
    <3>3. CASE k = i
      BY <3>1, <3>2, <3>3
    <3>4. CASE k # i
      <4>1. k - 1 \in i..n /\ k - 1 \notin T
        BY <3>1, <3>4
      <4>2. numbers[i] <= f[k-1] /\ numbers[i] \in Nat
        BY <4>1
      <4> QED BY <3>1, <3>2, <4>2
    <3> QED BY <3>3, <3>4
  <2> QED BY <2>1, <2>2
<1> QED BY <1>1, <1>2, <1>3

\* The sum of one number.
LEMMA TotalOne ==
    ASSUME NEW x \in Nat
    PROVE  Total([k \in 1..1 |-> x]) = x
<1> DEFINE n == 1
           numbers == [k \in 1..n |-> x]
<1>1. n \in Nat /\ 1 \in 1..n /\ numbers \in [1..n -> Nat] /\ n - 1 = 0
  OBVIOUS
<1>2. PICK f \in [0..n -> Nat] :
          /\ f[0] = 0
          /\ \A i \in 1..n : f[i] = f[i-1] + numbers[i]
          /\ Total(numbers) = f[n]
  <2> HIDE DEF n, numbers
  <2> QED BY <1>1, TotalFact
<1> QED BY <1>1, <1>2

\* The lengths of sequences that are put together.
LEMMA TotalFlatten ==
    ASSUME NEW n \in Nat, NEW seqs \in [1..n -> Octets]
    PROVE  /\ FlattenSeq(seqs) \in Octets
           /\ Len(FlattenSeq(seqs)) = Total([i \in 1..n |-> Len(seqs[i])])
<1> DEFINE lens == [i \in 1..n |-> Len(seqs[i])]
<1>1. seqs \in [1..n -> Seq(Byte)]
  BY DEF Octets
<1>2. PICK f \in [0..n -> Seq(Byte)] :
          /\ f[0] = <<>>
          /\ \A i \in 1..n : f[i] = f[i-1] \o seqs[i]
          /\ FlattenSeq(seqs) = f[n]
  BY <1>1, FlattenFact
<1>3. lens \in [1..n -> Nat]
  BY <1>1
<1>4. PICK g \in [0..n -> Nat] :
          /\ g[0] = 0
          /\ \A i \in 1..n : g[i] = g[i-1] + lens[i]
          /\ Total(lens) = g[n]
  <2> HIDE DEF lens
  <2> QED BY <1>3, TotalFact
<1>5. \A i \in 0..n : Len(f[i]) = g[i]
  <2> DEFINE T == {i \in 0..n : Len(f[i]) # g[i]}
  <2> SUFFICES ASSUME T # {} PROVE FALSE
    OBVIOUS
  <2>1. PICK i \in T : \A j \in T : i <= j
    <3>1. T \in SUBSET Nat
      OBVIOUS
    <3> QED BY <3>1, LeastNatural
  <2>2. i # 0
    BY <1>2, <1>4
  <2>3. i \in 1..n /\ i - 1 \in 0..n /\ i - 1 \notin T
    BY <2>1, <2>2
  <2>4. Len(f[i-1]) = g[i-1] /\ f[i] = f[i-1] \o seqs[i] /\ g[i] = g[i-1] + Len(seqs[i])
    BY <1>2, <1>4, <2>3
  <2>5. f[i-1] \in Seq(Byte) /\ seqs[i] \in Seq(Byte)
    BY <1>1, <2>3
  <2>6. Len(f[i]) = Len(f[i-1]) + Len(seqs[i])
    <3> DEFINE u == f[i-1]
               w == seqs[i]
    <3>1. u \in Seq(Byte) /\ w \in Seq(Byte) /\ f[i] = u \o w
      BY <2>4, <2>5
    <3> HIDE DEF u, w
    <3>2. Len(u \o w) = Len(u) + Len(w)
      BY <3>1, ConcatFact
    <3> QED BY <3>1, <3>2 DEF u, w
  <2> QED BY <2>4, <2>6
<1> QED BY <1>2, <1>4, <1>5 DEF Octets

\* The sum of nothing but zeros.
LEMMA TotalZeros ==
    ASSUME NEW n \in Nat, NEW a \in [1..n -> Nat], \A i \in 1..n : a[i] = 0
    PROVE  Total(a) = 0
<1>1. PICK f \in [0..n -> Nat] :
          /\ f[0] = 0
          /\ \A i \in 1..n : f[i] = f[i-1] + a[i]
          /\ Total(a) = f[n]
  BY TotalFact
<1> DEFINE T == {k \in 0..n : f[k] # 0}
<1>2. T = {}
  <2> SUFFICES ASSUME T # {} PROVE FALSE
    OBVIOUS
  <2>1. PICK k \in T : \A j \in T : k <= j
    <3>1. T \in SUBSET Nat
      OBVIOUS
    <3> QED BY <3>1, LeastNatural
  <2>2. k # 0
    BY <1>1
  <2>3. k \in 1..n /\ k - 1 \in 0..n /\ k - 1 \notin T
    BY <2>1, <2>2
  <2> QED BY <1>1, <2>3
<1> QED BY <1>1, <1>2

\* One of the numbers is larger by x.
LEMMA TotalMore ==
    ASSUME NEW n \in Nat, NEW a \in [1..n -> Nat], NEW b \in [1..n -> Nat],
           NEW j \in 1..n, NEW x \in Nat, b[j] = a[j] + x,
           \A i \in 1..n : i # j => b[i] = a[i]
    PROVE  Total(b) = Total(a) + x
<1>1. PICK f \in [0..n -> Nat] :
          /\ f[0] = 0
          /\ \A i \in 1..n : f[i] = f[i-1] + a[i]
          /\ Total(a) = f[n]
  BY TotalFact
<1>2. PICK g \in [0..n -> Nat] :
          /\ g[0] = 0
          /\ \A i \in 1..n : g[i] = g[i-1] + b[i]
          /\ Total(b) = g[n]
  BY TotalFact
<1> DEFINE more(k) == IF k < j THEN 0 ELSE x
           T == {k \in 0..n : g[k] # f[k] + more(k)}
<1>m. /\ more(0) = 0 /\ more(n) = x
      /\ \A k \in 1..n : more(k) = more(k-1) + (IF k = j THEN x ELSE 0)
  <2>1. 0 < j /\ ~ n < j /\ n \in Nat
    OBVIOUS
  <2>2. more(0) = 0 /\ more(n) = x
    BY <2>1
  <2>3. ASSUME NEW k \in 1..n PROVE more(k) = more(k-1) + (IF k = j THEN x ELSE 0)
    <3>1. CASE k < j
      <4>1. k - 1 < j /\ k # j
        BY <3>1
      <4> QED BY <3>1, <4>1
    <3>2. CASE k = j
      <4>1. k - 1 < j /\ ~ k < j
        BY <3>2
      <4> QED BY <3>2, <4>1
    <3>3. CASE k > j
      <4>1. ~ k - 1 < j /\ ~ k < j /\ k # j
        BY <3>3
      <4> QED BY <4>1
    <3> QED BY <3>1, <3>2, <3>3
  <2> QED BY <2>2, <2>3
<1>n. \A k \in 0..n : more(k) \in Nat
  OBVIOUS
<1> HIDE DEF more
<1>3. T = {}
  <2> SUFFICES ASSUME T # {} PROVE FALSE
    OBVIOUS
  <2>1. PICK k \in T : \A i \in T : k <= i
    <3>1. T \in SUBSET Nat
      OBVIOUS
    <3> QED BY <3>1, LeastNatural
  <2>2. k # 0
    BY <1>1, <1>2, <1>m
  <2>3. k \in 1..n /\ k - 1 \in 0..n /\ k - 1 \notin T
    BY <2>1, <2>2
  <2>4. /\ f[k] = f[k-1] + a[k] /\ g[k] = g[k-1] + b[k]
        /\ g[k-1] = f[k-1] + more(k-1)
        /\ f[k-1] \in Nat /\ g[k-1] \in Nat /\ a[k] \in Nat /\ b[k] \in Nat
    BY <1>1, <1>2, <2>3
  <2> DEFINE d == IF k = j THEN x ELSE 0
  <2>5. d \in Nat /\ b[k] = a[k] + d
    <3>1. CASE k = j
      BY <3>1
    <3>2. CASE k # j
      <4>1. b[k] = a[k] /\ d = 0
        BY <2>3, <3>2
      <4>2. a[k] \in Nat
        BY <2>4
      <4> DEFINE ak == a[k]
      <4>3. ak + 0 = ak
        <5>1. ak \in Nat
          BY <4>2
        <5> HIDE DEF ak
        <5> QED BY ONLY <5>1
      <4> QED BY ONLY <4>1, <4>3
    <3> QED BY <3>1, <3>2
  <2>6. g[k] = f[k] + more(k)
    <3>1. more(k) = more(k-1) + d /\ more(k-1) \in Nat
      BY <1>m, <1>n, <2>3
    <3> DEFINE f0 == f[k-1]
               g0 == g[k-1]
               m0 == more(k-1)
               m1 == more(k)
               ak == a[k]
               bk == b[k]
    <3>2. /\ f[k] = f0 + ak /\ g[k] = g0 + bk /\ g0 = f0 + m0 /\ m1 = m0 + d /\ bk = ak + d
          /\ f0 \in Nat /\ m0 \in Nat /\ ak \in Nat /\ d \in Nat
      BY <2>4, <2>5, <3>1
    <3> HIDE DEF d, f0, g0, m0, m1, ak, bk
    <3>3. g[k] = f[k] + m1
      BY <3>2
    <3> QED BY <3>3 DEF m1
  <2> QED BY <2>1, <2>6
<1>4. n \in 0..n /\ n \notin T
  <2> HIDE DEF T
  <2> QED BY <1>3
<1> QED BY <1>1, <1>2, <1>4, <1>m

\* The members of F one after another, and the sum of their numbers.
Lines(p, n, F) ==
    /\ p \in [1..n -> F]
    /\ \A i, j \in 1..n : p[i] = p[j] => i = j
    /\ \A f \in F : \E i \in 1..n : p[i] = f

Along(L, p, n) == Total([i \in 1..n |-> L[p[i]]])

\* The same numbers in another order.
LEMMA TotalPermuted ==
    ASSUME NEW n \in Nat, NEW F, NEW L \in [F -> Nat],
           NEW p, Lines(p, n, F), NEW q, Lines(q, n, F)
    PROVE  Along(L, p, n) = Along(L, q, n)
<1>p. p \in [1..n -> F] /\ \A i, j \in 1..n : p[i] = p[j] => i = j
  BY DEF Lines
<1>q. q \in [1..n -> F] /\ \A i, j \in 1..n : q[i] = q[j] => i = j
  BY DEF Lines
<1> DEFINE a == [i \in 1..n |-> L[p[i]]]
           \* Those of p that q has up to k.
           some(k) == [i \in 1..n |-> IF \E j \in 1..k : q[j] = p[i] THEN L[p[i]] ELSE 0]
           b == [i \in 1..n |-> L[q[i]]]
<1>1. PICK f \in [0..n -> Nat] :
          /\ f[0] = 0
          /\ \A i \in 1..n : f[i] = f[i-1] + b[i]
          /\ Total(b) = f[n]
  <2>1. b \in [1..n -> Nat]
    BY <1>q
  <2> HIDE DEF b
  <2> QED BY <2>1, TotalFact
<1> DEFINE T == {k \in 0..n : Total(some(k)) # f[k]}
<1>2. \A k : some(k) \in [1..n -> Nat]
  BY <1>p
<1>3. T = {}
  <2> SUFFICES ASSUME T # {} PROVE FALSE
    OBVIOUS
  <2>1. PICK k \in T : \A i \in T : k <= i
    <3>1. T \in SUBSET Nat
      OBVIOUS
    <3> HIDE DEF T
    <3> QED BY <3>1, LeastNatural
  <2>2. CASE k = 0
    <3>1. \A i \in 1..n : some(0)[i] = 0
      OBVIOUS
    <3>2. some(0) \in [1..n -> Nat]
      BY <1>2
    <3> DEFINE s == some(0)
    <3> HIDE DEF some
    <3>3. Total(some(0)) = 0
      BY <3>1, <3>2, TotalZeros
    <3> QED BY <1>1, <2>2, <3>3
  <2>3. CASE k # 0
    <3>1. k \in 1..n /\ k - 1 \in 0..n /\ k - 1 \notin T
      <4> HIDE DEF some
      <4> QED BY <2>1, <2>3
    <3>2. PICK j \in 1..n : p[j] = q[k]
      <4>1. q[k] \in F
        BY <1>q, <3>1
      <4> QED BY <4>1 DEF Lines
    <3>3. \A i \in 1..n : (\E l \in 1..k : q[l] = p[i]) <=> (\E l \in 1..(k-1) : q[l] = p[i]) \/ i = j
      <4> TAKE i \in 1..n
      <4>1. \A l : l \in 1..k <=> l \in 1..(k-1) \/ l = k
        BY <3>1
      <4>2. p[i] = q[k] <=> i = j
        BY <1>p, <3>2
      <4> QED BY <4>1, <4>2
    <3>4. ~ \E l \in 1..(k-1) : q[l] = p[j]
      BY <1>q, <3>1, <3>2
    <3>5. some(k)[j] = some(k-1)[j] + b[k]
      <4>1. some(k-1)[j] = 0 /\ some(k)[j] = L[p[j]] /\ b[k] = L[p[j]] /\ L[p[j]] \in Nat
        BY <1>p, <3>1, <3>2, <3>3, <3>4
      <4> HIDE DEF some, b
      <4> QED BY <4>1
    <3>6. \A i \in 1..n : i # j => some(k)[i] = some(k-1)[i]
      BY <3>3
    <3>7. b[k] \in Nat /\ f[k] = f[k-1] + b[k]
      <4>1. f[k] = f[k-1] + b[k]
        BY <1>1, <3>1
      <4>2. b[k] \in Nat
        BY <1>q, <3>1
      <4> QED BY <4>1, <4>2
    <3>8. some(k) \in [1..n -> Nat] /\ some(k-1) \in [1..n -> Nat] /\ Total(some(k-1)) = f[k-1]
      BY <1>2, <3>1
    <3> DEFINE s == some(k)
               r == some(k-1)
               x == b[k]
    <3> HIDE DEF s, r, x
    <3>9. /\ s \in [1..n -> Nat] /\ r \in [1..n -> Nat] /\ x \in Nat /\ s[j] = r[j] + x
          /\ \A i \in 1..n : i # j => s[i] = r[i]
      BY <3>5, <3>6, <3>7, <3>8 DEF s, r, x
    <3>10. Total(s) = Total(r) + x
      BY <3>9, TotalMore
    <3> HIDE DEF some, b
    <3> QED BY <2>1, <3>7, <3>8, <3>10 DEF s, r, x
  <2> QED BY <2>2, <2>3
<1>4. some(n) = a
  <2>1. \A i \in 1..n : \E j \in 1..n : q[j] = p[i]
    <3> TAKE i \in 1..n
    <3>1. p[i] \in F
      BY <1>p
    <3> QED BY <3>1 DEF Lines
  <2> QED BY <2>1
<1>5. Total(some(n)) = f[n]
  <2>1. n \in 0..n
    OBVIOUS
  <2> HIDE DEF some
  <2> QED BY <1>3, <2>1
<1> QED BY <1>1, <1>4, <1>5 DEF Along

-------------------------------------------------------------------------------
(* What is counted is what is written *)

\* The size of bytes with their length.
LEMMA PrefixedSize ==
    ASSUME NEW b, Text(b)
    PROVE  /\ Len(Prefixed(b)) = SizeOfPrefixed(Len(b))
           /\ Prefixed(b) \in Octets /\ Len(Prefixed(b)) \in Nat /\ Len(b) \in Nat
           /\ Len(b) < Len(Prefixed(b))
<1> DEFINE e == EncodeVarint(Groups(Len(b)))
<1>1. /\ Len(e) = SizeOfVarint(Groups(Len(b))) /\ Len(e) \in Nat /\ 1 <= Len(e)
      /\ Prefixed(b) \in Octets /\ Len(Prefixed(b)) = Len(e) + Len(b)
  BY PrefixedShape
<1>2. Len(b) \in Nat
  BY DEF Text, Octets
<1> HIDE DEF e
<1>3. SizeOfPrefixed(Len(b)) = Len(b) + Len(e)
  BY <1>1 DEF SizeOfPrefixed
<1> QED BY <1>1, <1>2, <1>3

\* The bytes of an entry,
LEMMA EntryLength ==
    ASSUME NEW row, row.keyAt \in Byte, row.valueAt \in Byte,
           NEW e, Text(e.key), IsList(e.value), Len(e.value) = 1,
           Text(NestedEncoded(Marshals[row.type], e.value[1]))
    PROVE  LET b == NestedEncoded(Marshals[row.type], e.value[1])
           IN  /\ EntryBytes(row, e) \in Octets
               /\ Len(EntryBytes(row, e)) = 1 + SizeOfPrefixed(Len(e.key)) + 1 + SizeOfPrefixed(Len(b))
               /\ Len(b) < Len(EntryBytes(row, e))
<1> DEFINE b == NestedEncoded(Marshals[row.type], e.value[1])
           key == e.key
           kp == Prefixed(key)
           bp == Prefixed(b)
           ka == <<row.keyAt>>
           va == <<row.valueAt>>
<1>1. Text(b) /\ Text(key)
  OBVIOUS
<1>2. EntryBytes(row, e) = (ka \o kp) \o (va \o bp)
  BY <1>1, EntryParts
<1>3. ka \in Seq(Byte) /\ Len(ka) = 1 /\ va \in Seq(Byte) /\ Len(va) = 1
  OBVIOUS
<1> HIDE DEF b, key, kp, bp, ka, va
<1>5. /\ Len(kp) = SizeOfPrefixed(Len(key)) /\ kp \in Octets /\ Len(kp) \in Nat
  BY <1>1, PrefixedSize DEF kp
<1>6. /\ Len(bp) = SizeOfPrefixed(Len(b)) /\ bp \in Octets /\ Len(bp) \in Nat
      /\ Len(b) \in Nat /\ Len(b) < Len(bp)
  BY <1>1, PrefixedSize DEF bp
<1>7. ka \o kp \in Seq(Byte) /\ Len(ka \o kp) = 1 + Len(kp)
  <2>1. kp \in Seq(Byte)
    BY <1>5 DEF Octets
  <2>2. ka \o kp \in Seq(Byte) /\ Len(ka \o kp) = Len(ka) + Len(kp)
    BY <1>3, <2>1, ConcatFact
  <2> QED BY <1>3, <2>2
<1>8. va \o bp \in Seq(Byte) /\ Len(va \o bp) = 1 + Len(bp)
  <2>1. bp \in Seq(Byte)
    BY <1>6 DEF Octets
  <2>2. va \o bp \in Seq(Byte) /\ Len(va \o bp) = Len(va) + Len(bp)
    BY <1>3, <2>1, ConcatFact
  <2> QED BY <1>3, <2>2
<1> DEFINE p == ka \o kp
           q == va \o bp
<1> HIDE DEF p, q
<1>9. p \o q \in Seq(Byte) /\ Len(p \o q) = Len(p) + Len(q)
  <2>1. p \in Seq(Byte) /\ q \in Seq(Byte)
    BY <1>7, <1>8 DEF p, q
  <2> QED BY <2>1, ConcatFact
<1>10. EntryBytes(row, e) \in Octets /\ Len(EntryBytes(row, e)) = 1 + Len(kp) + 1 + Len(bp)
  BY <1>2, <1>5, <1>6, <1>7, <1>8, <1>9 DEF p, q, Octets
<1>12. Len(b) < 1 + Len(kp) + 1 + Len(bp)
  BY <1>5, <1>6
<1> QED BY <1>5, <1>6, <1>10, <1>12 DEF b, key

\* and their number.
LEMMA EntryCounted ==
    ASSUME NEW row, NEW size, size.keyAt = 1, size.valueAt = 1, size.type = row.type,
           row.keyAt \in Byte, row.valueAt \in Byte,
           NEW e, Text(e.key), IsList(e.value), Len(e.value) = 1, Returns(row.type, e.value[1])
    PROVE  EntrySize(size, e) = Len(EntryBytes(row, e))
<1> DEFINE b == NestedEncoded(Marshals[row.type], e.value[1])
           n == NestedSizeVT(Sizes[row.type], e.value[1])
<1>1. Text(b) /\ n = Len(b)
  BY DEF Returns
<1>2. n \in Nat
  BY <1>1 DEF Text, Octets
<1>3. EntrySize(size, e) = 1 + SizeOfPrefixed(Len(e.key)) + 1 + SizeOfPrefixed(n)
  <2> DEFINE all == [k \in 1..Len(e.value) |-> NestedSizeVT(Sizes[size.type], e.value[k])]
  <2>1. EntrySize(size, e) = 1 + SizeOfPrefixed(Len(e.key)) + 1 + SizeOfPrefixed(Total(all))
    BY DEF EntrySize
  <2>2. all = [k \in 1..1 |-> n]
    <3>1. \A k \in 1..1 : NestedSizeVT(Sizes[size.type], e.value[k]) = n
      OBVIOUS
    <3> HIDE DEF n
    <3> QED BY <3>1
  <2> HIDE DEF all, n
  <2> QED BY <1>2, <2>1, <2>2, TotalOne
<1>4. Len(EntryBytes(row, e)) = 1 + SizeOfPrefixed(Len(e.key)) + 1 + SizeOfPrefixed(Len(b))
  BY <1>1, EntryLength
<1> QED BY <1>1, <1>3, <1>4

\* A size row that counts what a row writes.
Counts(row, size) ==
    /\ size.field = row.field /\ size.kind = row.kind /\ size.type = row.type
    /\ size.at = 1 + Len(row.more)
    /\ row.kind = "MapOf" => /\ size.keyAt = 1 /\ size.valueAt = 1
                             /\ row.keyAt \in Byte /\ row.valueAt \in Byte

\* A message, an entry or bytes take as many bytes as are counted,
LEMMA RawCounted ==
    ASSUME NEW row, NEW size, Counts(row, size), NEW c, NEW m, Sound(row, c, m[row.field]),
           NEW k \in 1..Len(Elements(row, m))
    PROVE  LET e == Elements(row, m)[k]
           IN  IF IsNumber(size) THEN Raw(row, e) = e
               ELSE RawSize(size, e) = Len(Raw(row, e))
<1> DEFINE v == m[row.field]
           e == Elements(row, m)[k]
<1>1. /\ row.kind = c.kind /\ row.type = c.type /\ c.kind \in Plain
      /\ size.kind = row.kind /\ size.type = row.type
  BY DEF Sound, Counts
<1>2. CASE row.kind \in {"Msg", "Msgs"}
  <2>1. IsList(v) /\ \A x \in Inner(c, v) : Returns(c.type, x)
    BY <1>1, <1>2, Kinds DEF Sound
  <2>2. Elements(row, m) = v
    BY <1>2, Kinds DEF Elements
  <2>3. k \in 1..Len(v) /\ k \in DOMAIN v
    BY <2>1, <2>2, ListFact
  <2>4. v[k] \in Inner(c, v)
    BY <1>1, <1>2, <2>3 DEF Inner
  <2>5. Returns(c.type, v[k])
    BY <2>1, <2>4
  <2>6. NestedSizeVT(Sizes[size.type], v[k]) = Len(NestedEncoded(Marshals[row.type], v[k]))
    BY <1>1, <2>5 DEF Returns
  <2>7. e = v[k] /\ ~ IsNumber(size)
    BY <1>1, <1>2, <2>2 DEF IsNumber
  <2> HIDE DEF e, v
  <2>8. RawSize(size, e) = NestedSizeVT(Sizes[size.type], e)
    BY <1>1, <1>2 DEF RawSize
  <2>9. Raw(row, e) = NestedEncoded(Marshals[row.type], e)
    BY <1>2 DEF Raw
  <2> QED BY <2>6, <2>7, <2>8, <2>9 DEF e
<1>3. CASE row.kind = "MapOf"
  <2>1. IsList(v) /\ (\A x \in Inner(c, v) : Returns(c.type, x)) /\ \A i \in DOMAIN v : IsEntry(c, v[i])
    BY <1>1, <1>3, Kinds DEF Sound, Holds
  <2>2. Elements(row, m) = v
    BY <1>3, Kinds DEF Elements
  <2>3. k \in 1..Len(v) /\ k \in DOMAIN v
    BY <2>1, <2>2, ListFact
  <2>4. v[k].value[1] \in Inner(c, v)
    BY <1>1, <1>3, <2>3 DEF Inner
  <2>5. Returns(row.type, v[k].value[1])
    BY <1>1, <2>1, <2>4
  <2>6. Text(v[k].key) /\ IsList(v[k].value) /\ Len(v[k].value) = 1
    BY <2>1, <2>3 DEF IsEntry
  <2>7. e = v[k] /\ ~ IsNumber(size)
    BY <1>1, <1>3, <2>2 DEF IsNumber
  <2> DEFINE w == v[k]
  <2> HIDE DEF e, v, w
  <2>8. EntrySize(size, w) = Len(EntryBytes(row, w))
    <3>1. Text(w.key) /\ IsList(w.value) /\ Len(w.value) = 1 /\ Returns(row.type, w.value[1])
      BY <2>5, <2>6 DEF w
    <3>2. /\ size.keyAt = 1 /\ size.valueAt = 1 /\ size.type = row.type
          /\ row.keyAt \in Byte /\ row.valueAt \in Byte
      BY <1>3 DEF Counts
    <3> QED BY <3>1, <3>2, EntryCounted
  <2>9. RawSize(size, w) = EntrySize(size, w)
    BY <1>1, <1>3 DEF RawSize
  <2>10. Raw(row, w) = EntryBytes(row, w)
    BY <1>3 DEF Raw
  <2> QED BY <2>7, <2>8, <2>9, <2>10 DEF e, w
<1>4. CASE ~ (row.kind \in {"Msg", "Msgs", "MapOf"})
  <2> HIDE DEF e
  <2>1. RawSize(size, e) = Len(e)
    BY <1>1, <1>4 DEF RawSize
  <2>2. Raw(row, e) = e
    BY <1>4 DEF Raw
  <2> QED BY <2>1, <2>2 DEF e
<1> QED BY <1>2, <1>3, <1>4

\* and so do all of a field,
LEMMA PlainCounted ==
    ASSUME NEW row, NEW size, Counts(row, size), NEW c, SameTag(row, c),
           NEW m, Sound(row, c, m[row.field])
    PROVE  Counted(size, m) = Len(Written(row, m))
<1> DEFINE es == Elements(row, m)
           n == Len(es)
           chunks == Chunks(row, m)
           counted(k) == size.at + IF IsNumber(size) THEN SizeOfVarint(es[k])
                                   ELSE SizeOfPrefixed(RawSize(size, es[k]))
<1>1. row.kind = c.kind /\ c.kind \in Plain /\ size.kind = row.kind /\ size.field = row.field
  BY DEF Sound, Counts
<1>2. n \in Nat /\ \A k \in 1..n : IsValue(c, Raw(row, es[k]))
  <2>1. ReadsAll(row, c, m[row.field], es)
    BY ElementRead
  <2> HIDE DEF es
  <2> QED BY <2>1 DEF ReadsAll, Reads
<1>3. chunks = [k \in 1..n |-> Tagged(row, Payload(row, Raw(row, es[k])))]
  BY DEF Chunks
<1>4. Elements(size, m) = es
  BY <1>1 DEF Elements
<1>5. Counted(size, m) = Total([k \in 1..n |-> counted(k)])
  <2>1. size.kind # "Unknown" /\ size.kind # "OneOf"
    BY <1>1, Kinds
  <2> HIDE DEF es
  <2> QED BY <1>4, <2>1 DEF Counted
<1>6. ASSUME NEW k \in 1..n
      PROVE  chunks[k] \in Octets /\ Len(chunks[k]) = counted(k)
  <2> DEFINE e == es[k]
             x == Raw(row, e)
             tag == <<row.at>> \o row.more
             f == Tagged(row, Payload(c, x))
  <2>1. IsValue(c, x)
    BY <1>2
  <2>2. IF IsNumber(size) THEN x = e ELSE RawSize(size, e) = Len(x)
    BY RawCounted
  <2>3. IsNumber(size) = IsNumber(c) /\ \A y : Payload(row, y) = Payload(c, y)
    BY <1>1 DEF IsNumber, Payload
  <2>4. size.at = Len(tag)
    <3>1. row.more \in Seq(Byte) /\ size.at = 1 + Len(row.more) /\ <<row.at>> \in Seq(Byte) /\ Len(<<row.at>>) = 1
      BY DEF SameTag, Counts, Octets
    <3> QED BY <3>1, ConcatFact
  <2>5. chunks[k] = f
    BY <1>3, <2>3
  <2> HIDE DEF x, e, es
  <2>6. Len(f) = Len(tag) + IF IsNumber(c) THEN SizeOfVarint(x) ELSE SizeOfPrefixed(Len(x))
    BY <2>1, FieldSize
  <2>7. f \in Octets
    <3>1. <<>> \in Octets
      BY DEF Octets
    <3> QED BY <2>1, <3>1, FieldParts
  <2> HIDE DEF f, tag, chunks
  <2>8. counted(k) = size.at + IF IsNumber(c) THEN SizeOfVarint(x) ELSE SizeOfPrefixed(Len(x))
    BY <2>2, <2>3 DEF e
  <2> QED BY <2>4, <2>5, <2>6, <2>7, <2>8
<1> DEFINE lens == [k \in 1..n |-> Len(chunks[k])]
<1> HIDE DEF counted, es, n, chunks
<1>7. chunks \in [1..n -> Octets]
  <2>1. chunks = [k \in 1..n |-> chunks[k]]
    BY <1>3
  <2> QED BY <1>6, <2>1
<1>8. Len(FlattenSeq(chunks)) = Total(lens)
  BY <1>2, <1>7, TotalFlatten
<1>9. lens = [k \in 1..n |-> counted(k)]
  BY <1>6
<1>10. Written(row, m) = FlattenSeq(chunks)
  BY <1>1, PlainWritten DEF chunks
<1> QED BY <1>5, <1>8, <1>9, <1>10

\* and a oneof.
LEMMA ArmCounted ==
    ASSUME NEW row, NEW size, row.kind = "OneOf", size.kind = "OneOf", size.field = row.field,
           NEW c, row.field = c.field, NEW m, SoundArm(c, m[c.field])
    PROVE  Counted(size, m) = Len(Written(row, m))
<1> DEFINE v == m[c.field]
           a == v[1]
           w == a.wrapper[c.inner]
           x == ArmRaw(c, w)
           it == Marshals[c.arm][1]
           is == Sizes[c.arm][1]
           chunk == Tagged(it, Payload(c, x))
           wrapper == a.wrapper
<1>1. /\ c.kind \in {"Arm", "BytesArm"} /\ ArmFits(c) /\ IsArm(c, a) /\ a.arm = c.arm
      /\ IsList(v) /\ Len(v) = 1
      /\ NestedSizeVT(Sizes[c.arm], wrapper) = SizeVT(Sizes[c.arm], wrapper)
      /\ c.kind = "Arm" => Returns(c.type, w[1])
  BY DEF SoundArm, HoldsArm, SameMethods
<1>2. SameTag(it, c) /\ IsValue(c, x) /\ chunk \in Octets /\ Written(row, m) = chunk
  BY SoundArmChunk
<1>3. /\ Len(Sizes[c.arm]) = 1
      /\ is.kind = (IF c.kind = "Arm" THEN "Msg" ELSE "Always") /\ is.field = c.inner
      /\ is.type = c.type /\ is.at = 1 + Len(it.more)
  BY <1>1 DEF ArmFits, RowFits
<1>4. /\ c.kind = "Arm" => IsList(w) /\ Len(w) = 1
  BY <1>1 DEF IsArm
<1>5. wrapper[is.field] = w
  BY <1>3
<1> HIDE DEF w, wrapper, it, is
<1>6. ~ (is.kind \in Scalars) /\ is.kind # "Unknown" /\ is.kind # "OneOf" /\ ~ IsNumber(is) /\ ~ IsNumber(c)
  BY <1>1, <1>3, Kinds DEF IsNumber
<1>7. Len(Elements(is, wrapper)) = 1 /\ RawSize(is, Elements(is, wrapper)[1]) = Len(x)
  <2>1. CASE c.kind = "Arm"
    <3>1. is.kind = "Msg"
      BY <1>3, <2>1
    <3>2. Elements(is, wrapper) = w
      BY <1>5, <1>6, <3>1 DEF Elements
    <3>3. RawSize(is, w[1]) = Len(x)
      <4>1. RawSize(is, w[1]) = NestedSizeVT(Sizes[c.type], w[1])
        BY <1>3, <3>1 DEF RawSize
      <4>2. x = NestedEncoded(Marshals[c.type], w[1])
        BY <2>1 DEF ArmRaw
      <4> QED BY <1>1, <2>1, <4>1, <4>2 DEF Returns
    <3> QED BY <1>4, <2>1, <3>2, <3>3
  <2>2. CASE c.kind = "BytesArm"
    <3>1. is.kind = "Always"
      BY <1>3, <2>2
    <3>2. Elements(is, wrapper) = <<w>>
      BY <1>5, <3>1 DEF Elements
    <3>3. RawSize(is, w) = Len(x)
      BY <2>2, <3>1 DEF RawSize, ArmRaw
    <3> HIDE DEF x
    <3> QED BY <3>2, <3>3
  <2> QED BY <1>1, <2>1, <2>2
<1> HIDE DEF x
<1>8. Len(chunk) = is.at + SizeOfPrefixed(Len(x))
  <2> DEFINE tag == <<it.at>> \o it.more
  <2>1. is.at = Len(tag)
    <3>1. it.more \in Seq(Byte) /\ <<it.at>> \in Seq(Byte) /\ Len(<<it.at>>) = 1
      BY <1>2 DEF SameTag, Octets
    <3> QED BY <1>3, <3>1, ConcatFact
  <2>2. Len(chunk) = Len(tag) + IF IsNumber(c) THEN SizeOfVarint(x) ELSE SizeOfPrefixed(Len(x))
    BY <1>2, FieldSize
  <2> QED BY <1>6, <2>1, <2>2
<1>9. Len(chunk) \in Nat
  BY <1>2 DEF Octets
<1> HIDE DEF chunk
<1>10. Counted(is, wrapper) = Len(chunk)
  <2> DEFINE es == Elements(is, wrapper)
             all == [k \in 1..Len(es) |->
                is.at + IF IsNumber(is) THEN SizeOfVarint(es[k]) ELSE SizeOfPrefixed(RawSize(is, es[k]))]
  <2>1. Counted(is, wrapper) = Total(all)
    BY <1>6 DEF Counted
  <2>2. all = [k \in 1..1 |-> Len(chunk)]
    <3>1. Len(es) = 1 /\ RawSize(is, es[1]) = Len(x)
      BY <1>7
    <3> HIDE DEF es
    <3>2. \A k \in 1..1 : (is.at + IF IsNumber(is) THEN SizeOfVarint(es[k])
                             ELSE SizeOfPrefixed(RawSize(is, es[k]))) = Len(chunk)
      BY <1>6, <1>8, <3>1
    <3> QED BY <3>1, <3>2
  <2> HIDE DEF all
  <2> QED BY <1>9, <2>1, <2>2, TotalOne
<1>11. SizeVT(Sizes[c.arm], wrapper) = Len(chunk)
  <2> DEFINE all == [k \in 1..Len(Sizes[c.arm]) |-> Counted(Sizes[c.arm][k], wrapper)]
  <2>1. SizeVT(Sizes[c.arm], wrapper) = Total(all)
    BY DEF SizeVT
  <2>2. all = [k \in 1..1 |-> Len(chunk)]
    BY <1>3, <1>10 DEF is
  <2> HIDE DEF all
  <2> QED BY <1>9, <2>1, <2>2, TotalOne
<1>12. Counted(size, m) = Len(chunk)
  <2> DEFINE all == [k \in 1..Len(m[size.field]) |->
                        NestedSizeVT(Sizes[m[size.field][k].arm], m[size.field][k].wrapper)]
  <2>1. Counted(size, m) = Total(all)
    BY DEF Counted
  <2>2. all = [k \in 1..1 |-> Len(chunk)]
    <3>1. Len(m[size.field]) = 1 /\ m[size.field][1] = a /\ a.arm = c.arm
      BY <1>1
    <3>2. NestedSizeVT(Sizes[a.arm], a.wrapper) = Len(chunk)
      BY <1>1, <1>11 DEF wrapper
    <3> HIDE DEF a
    <3>3. \A k \in 1..1 : NestedSizeVT(Sizes[m[size.field][k].arm], m[size.field][k].wrapper) = Len(chunk)
      BY <3>1, <3>2
    <3> QED BY <3>1, <3>3
  <2> HIDE DEF all
  <2> QED BY <1>9, <2>1, <2>2, TotalOne
<1> QED BY <1>2, <1>12 DEF chunk, x, it, w

-------------------------------------------------------------------------------
(* The tables of a type *)

\* What TablesAssumption says of the rows and the cases of a type.
LEMMA TypeFact ==
    ASSUME NEW type \in DOMAIN Unmarshals
    PROVE  LET rows == Marshals[type]
               sizes == Sizes[type]
               cases == Unmarshals[type]
           IN  /\ Rows(rows, cases) /\ Rows(sizes, cases) /\ Len(sizes) = Len(rows)
               /\ \A c, d \in cases : c.at = d.at => c = d
               /\ \A c, d \in cases : c.arm = d.arm /\ c.arm # "" => c = d
               /\ \A c \in cases : c.field # "unknownFields"
               /\ \A i, j \in 1..Len(rows) : rows[i].field = sizes[j].field =>
                    FieldFits(rows[i], sizes[j], {c \in cases : c.field = rows[i].field})
<1> DEFINE rows == Marshals[type]
           sizes == Sizes[type]
           cases == Unmarshals[type]
<1>1. TablesFit(type)
  BY TablesAssumption
<1>2. /\ IsList(rows) /\ IsList(sizes) /\ Len(rows) = Len(sizes)
      /\ \A i, j \in DOMAIN rows : rows[i].field = rows[j].field => i = j
      /\ \A i, j \in DOMAIN sizes : sizes[i].field = sizes[j].field => i = j
      /\ {rows[i].field : i \in DOMAIN rows} = Fields(cases)
      /\ {sizes[i].field : i \in DOMAIN sizes} = Fields(cases)
      /\ \A c, d \in cases : c.at = d.at \/ (c.arm = d.arm /\ c.arm # "") => c = d
      /\ \A c \in cases : c.field # "unknownFields"
      /\ \A i \in DOMAIN rows, j \in DOMAIN sizes : rows[i].field = sizes[j].field =>
            FieldFits(rows[i], sizes[j], {c \in cases : c.field = rows[i].field})
  BY <1>1 DEF TablesFit
<1> HIDE DEF rows, sizes, cases
<1>3. /\ Len(rows) \in Nat /\ DOMAIN rows = 1..Len(rows)
      /\ Len(sizes) \in Nat /\ DOMAIN sizes = 1..Len(sizes)
  <2> DEFINE R == {rows[i] : i \in DOMAIN rows}
             S == {sizes[i] : i \in DOMAIN sizes}
  <2>1. rows \in Seq(R) /\ sizes \in Seq(S)
    BY <1>2 DEF IsList
  <2> HIDE DEF R, S
  <2> QED BY <2>1
<1>4. Rows(rows, cases) /\ Rows(sizes, cases)
  BY <1>2, <1>3 DEF Rows
<1> QED BY <1>2, <1>3, <1>4 DEF rows, sizes, cases

\* A row that writes an entry of a map.
LEMMA EntryBytesFit ==
    ASSUME NEW row, NEW c, EntryFits(row, c)
    PROVE  row.keyAt \in Byte /\ row.valueAt \in Byte
<1>1. EntryTag(c.keyAt, row.keyAt) /\ EntryTag(c.valueAt, row.valueAt)
  BY DEF EntryFits
<1>2. <<>> \in Octets
  BY DEF Octets
<1>3. <<row.keyAt>> \in Octets /\ <<row.valueAt>> \in Octets
  BY <1>1, <1>2, EntryTagRead
<1>4. \A x : <<x>> \in Seq(Byte) => x \in Byte
  <2> SUFFICES ASSUME NEW x, <<x>> \in Seq(Byte) PROVE x \in Byte
    OBVIOUS
  <2> DEFINE s == <<x>>
  <2>1. s \in Seq(Byte) /\ Len(s) = 1 /\ s[1] = x
    OBVIOUS
  <2> HIDE DEF s
  <2>2. s[1] \in Byte
    BY <2>1
  <2> QED BY <2>1, <2>2
<1> QED BY <1>3, <1>4 DEF Octets

\* What is counted of a field is what is written of it.
LEMMA FieldCounted ==
    ASSUME NEW cases, NEW row, NEW size, size.field = row.field,
           FieldFits(row, size, {c \in cases : c.field = row.field}),
           NEW m, SoundField(cases, row, m)
    PROVE  Counted(size, m) = Len(Written(row, m))
<1>1. size.kind = row.kind
  BY DEF FieldFits
<1>2. CASE row.kind = "Unknown"
  BY <1>1, <1>2 DEF Counted, Written
<1>3. CASE row.kind = "OneOf" /\ m[row.field] = <<>>
  <2> DEFINE all == [k \in 1..Len(m[row.field]) |->
                      NestedEncoded(Marshals[m[row.field][k].arm], m[row.field][k].wrapper)]
             sum == [k \in 1..Len(m[size.field]) |->
                      NestedSizeVT(Sizes[m[size.field][k].arm], m[size.field][k].wrapper)]
  <2>1. Written(row, m) = FlattenSeq(all) /\ Counted(size, m) = Total(sum)
    BY <1>1, <1>3 DEF Written, Counted
  <2>2. all = <<>> /\ sum \in [1..0 -> Nat]
    BY <1>3
  <2> HIDE DEF all, sum
  <2>3. Total(sum) = 0
    <3> DEFINE n == 0
    <3>1. n \in Nat /\ sum \in [1..n -> Nat] /\ \A i \in 1..n : sum[i] = 0
      BY <2>2
    <3> HIDE DEF n
    <3> QED BY <3>1, TotalZeros
  <2>4. FlattenSeq(all) = <<>>
    BY <2>2 DEF FlattenSeq
  <2> QED BY <2>1, <2>3, <2>4
<1>4. ASSUME row.kind = "OneOf", NEW c \in cases, row.field = c.field, SoundArm(c, m[c.field])
      PROVE  Counted(size, m) = Len(Written(row, m))
  BY <1>1, <1>4, ArmCounted
<1>5. ASSUME NEW c \in cases, row.field = c.field, SameTag(row, c), Sound(row, c, m[row.field])
      PROVE  Counted(size, m) = Len(Written(row, m))
  <2>1. row.kind = c.kind /\ c.kind \in Plain /\ row.type = c.type
    BY <1>5 DEF Sound
  <2>2. RowFits(row, size, c)
    <3> DEFINE its == {d \in cases : d.field = row.field}
    <3>1. c \in its
      BY <1>5
    <3> HIDE DEF its
    <3>2. row.kind # "Unknown" /\ row.kind # "OneOf"
      BY <2>1, Kinds
    <3>3. PICK d \in its : its = {d} /\ RowFits(row, size, d)
      BY <3>2 DEF FieldFits, its
    <3> QED BY <3>1, <3>3
  <2>3. row.kind = "MapOf" => row.keyAt \in Byte /\ row.valueAt \in Byte
    BY <1>5, <2>1, EntryBytesFit DEF Sound
  <2>4. Counts(row, size)
    BY <1>1, <2>1, <2>2, <2>3 DEF Counts, RowFits
  <2> QED BY <1>5, <2>4, PlainCounted
<1> QED BY <1>2, <1>3, <1>4, <1>5 DEF SoundField

\* What is counted row by row is all that is written.
LEMMA RowsCounted ==
    ASSUME NEW cases, NEW rows, Rows(rows, cases), NEW sizes, Rows(sizes, cases),
           Len(sizes) = Len(rows), NEW m,
           \A i \in 1..Len(rows) : Written(rows[i], m) \in Octets,
           \A i, j \in 1..Len(rows) :
                rows[i].field = sizes[j].field => Counted(sizes[j], m) = Len(Written(rows[i], m))
    PROVE  /\ SizeVT(sizes, m) = Len(Encoded(rows, m))
           /\ Encoded(rows, m) \in Octets
           /\ \A i \in 1..Len(rows) : Len(Written(rows[i], m)) <= Len(Encoded(rows, m))
<1>c. \A i, j \in 1..Len(rows) :
        rows[i].field = sizes[j].field => Counted(sizes[j], m) = Len(Written(rows[i], m))
  OBVIOUS
<1>w. \A i \in 1..Len(rows) : Written(rows[i], m) \in Octets
  OBVIOUS
<1> DEFINE N == Len(rows)
           chunks == [k \in 1..N |-> Written(rows[N + 1 - k], m)]
           p == [k \in 1..N |-> rows[N + 1 - k].field]
           q == [k \in 1..N |-> sizes[k].field]
           F == Fields(cases)
           at(f) == CHOOSE i \in 1..N : rows[i].field = f
           L == [f \in F |-> Len(Written(rows[at(f)], m))]
<1>1. Rows(rows, cases) /\ Rows(sizes, cases) /\ Len(sizes) = N
  OBVIOUS
<1>2. Encoded(rows, m) = FlattenSeq(chunks) /\ SizeVT(sizes, m) = Total([k \in 1..N |-> Counted(sizes[k], m)])
  BY <1>1 DEF Encoded, SizeVT
<1>4. /\ N \in Nat /\ DOMAIN rows = 1..N
      /\ \A i, j \in 1..N : rows[i].field = rows[j].field => i = j
      /\ {rows[i].field : i \in 1..N} = F
  BY <1>1 DEF Rows
<1>5. /\ \A i, j \in 1..N : sizes[i].field = sizes[j].field => i = j
      /\ {sizes[i].field : i \in 1..N} = F
  BY <1>1 DEF Rows
<1> HIDE DEF N, F
<1>6. \A i \in 1..N : Written(rows[i], m) \in Octets
  BY <1>w DEF N
<1>7. \A f \in F : at(f) \in 1..N /\ rows[at(f)].field = f
  <2> TAKE f \in F
  <2>1. \E i \in 1..N : rows[i].field = f
    BY <1>4
  <2> QED BY <2>1
<1>8. \A i \in 1..N : at(rows[i].field) = i /\ rows[i].field \in F
  <2> TAKE i \in 1..N
  <2>1. rows[i].field \in F
    BY <1>4
  <2>2. at(rows[i].field) \in 1..N /\ rows[at(rows[i].field)].field = rows[i].field
    BY <1>7, <2>1
  <2> HIDE DEF at
  <2> QED BY <1>4, <2>1, <2>2
<1> HIDE DEF at
<1>9. L \in [F -> Nat]
  <2>1. \A f \in F : Len(Written(rows[at(f)], m)) \in Nat
    BY <1>6, <1>7 DEF Octets
  <2> QED BY <2>1
<1>10. \A i \in 1..N : L[rows[i].field] = Len(Written(rows[i], m))
  BY <1>8
<1>11. chunks \in [1..N -> Octets]
  <2>1. \A k \in 1..N : N + 1 - k \in 1..N
    BY <1>4
  <2> QED BY <1>6, <2>1
<1>12. \A k \in 1..N : Len(chunks[k]) = L[p[k]]
  <2> TAKE k \in 1..N
  <2>1. N + 1 - k \in 1..N
    BY <1>4
  <2>2. L[rows[N + 1 - k].field] = Len(Written(rows[N + 1 - k], m))
    BY <1>10, <2>1
  <2> HIDE DEF L
  <2> QED BY <2>2
<1>13. \A k \in 1..N : Counted(sizes[k], m) = L[q[k]]
  <2> TAKE k \in 1..N
  <2>1. sizes[k].field \in F
    BY <1>5
  <2>2. PICK i \in 1..N : rows[i].field = sizes[k].field
    BY <1>4, <2>1
  <2>5. Counted(sizes[k], m) = Len(Written(rows[i], m))
    BY <1>c, <2>2 DEF N
  <2>6. L[sizes[k].field] = Len(Written(rows[i], m))
    BY <1>10, <2>2
  <2> HIDE DEF L
  <2> QED BY <2>5, <2>6
<1>14. p \in [1..N -> F] /\ q \in [1..N -> F]
  <2>1. \A k \in 1..N : N + 1 - k \in 1..N
    BY <1>4
  <2> QED BY <1>4, <1>5, <2>1
<1>15. /\ \A i, j \in 1..N : p[i] = p[j] => i = j
       /\ \A i, j \in 1..N : q[i] = q[j] => i = j
  <2>1. \A k \in 1..N : N + 1 - k \in 1..N
    BY <1>4
  <2>2. ASSUME NEW i \in 1..N, NEW j \in 1..N, p[i] = p[j] PROVE i = j
    <3>1. rows[N + 1 - i].field = rows[N + 1 - j].field
      BY <2>2
    <3>2. N + 1 - i = N + 1 - j
      BY <1>4, <2>1, <3>1
    <3> QED BY <1>4, <3>2
  <2> QED BY <1>5, <2>2
<1>16. /\ \A f \in F : \E i \in 1..N : p[i] = f
       /\ \A f \in F : \E i \in 1..N : q[i] = f
  <2>1. \A f \in F : \E i \in 1..N : q[i] = f
    BY <1>5
  <2>2. \A f \in F : \E i \in 1..N : p[i] = f
    <3> TAKE f \in F
    <3>1. PICK j \in 1..N : rows[j].field = f
      BY <1>4
    <3>2. N + 1 - j \in 1..N /\ N + 1 - (N + 1 - j) = j
      BY <1>4
    <3>3. p[N + 1 - j] = f
      BY <3>1, <3>2
    <3> HIDE DEF p
    <3> QED BY <3>2, <3>3
  <2> QED BY <2>1, <2>2
<1> HIDE DEF p, q, L, chunks
<1>17. Total([i \in 1..N |-> L[p[i]]]) = Total([i \in 1..N |-> L[q[i]]])
  <2>1. Lines(p, N, F) /\ Lines(q, N, F)
    BY <1>14, <1>15, <1>16 DEF Lines
  <2>2. Along(L, p, N) = Along(L, q, N)
    BY <1>4, <1>9, <2>1, TotalPermuted
  <2> QED BY <2>2 DEF Along
<1>18. FlattenSeq(chunks) \in Octets /\ Len(FlattenSeq(chunks)) = Total([i \in 1..N |-> Len(chunks[i])])
  BY <1>4, <1>11, TotalFlatten
<1>19. [i \in 1..N |-> Len(chunks[i])] = [i \in 1..N |-> L[p[i]]]
  BY <1>12
<1>20. [k \in 1..N |-> Counted(sizes[k], m)] = [i \in 1..N |-> L[q[i]]]
  BY <1>13
<1>21. SizeVT(sizes, m) = Len(Encoded(rows, m)) /\ Encoded(rows, m) \in Octets
  BY <1>2, <1>17, <1>18, <1>19, <1>20
<1>22. ASSUME NEW i \in 1..N PROVE Len(Written(rows[i], m)) <= Len(Encoded(rows, m))
  <2> DEFINE lens == [k \in 1..N |-> Len(chunks[k])]
             k == N + 1 - i
  <2>1. k \in 1..N /\ N + 1 - k = i
    BY <1>4
  <2>2. lens \in [1..N -> Nat] /\ lens[k] = Len(chunks[k])
    BY <1>11, <2>1 DEF Octets
  <2>3. chunks[k] = Written(rows[i], m)
    BY <2>1 DEF chunks
  <2> HIDE DEF lens, k
  <2>4. lens[k] <= Total(lens)
    BY <1>4, <2>1, <2>2, TotalParts
  <2> QED BY <1>2, <1>18, <2>2, <2>3, <2>4 DEF lens
<1> QED BY <1>21, <1>22 DEF N

\* What a row writes of a field that can be read is bytes.
LEMMA WrittenOctets ==
    ASSUME NEW cases, \A c, d \in cases : c.at = d.at => c = d,
           NEW row, NEW m, SoundField(cases, row, m), row.field \in Fields(cases)
    PROVE  Written(row, m) \in Octets
<1> DEFINE blank == New(cases)
<1>1. Blank(blank, cases) /\ blank[row.field] = <<>>
  BY DEF Blank, New
<1> HIDE DEF blank
<1>2. Carries(cases, blank, Written(row, m), With(blank, row.field, m[row.field]))
  BY <1>1, FieldCarries
<1> QED BY <1>2 DEF Carries

\* All that is written of a message, field by field.
LEMMA MessageCounted ==
    ASSUME NEW type \in DOMAIN Unmarshals, NEW m, SoundMessage(type, m)
    PROVE  /\ SizeVT(Sizes[type], m) = Len(Encoded(Marshals[type], m))
           /\ Encoded(Marshals[type], m) \in Octets
           /\ \A i \in 1..Len(Marshals[type]) :
                /\ Written(Marshals[type][i], m) \in Octets
                /\ Len(Written(Marshals[type][i], m)) <= Len(Encoded(Marshals[type], m))
<1> DEFINE rows == Marshals[type]
           sizes == Sizes[type]
           cases == Unmarshals[type]
           N == Len(rows)
<1>1. /\ Rows(rows, cases) /\ Rows(sizes, cases) /\ Len(sizes) = N
      /\ \A c, d \in cases : c.at = d.at => c = d
      /\ \A i, j \in 1..N : rows[i].field = sizes[j].field =>
            FieldFits(rows[i], sizes[j], {c \in cases : c.field = rows[i].field})
  BY TypeFact
<1>2. \A i \in DOMAIN rows : SoundField(cases, rows[i], m)
  BY DEF SoundMessage
<1> HIDE DEF rows, sizes, cases
<1>3. DOMAIN rows = 1..N /\ {rows[i].field : i \in 1..N} = Fields(cases)
  BY <1>1 DEF Rows
<1>4. \A i \in 1..N : Written(rows[i], m) \in Octets
  <2> TAKE i \in 1..N
  <2>1. SoundField(cases, rows[i], m) /\ rows[i].field \in Fields(cases)
    BY <1>2, <1>3
  <2> QED BY <1>1, <2>1, WrittenOctets
<1>5. ASSUME NEW i \in 1..N, NEW j \in 1..N, rows[i].field = sizes[j].field
      PROVE  Counted(sizes[j], m) = Len(Written(rows[i], m))
  <2> DEFINE row == rows[i]
             size == sizes[j]
  <2>1. FieldFits(row, size, {c \in cases : c.field = row.field}) /\ SoundField(cases, row, m)
    BY <1>1, <1>2, <1>3, <1>5
  <2> HIDE DEF row, size
  <2> QED BY <1>5, <2>1, FieldCounted DEF row, size
<1> HIDE DEF N
<1>6. \A i \in 1..Len(rows) : Written(rows[i], m) \in Octets
  BY <1>4 DEF N
<1>7. \A i, j \in 1..Len(rows) : rows[i].field = sizes[j].field => Counted(sizes[j], m) = Len(Written(rows[i], m))
  BY <1>5 DEF N
<1>8. Len(sizes) = Len(rows)
  BY <1>1 DEF N
<1>9. /\ SizeVT(sizes, m) = Len(Encoded(rows, m))
      /\ Encoded(rows, m) \in Octets
      /\ \A i \in 1..Len(rows) : Len(Written(rows[i], m)) <= Len(Encoded(rows, m))
  <2>1. Rows(rows, cases) /\ Rows(sizes, cases)
    BY <1>1
  <2> QED BY ONLY <1>6, <1>7, <1>8, <2>1, RowsCounted, ZenonT(60)
<1> QED BY <1>6, <1>9 DEF rows, sizes

-------------------------------------------------------------------------------
(* What a message holds, by the tables of its type *)

HoldsPlain(row, c, v) ==
    /\ row.field = c.field /\ SameTag(row, c)
    /\ row.kind = c.kind /\ row.type = c.type /\ c.kind \in Plain
    /\ Holds(c, v)
    /\ c.kind \in Lists \cup Options => IsList(v)
    /\ c.kind \in Options => Len(v) <= 1
    /\ c.kind = "MapOf" => EntryFits(row, c)

HoldsField(cases, row, v) ==
    \/ row.kind = "Unknown" /\ row.field = "unknownFields" /\ IsUnknown(cases, v)
    \/ /\ row.kind = "OneOf"
       /\ \A c \in cases : c.field = row.field => c.kind \in {"Arm", "BytesArm"} /\ ArmFits(c)
       /\ v = <<>> \/ \E c \in cases : row.field = c.field /\ HoldsArm(c, v)
    \/ \E c \in cases :
        /\ HoldsPlain(row, c, v)
        /\ \A d \in cases : d.field = row.field => d = c

\* What a oneof can hold,
LEMMA HoldsOneOf ==
    ASSUME NEW cases, NEW m, IsMessage(cases, m), NEW b \in cases, b.kind \in {"Arm", "BytesArm"},
           \A c \in cases : c.field = b.field => c.kind \in {"Arm", "BytesArm"} /\ ArmFits(c)
    PROVE  LET v == m[b.field]
           IN  v = <<>> \/ \E c \in cases : c.field = b.field /\ HoldsArm(c, v)
<1> DEFINE v == m[b.field]
<1>1. IsList(v) /\ Len(v) <= 1
  BY Kinds DEF IsMessage
<1>2. Len(v) \in Nat /\ (Len(v) = 0 => v = <<>>) /\ DOMAIN v = 1..Len(v)
  <2> DEFINE S == {v[i] : i \in DOMAIN v}
  <2>1. v \in Seq(S)
    BY <1>1 DEF IsList
  <2> HIDE DEF S, v
  <2> QED BY <2>1
<1>3. \A i \in DOMAIN v : \E d \in cases : d.field = b.field /\ d.arm = v[i].arm
  BY DEF IsMessage
<1>4. \A c \in cases : c.field = b.field => Holds(c, v)
  BY DEF IsMessage
<1> HIDE DEF v
<1>5. ASSUME Len(v) = 1 PROVE \E c \in cases : c.field = b.field /\ HoldsArm(c, v)
  <2>1. 1 \in DOMAIN v
    BY <1>2, <1>5
  <2>2. PICK d \in cases : d.field = b.field /\ d.arm = v[1].arm
    BY <1>3, <2>1
  <2>3. d.kind \in {"Arm", "BytesArm"} /\ ArmFits(d) /\ Holds(d, v)
    BY <1>4, <2>2
  <2>4. IsArm(d, v[1])
    BY <2>1, <2>2, <2>3 DEF Holds
  <2>5. HoldsArm(d, v)
    BY <1>1, <1>5, <2>2, <2>3, <2>4 DEF HoldsArm
  <2> QED BY <2>2, <2>5
<1>6. v = <<>> \/ Len(v) = 1
  BY <1>1, <1>2
<1> QED BY <1>5, <1>6 DEF v

\* and what any other field can hold.
LEMMA HoldsEach ==
    ASSUME NEW type \in DOMAIN Unmarshals, NEW m, IsMessage(Unmarshals[type], m),
           NEW i \in 1..Len(Marshals[type])
    PROVE  LET row == Marshals[type][i]
           IN  HoldsField(Unmarshals[type], row, m[row.field])
<1> DEFINE rows == Marshals[type]
           sizes == Sizes[type]
           cases == Unmarshals[type]
           row == rows[i]
           its == {c \in cases : c.field = row.field}
<1>1. PICK j \in 1..Len(rows) : sizes[j].field = row.field
  <2>1. Rows(rows, cases) /\ Rows(sizes, cases) /\ Len(sizes) = Len(rows)
    BY TypeFact
  <2> HIDE DEF rows, sizes, cases
  <2>2. row.field \in Fields(cases)
    BY <2>1 DEF Rows, rows
  <2>3. row.field \in {sizes[k].field : k \in 1..Len(sizes)}
    BY <2>1, <2>2 DEF Rows
  <2> QED BY <2>1, <2>3 DEF rows
<1>2. FieldFits(row, sizes[j], its)
  BY <1>1, TypeFact
<1>3. IsMessage(cases, m)
  OBVIOUS
<1> HIDE DEF rows, sizes, cases, row
<1>4. CASE row.kind = "Unknown" /\ row.field = "unknownFields"
  <2>1. IsUnknown(cases, m.unknownFields)
    BY <1>3 DEF IsMessage
  <2> QED BY <1>4, <2>1 DEF HoldsField, row, cases, rows
<1>5. CASE row.kind = "OneOf" /\ its # {} /\ \A c \in its : c.kind \in {"Arm", "BytesArm"} /\ ArmFits(c)
  <2>1. PICK b \in its : TRUE
    BY <1>5
  <2>2. /\ b \in cases /\ b.field = row.field /\ b.kind \in {"Arm", "BytesArm"}
        /\ \A c \in cases : c.field = b.field => c.kind \in {"Arm", "BytesArm"} /\ ArmFits(c)
    BY <1>5, <2>1
  <2>3. m[b.field] = <<>> \/ \E c \in cases : c.field = b.field /\ HoldsArm(c, m[b.field])
    BY <1>3, <2>2, HoldsOneOf
  <2>4. HoldsField(cases, row, m[row.field])
    <3> HIDE DEF its
    <3> QED BY <1>5, <2>2, <2>3 DEF HoldsField
  <2> QED BY <2>4 DEF row, cases, rows
<1>6. ASSUME NEW c \in its, its = {c}, c.kind = row.kind,
             c.kind \in Scalars \cup Lists \cup (Options \ {"Arm", "BytesArm"}),
             RowFits(row, sizes[j], c)
      PROVE  HoldsField(cases, row, m[row.field])
  <2>1. c \in cases /\ c.field = row.field
    OBVIOUS
  <2> HIDE DEF its
  <2>2. SameTag(row, c) /\ row.type = c.type
    BY <1>6 DEF RowFits
  <2>3. /\ Holds(c, m[c.field])
        /\ c.kind \in Lists \cup Options => IsList(m[c.field])
        /\ c.kind \in Options => Len(m[c.field]) <= 1
    BY <1>3, <2>1 DEF IsMessage
  <2>4. c.kind = "MapOf" => EntryFits(row, c)
    BY <1>6 DEF RowFits, EntryFits, EntryTag
  <2>5. c.kind \in Plain
    BY <1>6 DEF Plain
  <2>6. HoldsPlain(row, c, m[row.field])
    BY <1>6, <2>1, <2>2, <2>3, <2>4, <2>5 DEF HoldsPlain
  <2>7. \A d \in cases : d.field = row.field => d = c
    BY <1>6 DEF its
  <2> QED BY <2>1, <2>6, <2>7 DEF HoldsField
<1>7. HoldsField(cases, row, m[row.field])
  <2>1. CASE row.kind = "Unknown" /\ row.field = "unknownFields"
    BY <1>4, <2>1 DEF row, rows, cases
  <2>2. CASE row.kind = "OneOf" /\ its # {} /\ \A c \in its : c.kind \in {"Arm", "BytesArm"} /\ ArmFits(c)
    BY <1>5, <2>2 DEF row, rows, cases
  <2> HIDE DEF its
  <2> QED BY <1>2, <1>6, <2>1, <2>2 DEF FieldFits
<1> QED BY <1>7 DEF row, rows, cases

-------------------------------------------------------------------------------
(* Messages within a message *)

Within(c, v) == Inner(c, v) \cup (IF c.kind = "Arm" THEN Arms(c, v) ELSE {})

\* What a message calls is done by the same methods, and what has a length has one.
Calls(type, m) ==
    /\ \A c \in Unmarshals[type] : c.kind \in {"Arm", "BytesArm"} =>
            \A i \in DOMAIN m[c.field] :
                LET a == m[c.field][i]
                IN  SameMethods(Marshals[a.arm], Sizes[a.arm], a.wrapper)
    /\ \A k \in 1..Len(Marshals[type]) : Marshals[type][k].kind = "MapOf" =>
            \A i \in DOMAIN m[Marshals[type][k].field] :
                Text(EntryBytes(Marshals[type][k], m[Marshals[type][k].field][i]))

\* A message whose inner messages return can itself be written and read.
LEMMA MessageSound ==
    ASSUME NEW type \in DOMAIN Unmarshals, NEW m, IsMessage(Unmarshals[type], m), Calls(type, m),
           \A c \in Unmarshals[type] : \A e \in Within(c, m[c.field]) : Returns(c.type, e)
    PROVE  SoundMessage(type, m)
<1> DEFINE rows == Marshals[type]
           cases == Unmarshals[type]
<1>1. DOMAIN rows = 1..Len(rows)
  BY TypeFact DEF Rows
<1>2. ASSUME NEW i \in 1..Len(rows) PROVE SoundField(cases, rows[i], m)
  <2> DEFINE row == rows[i]
             v == m[row.field]
  <2>1. HoldsField(cases, row, v)
    BY HoldsEach
  <2>2. \A c \in cases : \A e \in Within(c, m[c.field]) : Returns(c.type, e)
    OBVIOUS
  <2>3. \A c \in cases : c.kind \in {"Arm", "BytesArm"} =>
            \A k \in DOMAIN m[c.field] :
                SameMethods(Marshals[m[c.field][k].arm], Sizes[m[c.field][k].arm], m[c.field][k].wrapper)
    BY DEF Calls
  <2>4. row.kind = "MapOf" => \A k \in DOMAIN v : Text(EntryBytes(row, v[k]))
    BY DEF Calls
  <2> HIDE DEF rows, cases, row
  <2>5. CASE row.kind = "Unknown" /\ row.field = "unknownFields" /\ IsUnknown(cases, v)
    BY <2>5 DEF SoundField, row
  <2>6. CASE row.kind = "OneOf" /\ v = <<>>
    BY <2>6 DEF SoundField, row
  <2>7. ASSUME row.kind = "OneOf", NEW c \in cases, row.field = c.field, HoldsArm(c, v)
        PROVE  SoundField(cases, row, m)
    <3>1. c.kind \in {"Arm", "BytesArm"} /\ Len(v) = 1 /\ v[1].arm = c.arm /\ IsList(v) /\ m[c.field] = v
      BY <2>7 DEF HoldsArm
    <3>2. 1 \in DOMAIN v
      BY <3>1 DEF IsList
    <3> HIDE DEF v
    <3>3. SameMethods(Marshals[c.arm], Sizes[c.arm], v[1].wrapper)
      BY <2>3, <3>1, <3>2
    <3>4. c.kind = "Arm" => Returns(c.type, v[1].wrapper[c.inner][1])
      <4> HAVE c.kind = "Arm"
      <4>1. v[1].wrapper[c.inner][1] \in Within(c, v)
        BY <3>1, <3>2 DEF Within, Arms
      <4> QED BY <2>2, <3>1, <4>1
    <3>5. SoundArm(c, v)
      BY <2>7, <3>3, <3>4 DEF SoundArm
    <3> QED BY <2>7, <3>1, <3>5 DEF SoundField
  <2>8. ASSUME NEW c \in cases, HoldsPlain(row, c, v)
        PROVE  SoundField(cases, row, m)
    <3>1. /\ row.field = c.field /\ SameTag(row, c)
          /\ row.kind = c.kind /\ row.type = c.type /\ c.kind \in Plain
          /\ Holds(c, v)
          /\ c.kind \in Lists \cup Options => IsList(v)
          /\ c.kind \in Options => Len(v) <= 1
          /\ c.kind = "MapOf" => EntryFits(row, c)
      BY <2>8 DEF HoldsPlain
    <3>2. \A e \in Inner(c, v) : Returns(c.type, e)
      BY <2>2, <3>1 DEF Within
    <3> HIDE DEF v
    <3>3. Sound(row, c, v)
      BY <2>4, <3>1, <3>2 DEF Sound
    <3> QED BY <3>1, <3>3 DEF SoundField, v
  <2>9. SoundField(cases, row, m)
    <3> HIDE DEF v
    <3>1. \/ row.kind = "Unknown" /\ row.field = "unknownFields" /\ IsUnknown(cases, v)
          \/ row.kind = "OneOf" /\ v = <<>>
          \/ row.kind = "OneOf" /\ \E c \in cases : row.field = c.field /\ HoldsArm(c, v)
          \/ \E c \in cases : HoldsPlain(row, c, v)
      BY <2>1 DEF HoldsField
    <3> QED BY <2>5, <2>6, <2>7, <2>8, <3>1 DEF row
  <2> QED BY <2>9 DEF row
<1>3. m = [f \in Fields(cases) |-> m[f]]
  BY DEF IsMessage
<1> QED BY <1>1, <1>2, <1>3 DEF SoundMessage

-------------------------------------------------------------------------------
(* A message is longer than those within it *)

\* The messages within a field have encodings.
Encodes(row, c, v) ==
    /\ \A e \in Within(c, v) : Text(NestedEncoded(Marshals[c.type], e))
    /\ row.kind = "MapOf" => \A i \in DOMAIN v : Text(EntryBytes(row, v[i]))

\* What stands for an element has a length.
LEMMA RawIsValue ==
    ASSUME NEW row, NEW c, NEW m, HoldsPlain(row, c, m[row.field]), Encodes(row, c, m[row.field])
    PROVE  LET es == Elements(row, m)
           IN  Len(es) \in Nat /\ \A k \in 1..Len(es) : IsValue(c, Raw(row, es[k]))
<1> DEFINE v == m[row.field]
           es == Elements(row, m)
<1>1. /\ row.kind = c.kind /\ row.type = c.type /\ c.kind \in Plain /\ Holds(c, v)
      /\ c.kind \in Lists \cup Options => IsList(v)
  BY DEF HoldsPlain
<1>2. CASE c.kind \in Scalars
  <2>1. v # <<>> => IsValue(c, v)
    <3> HAVE v # <<>>
    <3> HIDE DEF v
    <3>1. Reads(row, c, v, v, v)
      BY <1>1, <1>2, ReadsScalar
    <3>2. Raw(row, v) = v
      BY <1>1, <1>2, Kinds DEF Raw
    <3> QED BY <3>1, <3>2 DEF Reads
  <2>2. Raw(row, v) = v
    BY <1>1, <1>2, Kinds DEF Raw
  <2>3. es = IF v # <<>> THEN <<v>> ELSE v
    BY <1>1, <1>2, Kinds DEF Elements
  <2> HIDE DEF v, es
  <2>4. v = <<>> => Len(es) = 0
    BY <2>3
  <2>5. v # <<>> => Len(es) = 1 /\ es[1] = v
    BY <2>3
  <2>6. Len(es) \in Nat /\ \A k \in 1..Len(es) : IsValue(c, Raw(row, es[k]))
    <3>1. CASE v = <<>>
      BY <2>4, <3>1
    <3>2. CASE v # <<>>
      <4>1. \A k \in 1..Len(es) : es[k] = v
        BY <2>5, <3>2
      <4> QED BY <2>1, <2>2, <2>5, <3>2, <4>1
    <3> QED BY <3>1, <3>2
  <2> QED BY <2>6 DEF es
<1>3. CASE c.kind \notin Scalars
  <2>1. es = v /\ IsList(v)
    BY <1>1, <1>3, Kinds DEF Elements
  <2>2. Len(v) \in Nat /\ DOMAIN v = 1..Len(v)
    <3> DEFINE S == {v[i] : i \in DOMAIN v}
    <3>1. v \in Seq(S)
      BY <2>1 DEF IsList
    <3> HIDE DEF S, v
    <3> QED BY <3>1
  <2>3. Encodes(row, c, v)
    OBVIOUS
  <2> HIDE DEF v, es
  <2>4. ASSUME NEW k \in 1..Len(v) PROVE IsValue(c, Raw(row, v[k]))
    <3>1. k \in DOMAIN v
      BY <2>2
    <3>2. CASE c.kind \in {"OptBytes", "Opaque", "Texts"}
      BY <1>1, <3>1, <3>2 DEF Holds, IsValue, IsNumber, Raw
    <3>3. CASE c.kind = "OptNum"
      BY <1>1, <3>1, <3>3 DEF Holds, IsValue, IsNumber, Raw
    <3>4. CASE c.kind \in {"Msg", "Msgs"}
      <4>1. v[k] \in Within(c, v)
        BY <3>1, <3>4 DEF Within, Inner
      <4>2. Text(NestedEncoded(Marshals[c.type], v[k]))
        BY <2>3, <4>1 DEF Encodes
      <4> QED BY <1>1, <3>4, <4>2 DEF IsValue, IsNumber, Raw
    <3>5. CASE c.kind = "MapOf"
      <4>1. Text(EntryBytes(row, v[k]))
        BY <1>1, <2>3, <3>1, <3>5 DEF Encodes
      <4> QED BY <1>1, <3>5, <4>1 DEF IsValue, IsNumber, Raw
    <3> QED BY <1>1, <1>3, <3>2, <3>3, <3>4, <3>5, Kinds
  <2> QED BY <2>1, <2>2, <2>4 DEF es
<1> QED BY <1>2, <1>3

\* A row writes bytes, more than each of the messages that they stand for.
Writes(row, c, m) ==
    /\ Written(row, m) \in Octets
    /\ \A e \in Within(c, m[row.field]) :
            Len(NestedEncoded(Marshals[c.type], e)) < Len(Written(row, m))

\* A tag and a length make it longer.
LEMMA TaggedLonger ==
    ASSUME NEW row, NEW c, SameTag(row, c), NEW x, IsValue(c, x)
    PROVE  LET f == Tagged(row, Payload(c, x))
           IN  f \in Octets /\ (~ IsNumber(c) => Len(x) \in Nat /\ Len(x) < Len(f))
<1> DEFINE e == EncodeVarint(Groups(TagOf(c)))
           p == Payload(c, x)
           f == Tagged(row, p)
<1>1. /\ e \in Octets /\ Len(e) \in Nat /\ Len(e) > 0 /\ f \in Octets /\ Len(f) = Len(e) + Len(p)
  <2>1. <<>> \in Octets
    BY DEF Octets
  <2> QED BY <2>1, FieldParts
<1>2. ~ IsNumber(c) => Len(x) \in Nat /\ Len(p) \in Nat /\ Len(x) < Len(p)
  BY PrefixedSize DEF Payload, IsValue
<1> HIDE DEF e, p, f
<1> QED BY <1>1, <1>2 DEF f, p

\* A field is longer than each message in it,
LEMMA PlainWrites ==
    ASSUME NEW row, NEW c, NEW m, HoldsPlain(row, c, m[row.field]), Encodes(row, c, m[row.field])
    PROVE  Writes(row, c, m)
<1> DEFINE v == m[row.field]
           es == Elements(row, m)
           n == Len(es)
           chunks == Chunks(row, m)
<1>1. /\ row.kind = c.kind /\ row.type = c.type /\ c.kind \in Plain /\ Holds(c, v) /\ SameTag(row, c)
      /\ c.kind \in Lists \cup Options => IsList(v)
      /\ c.kind = "MapOf" => EntryFits(row, c)
  BY DEF HoldsPlain
<1>2. n \in Nat /\ \A k \in 1..n : IsValue(c, Raw(row, es[k]))
  BY RawIsValue
<1>3. chunks = [k \in 1..n |-> Tagged(row, Payload(row, Raw(row, es[k])))]
  BY DEF Chunks
<1>4. \A x : Payload(row, x) = Payload(c, x)
  BY <1>1 DEF Payload, IsNumber
<1>5. Written(row, m) = FlattenSeq(chunks)
  BY <1>1, PlainWritten
<1>6. Encodes(row, c, v)
  OBVIOUS
<1>v. c.kind \notin Scalars => es = v
  BY <1>1, Kinds DEF Elements
<1> HIDE DEF v, es, n, chunks
<1>7. ASSUME NEW k \in 1..n
      PROVE  /\ chunks[k] \in Octets
             /\ ~ IsNumber(c) => Len(Raw(row, es[k])) \in Nat /\ Len(Raw(row, es[k])) < Len(chunks[k])
  <2> DEFINE x == Raw(row, es[k])
  <2>1. IsValue(c, x) /\ chunks[k] = Tagged(row, Payload(c, x))
    BY <1>2, <1>3, <1>4
  <2> HIDE DEF x
  <2>2. chunks[k] \in Octets /\ (~ IsNumber(c) => Len(x) \in Nat /\ Len(x) < Len(chunks[k]))
    BY <1>1, <2>1, TaggedLonger
  <2> QED BY <2>2 DEF x
<1>8. chunks \in [1..n -> Octets]
  <2>1. chunks = [k \in 1..n |-> chunks[k]]
    BY <1>3
  <2> QED BY <1>7, <2>1
<1> DEFINE lens == [k \in 1..n |-> Len(chunks[k])]
<1>9. FlattenSeq(chunks) \in Octets /\ Len(FlattenSeq(chunks)) = Total(lens)
  BY <1>2, <1>8, TotalFlatten
<1>10. lens \in [1..n -> Nat]
  BY <1>8 DEF Octets
<1>11. ASSUME NEW k \in 1..n PROVE Len(chunks[k]) <= Len(Written(row, m)) /\ Len(chunks[k]) \in Nat
  <2>1. lens[k] = Len(chunks[k]) /\ lens[k] \in Nat
    BY <1>10
  <2> HIDE DEF lens
  <2>2. lens[k] <= Total(lens)
    BY <1>2, <1>10, TotalParts
  <2> QED BY <1>5, <1>9, <2>1, <2>2
<1> HIDE DEF lens
<1>12. Len(Written(row, m)) \in Nat
  BY <1>5, <1>9 DEF Octets
<1>13. ASSUME NEW k \in 1..n, ~ IsNumber(c)
       PROVE  Len(Raw(row, es[k])) \in Nat /\ Len(Raw(row, es[k])) < Len(Written(row, m))
  BY <1>7, <1>11, <1>12, <1>13
<1>14. ASSUME NEW e \in Within(c, v)
       PROVE  Len(NestedEncoded(Marshals[c.type], e)) < Len(Written(row, m))
  <2>1. e \in Inner(c, v)
    BY <1>1, Kinds DEF Within
  <2>2. c.kind \in {"Msg", "Msgs", "MapOf"}
    BY <2>1 DEF Inner
  <2>3. c.kind \notin Scalars /\ IsList(v) /\ ~ IsNumber(c)
    BY <1>1, <2>2, Kinds DEF IsNumber
  <2>4. es = v /\ DOMAIN v = 1..Len(v)
    <3> DEFINE S == {v[i] : i \in DOMAIN v}
    <3>1. v \in Seq(S)
      BY <2>3 DEF IsList
    <3> HIDE DEF S
    <3> QED BY <1>v, <2>3, <3>1
  <2>5. CASE c.kind \in {"Msg", "Msgs"}
    <3>1. PICK k \in DOMAIN v : e = v[k]
      BY <2>1, <2>5 DEF Inner
    <3>2. k \in 1..n
      BY <2>4 DEF n
    <3>3. Raw(row, es[k]) = NestedEncoded(Marshals[c.type], e)
      BY <1>1, <2>4, <2>5, <3>1 DEF Raw
    <3> QED BY <1>13, <2>3, <3>2, <3>3
  <2>6. CASE c.kind = "MapOf"
    <3>1. PICK k \in DOMAIN v : e = v[k].value[1]
      BY <2>1, <2>6 DEF Inner
    <3>2. k \in 1..n
      BY <2>4 DEF n
    <3> DEFINE w == v[k]
               b == NestedEncoded(Marshals[c.type], e)
    <3>3. Raw(row, es[k]) = EntryBytes(row, w)
      BY <1>1, <2>4, <2>6 DEF Raw
    <3>4. Text(w.key) /\ IsList(w.value) /\ Len(w.value) = 1
      BY <1>1, <2>6 DEF Holds, IsEntry
    <3>5. Text(b)
      BY <1>6 DEF Encodes
    <3>6. row.keyAt \in Byte /\ row.valueAt \in Byte
      BY <1>1, <2>6, EntryBytesFit
    <3> HIDE DEF w
    <3>7. Len(b) < Len(EntryBytes(row, w)) /\ Len(b) \in Nat
      <4>1. e = w.value[1]
        BY <3>1 DEF w
      <4>2. Text(NestedEncoded(Marshals[row.type], w.value[1]))
        BY <1>1, <3>5, <4>1
      <4>3. Len(NestedEncoded(Marshals[row.type], w.value[1])) < Len(EntryBytes(row, w))
        BY <3>4, <3>6, <4>2, EntryLength
      <4> QED BY <1>1, <3>5, <4>1, <4>3 DEF Text, Octets
    <3>8. Len(EntryBytes(row, w)) < Len(Written(row, m)) /\ Len(EntryBytes(row, w)) \in Nat
      BY <1>13, <2>3, <3>2, <3>3
    <3> QED BY <1>12, <3>7, <3>8
  <2> QED BY <2>2, <2>5, <2>6
<1> QED BY <1>5, <1>9, <1>14 DEF Writes, v

\* and so is a oneof.
LEMMA ArmWrites ==
    ASSUME NEW row, row.kind = "OneOf", NEW c, row.field = c.field, NEW m, HoldsArm(c, m[c.field]),
           NestedEncoded(Marshals[c.arm], m[c.field][1].wrapper) =
                Encoded(Marshals[c.arm], m[c.field][1].wrapper),
           Encodes(row, c, m[c.field])
    PROVE  Writes(row, c, m)
<1> DEFINE v == m[c.field]
           a == v[1]
           w == a.wrapper[c.inner]
           x == ArmRaw(c, w)
           it == Marshals[c.arm][1]
           f == Tagged(it, Payload(c, x))
<1>1. c.kind \in {"Arm", "BytesArm"} /\ IsList(v) /\ Len(v) = 1 /\ v[1].arm = c.arm
  BY DEF HoldsArm
<1>2. DOMAIN v = 1..Len(v)
  <2> DEFINE S == {v[i] : i \in DOMAIN v}
  <2>1. v \in Seq(S)
    BY <1>1 DEF IsList
  <2> HIDE DEF S, v
  <2> QED BY <2>1
<1>3. c.kind = "Arm" => Arms(c, v) = {w[1]}
  <2>1. DOMAIN v = {1}
    BY <1>1, <1>2
  <2>2. {j \in DOMAIN v : v[j].arm = c.arm} = {1}
    BY <1>1, <2>1
  <2> HIDE DEF v
  <2> QED BY <2>2 DEF Arms
<1>4. c.kind = "Arm" => Text(NestedEncoded(Marshals[c.type], w[1]))
  <2> HAVE c.kind = "Arm"
  <2>1. w[1] \in Within(c, v)
    <3> HIDE DEF w
    <3> QED BY <1>3 DEF Within
  <2> HIDE DEF w
  <2> QED BY <2>1 DEF Encodes
<1>5. SameTag(it, c) /\ IsValue(c, x) /\ f \in Octets /\ Written(row, m) = f
  BY <1>4, ArmChunk
<1>6. ~ IsNumber(c)
  BY <1>1 DEF IsNumber
<1> HIDE DEF x, it
<1>7. Len(x) < Len(f)
  BY <1>5, <1>6, TaggedLonger
<1>8. ASSUME NEW e \in Within(c, v)
      PROVE  Len(NestedEncoded(Marshals[c.type], e)) < Len(f)
  <2>1. Inner(c, v) = {}
    BY <1>1 DEF Inner
  <2>2. c.kind = "Arm" /\ e \in Arms(c, v)
    BY <2>1 DEF Within
  <2>3. e = w[1]
    <3> HIDE DEF w
    <3> QED BY <1>3, <2>2
  <2>4. x = NestedEncoded(Marshals[c.type], w[1])
    BY <2>2 DEF x, ArmRaw
  <2> HIDE DEF f, w
  <2> QED BY <1>7, <2>3, <2>4
<1> HIDE DEF f, w
<1> QED BY <1>5, <1>8 DEF Writes, v

-------------------------------------------------------------------------------
(* Every message *)

\* A field without elements holds no messages.
LEMMA NoneWithin ==
    ASSUME NEW c
    PROVE  Within(c, <<>>) = {}
BY DEF Within, Inner, Arms

\* A list has its elements at 1..n.
LEMMA ListDomain ==
    ASSUME NEW v, IsList(v)
    PROVE  Len(v) \in Nat /\ DOMAIN v = 1..Len(v)
<1> DEFINE S == {v[i] : i \in DOMAIN v}
<1>1. v \in Seq(S)
  BY DEF IsList
<1> HIDE DEF S
<1> QED BY <1>1

\* What is within a message has an encoding.
Encoding(type, m) ==
    \A c \in Unmarshals[type] : \A e \in Within(c, m[c.field]) : Text(NestedEncoded(Marshals[c.type], e))

\* A field of a message writes what its inner messages stand for.
LEMMA FieldWrites ==
    ASSUME NEW type \in DOMAIN Unmarshals, NEW m, IsMessage(Unmarshals[type], m), Calls(type, m),
           Encoding(type, m), NEW i \in 1..Len(Marshals[type])
    PROVE  LET row == Marshals[type][i]
           IN  /\ Written(row, m) \in Octets
               /\ \A c \in Unmarshals[type] : c.field = row.field => Writes(row, c, m)
<1> DEFINE rows == Marshals[type]
           cases == Unmarshals[type]
           row == rows[i]
           v == m[row.field]
<1>1. HoldsField(cases, row, v)
  BY HoldsEach
<1>2. ASSUME NEW c \in cases, c.field = row.field PROVE Encodes(row, c, v)
  <2>1. \A e \in Within(c, v) : Text(NestedEncoded(Marshals[c.type], e))
    BY <1>2 DEF Encoding
  <2>2. row.kind = "MapOf" => \A k \in DOMAIN v : Text(EntryBytes(row, v[k]))
    BY DEF Calls
  <2> HIDE DEF row, v
  <2> QED BY <2>1, <2>2 DEF Encodes
<1>3. \A c \in cases : c.kind \in {"Arm", "BytesArm"} =>
          \A k \in DOMAIN m[c.field] :
              SameMethods(Marshals[m[c.field][k].arm], Sizes[m[c.field][k].arm], m[c.field][k].wrapper)
  BY DEF Calls
<1>4. IsMessage(cases, m) /\ \A c \in cases : c.field # "unknownFields"
  BY TypeFact
<1> SUFFICES /\ Written(row, m) \in Octets
             /\ \A c \in cases : c.field = row.field => Writes(row, c, m)
  OBVIOUS
<1> DEFINE Goal == /\ Written(row, m) \in Octets
                   /\ \A c \in cases : c.field = row.field => Writes(row, c, m)
<1> SUFFICES Goal
  OBVIOUS
<1> HIDE DEF rows, cases, row
<1>5. ASSUME row.kind = "Unknown", row.field = "unknownFields", IsUnknown(cases, v) PROVE Goal
  <2>1. Written(row, m) = v
    BY <1>5 DEF Written
  <2>2. v \in Octets
    BY <1>5 DEF IsUnknown
  <2> HIDE DEF v
  <2> QED BY <1>4, <1>5, <2>1, <2>2
<1>6. ASSUME row.kind = "OneOf", v = <<>> PROVE Goal
  <2> DEFINE all == [k \in 1..Len(m[row.field]) |->
                      NestedEncoded(Marshals[m[row.field][k].arm], m[row.field][k].wrapper)]
  <2>1. Written(row, m) = FlattenSeq(all)
    BY <1>6 DEF Written
  <2>2. all = <<>>
    BY <1>6
  <2> HIDE DEF all
  <2>3. Written(row, m) \in Octets
    BY <2>1, <2>2 DEF FlattenSeq, Octets
  <2>4. \A c : Within(c, m[row.field]) = {}
    BY <1>6, NoneWithin
  <2> HIDE DEF v
  <2> QED BY <2>3, <2>4 DEF Writes
<1>7. ASSUME row.kind = "OneOf", NEW c \in cases, row.field = c.field, HoldsArm(c, v)
      PROVE  Writes(row, c, m)
  <2>1. c.kind \in {"Arm", "BytesArm"} /\ IsList(v) /\ Len(v) = 1 /\ v[1].arm = c.arm /\ m[c.field] = v
    BY <1>7 DEF HoldsArm
  <2>2. 1 \in DOMAIN v
    BY <2>1 DEF IsList
  <2>3. Encodes(row, c, v)
    BY <1>2, <1>7
  <2> HIDE DEF v
  <2>4. NestedEncoded(Marshals[c.arm], v[1].wrapper) = Encoded(Marshals[c.arm], v[1].wrapper)
    BY <1>3, <2>1, <2>2 DEF SameMethods
  <2> QED BY <1>7, <2>1, <2>3, <2>4, ArmWrites
<1>8. ASSUME row.kind = "OneOf", NEW d \in cases, row.field = d.field, HoldsArm(d, v),
             \A c \in cases : c.field = row.field => c.kind \in {"Arm", "BytesArm"} /\ ArmFits(c)
      PROVE  Goal
  <2>1. Writes(row, d, m)
    BY <1>7, <1>8
  <2>2. Written(row, m) \in Octets
    BY <2>1 DEF Writes
  <2>3. IsList(v) /\ Len(v) = 1 /\ DOMAIN v = 1..Len(v)
    <3>1. IsList(v) /\ Len(v) = 1
      BY <1>8 DEF HoldsArm
    <3> HIDE DEF v
    <3> QED BY <3>1, ListDomain
  <2>4. ASSUME NEW c \in cases, c.field = row.field PROVE Writes(row, c, m)
    <3>1. c.kind \in {"Arm", "BytesArm"} /\ ArmFits(c)
      BY <1>8, <2>4
    <3>2. Holds(c, v)
      BY <1>4, <2>4 DEF IsMessage
    <3>3. CASE v[1].arm = c.arm
      <4>1. IsArm(c, v[1])
        <5>1. 1 \in DOMAIN v
          BY <2>3
        <5> HIDE DEF v
        <5> QED BY <3>1, <3>2, <3>3, <5>1 DEF Holds
      <4>2. HoldsArm(c, v)
        <5> HIDE DEF v
        <5> QED BY <2>3, <3>1, <3>3, <4>1 DEF HoldsArm
      <4> QED BY <1>7, <1>8, <2>4, <4>2
    <3>4. CASE v[1].arm # c.arm
      <4>1. Arms(c, v) = {}
        <5>1. \A j \in DOMAIN v : v[j].arm # c.arm
          <6>1. \A j \in DOMAIN v : j = 1
            BY <2>3
          <6> HIDE DEF v
          <6> QED BY <3>4, <6>1
        <5> HIDE DEF v
        <5> QED BY <5>1 DEF Arms
      <4>2. Inner(c, v) = {}
        BY <3>1 DEF Inner
      <4>3. Within(c, m[row.field]) = {}
        <5>1. Within(c, v) = {}
          <6> HIDE DEF v
          <6> QED BY <4>1, <4>2 DEF Within
        <5> QED BY <5>1
      <4> QED BY <2>2, <4>3 DEF Writes
    <3> QED BY <3>3, <3>4
  <2> QED BY <2>2, <2>4
<1>9. ASSUME NEW d \in cases, HoldsPlain(row, d, v), \A c \in cases : c.field = row.field => c = d
      PROVE  Goal
  <2>1. row.field = d.field
    BY <1>9 DEF HoldsPlain
  <2>2. Encodes(row, d, v)
    BY <1>2, <2>1
  <2>3. Writes(row, d, m)
    BY <1>9, <2>2, PlainWrites
  <2>4. Written(row, m) \in Octets
    BY <2>3 DEF Writes
  <2> QED BY <1>9, <2>3, <2>4
<1> HIDE DEF Goal, v
<1> QED BY <1>1, <1>5, <1>6, <1>8, <1>9 DEF HoldsField

\* The encodings of the messages within a message are shorter.
LEMMA WithinShorter ==
    ASSUME NEW type \in DOMAIN Unmarshals, NEW m, IsMessage(Unmarshals[type], m), Calls(type, m),
           Encoding(type, m)
    PROVE  \A c \in Unmarshals[type] : \A e \in Within(c, m[c.field]) :
              /\ Len(NestedEncoded(Marshals[c.type], e)) \in Nat
              /\ Len(NestedEncoded(Marshals[c.type], e)) < Len(Encoded(Marshals[type], m))
<1> DEFINE rows == Marshals[type]
           cases == Unmarshals[type]
           N == Len(rows)
           chunks == [k \in 1..N |-> Written(rows[N + 1 - k], m)]
           lens == [k \in 1..N |-> Len(chunks[k])]
<1>1. Rows(rows, cases)
  BY TypeFact
<1>2. Encoded(rows, m) = FlattenSeq(chunks)
  BY DEF Encoded
<1>3. \A i \in 1..N : /\ Written(rows[i], m) \in Octets
                      /\ \A c \in cases : c.field = rows[i].field => Writes(rows[i], c, m)
  BY FieldWrites
<1>4. \A c \in cases : \A e \in Within(c, m[c.field]) : Text(NestedEncoded(Marshals[c.type], e))
  BY DEF Encoding
<1> SUFFICES ASSUME NEW c \in cases, NEW e \in Within(c, m[c.field])
             PROVE  /\ Len(NestedEncoded(Marshals[c.type], e)) \in Nat
                    /\ Len(NestedEncoded(Marshals[c.type], e)) < Len(Encoded(rows, m))
  OBVIOUS
<1> HIDE DEF rows, cases
<1>5. N \in Nat /\ {rows[i].field : i \in 1..N} = Fields(cases)
  BY <1>1 DEF Rows
<1>6. PICK i \in 1..N : rows[i].field = c.field
  <2>1. c.field \in Fields(cases)
    BY DEF Fields
  <2> HIDE DEF N
  <2>2. c.field \in {rows[i].field : i \in 1..N}
    BY <1>5, <2>1
  <2> QED BY <2>2
<1> HIDE DEF N
<1>7. Len(NestedEncoded(Marshals[c.type], e)) < Len(Written(rows[i], m))
  <2>1. Writes(rows[i], c, m)
    BY <1>3, <1>6
  <2>2. e \in Within(c, m[rows[i].field])
    BY <1>6
  <2> QED BY <2>1, <2>2 DEF Writes
<1>8. \A k \in 1..N : N + 1 - k \in 1..N
  BY <1>5
<1>9. chunks \in [1..N -> Octets]
  BY <1>3, <1>8
<1>10. lens \in [1..N -> Nat]
  BY <1>9 DEF Octets
<1>11. FlattenSeq(chunks) \in Octets /\ Len(FlattenSeq(chunks)) = Total(lens)
  <2> HIDE DEF chunks
  <2> QED BY <1>5, <1>9, TotalFlatten
<1> DEFINE k == N + 1 - i
<1>12. k \in 1..N /\ chunks[k] = Written(rows[i], m)
  <2>1. k \in 1..N /\ N + 1 - k = i
    BY <1>5
  <2> HIDE DEF k
  <2> QED BY <2>1
<1> HIDE DEF k, chunks
<1>13. lens[k] = Len(Written(rows[i], m)) /\ lens[k] \in Nat
  BY <1>10, <1>12
<1> HIDE DEF lens
<1>14. lens[k] <= Total(lens) /\ Total(lens) \in Nat
  BY <1>5, <1>10, <1>12, TotalParts
<1>15. Len(NestedEncoded(Marshals[c.type], e)) \in Nat
  BY <1>4 DEF Text, Octets
<1> QED BY <1>2, <1>7, <1>11, <1>13, <1>14, <1>15

\* The messages within a message are messages.
LEMMA NestedWithin ==
    ASSUME NEW cases, NEW m, IsMessage(cases, m), NEW c \in cases, NEW e \in Within(c, m[c.field])
    PROVE  Nested(c.type, e)
<1> DEFINE v == m[c.field]
<1>1. Holds(c, v)
  BY DEF IsMessage
<1>2. e \in Within(c, v)
  OBVIOUS
<1> HIDE DEF v
<1>3. c.kind \in {"Msg", "Msgs", "MapOf", "Arm"}
  BY <1>2 DEF Within, Inner
<1>4. CASE c.kind \in {"Msg", "Msgs"}
  <2>1. PICK i \in DOMAIN v : e = v[i]
    BY <1>2, <1>4 DEF Within, Inner
  <2> QED BY <1>1, <1>4, <2>1 DEF Holds
<1>5. CASE c.kind = "MapOf"
  <2>1. PICK i \in DOMAIN v : e = v[i].value[1]
    BY <1>2, <1>5 DEF Within, Inner
  <2>2. IsEntry(c, v[i])
    BY <1>1, <1>5 DEF Holds
  <2> QED BY <2>1, <2>2 DEF IsEntry
<1>6. CASE c.kind = "Arm"
  <2>1. PICK i \in DOMAIN v : v[i].arm = c.arm /\ e = v[i].wrapper[c.inner][1]
    BY <1>2, <1>6 DEF Within, Inner, Arms
  <2>2. IsArm(c, v[i])
    BY <1>1, <1>6, <2>1 DEF Holds
  <2> QED BY <1>6, <2>1, <2>2 DEF IsArm
<1> QED BY <1>3, <1>4, <1>5, <1>6

-------------------------------------------------------------------------------
\* What is assumed of a message.
Known(type, m) ==
    /\ type \in DOMAIN Unmarshals
    /\ IsMessage(Unmarshals[type], m) /\ Calls(type, m)
    /\ Text(Encoded(Marshals[type], m))
    /\ SameMethods(Marshals[type], Sizes[type], m)
    /\ NestedFill(Unmarshals[type], New(Unmarshals[type]), Encoded(Marshals[type], m)) =
            Fill(Unmarshals[type], New(Unmarshals[type]), Encoded(Marshals[type], m))

\* Every message of the model is such a message,
LEMMA MessageKnown ==
    ASSUME NEW type, NEW m, [type |-> type, value |-> m] \in Messages
    PROVE  Known(type, m)
<1> DEFINE g == [type |-> type, value |-> m]
<1>1. g.type = type /\ g.value = m
  OBVIOUS
<1>2. g \in Messages
  OBVIOUS
<1> HIDE DEF g
<1>3. /\ type \in DOMAIN Unmarshals /\ IsMessage(Unmarshals[type], m) /\ Short(Marshals[type], m)
  BY <1>1, <1>2, MessageAssumption
<1>4. /\ SameMethods(Marshals[type], Sizes[type], m)
      /\ NestedFill(Unmarshals[type], New(Unmarshals[type]), Encoded(Marshals[type], m)) =
            Fill(Unmarshals[type], New(Unmarshals[type]), Encoded(Marshals[type], m))
      /\ \A c \in Unmarshals[type] : c.kind \in {"Arm", "BytesArm"} =>
            \A i \in DOMAIN m[c.field] :
                LET a == m[c.field][i]
                IN  SameMethods(Marshals[a.arm], Sizes[a.arm], a.wrapper)
  BY <1>1, <1>2, NestedAssumption
<1>5. DOMAIN Marshals[type] = 1..Len(Marshals[type])
  BY <1>3, TypeFact DEF Rows
<1>6. Calls(type, m)
  BY <1>3, <1>4, <1>5 DEF Calls, Short
<1> QED BY <1>3, <1>4, <1>6 DEF Known, Short

\* and so are those within it.
LEMMA KnownWithin ==
    ASSUME NEW type, NEW m, Known(type, m), NEW c \in Unmarshals[type], NEW e \in Within(c, m[c.field])
    PROVE  /\ [type |-> c.type, value |-> e] \in Messages
           /\ Known(c.type, e)
           /\ NestedEncoded(Marshals[c.type], e) = Encoded(Marshals[c.type], e)
<1>1. Nested(c.type, e)
  BY NestedWithin DEF Known
<1>2. [type |-> c.type, value |-> e] \in Messages
  BY <1>1 DEF Nested
<1>3. Known(c.type, e)
  BY <1>2, MessageKnown
<1> QED BY <1>2, <1>3 DEF Known, SameMethods

\* A message that can be written and read comes out of its encoding again.
LEMMA SoundReturns ==
    ASSUME NEW type, NEW m, Known(type, m), SoundMessage(type, m)
    PROVE  Returns(type, m)
<1> DEFINE cases == Unmarshals[type]
           b == Encoded(Marshals[type], m)
<1>1. /\ type \in DOMAIN Unmarshals /\ Text(b) /\ NestedEncoded(Marshals[type], m) = b
      /\ NestedSizeVT(Sizes[type], m) = SizeVT(Sizes[type], m)
      /\ NestedFill(cases, New(cases), b) = Fill(cases, New(cases), b)
  BY DEF Known, SameMethods
<1>2. SizeVT(Sizes[type], m) = Len(b)
  BY <1>1, MessageCounted
<1>3. Carries(cases, New(cases), b, m)
  BY <1>1, MessageCarries, TypeFact
<1> HIDE DEF b
<1>4. Fill(cases, New(cases), b \o <<>>) = Fill(cases, m, <<>>) /\ b \in Octets
  <2>1. <<>> \in Octets
    BY DEF Octets
  <2> QED BY <1>3, <2>1 DEF Carries
<1>5. Fill(cases, New(cases), b) = <<m>>
  BY <1>4, EmptyTail, FillEnd
<1> QED BY <1>1, <1>2, <1>5 DEF Returns

\* By induction on the length of the encoding, so does every message.
LEMMA AllReturn ==
    ASSUME NEW type, NEW m, [type |-> type, value |-> m] \in Messages
    PROVE  SoundMessage(type, m) /\ Returns(type, m)
<1> DEFINE Sees(n, t, e) == /\ [type |-> t, value |-> e] \in Messages
                            /\ n = Len(Encoded(Marshals[t], e))
                            /\ ~ (SoundMessage(t, e) /\ Returns(t, e))
           T == {n \in Nat : \E t, e : Sees(n, t, e)}
<1>1. ASSUME NEW t, NEW e, [type |-> t, value |-> e] \in Messages
      PROVE  Known(t, e) /\ Len(Encoded(Marshals[t], e)) \in Nat
  BY <1>1, MessageKnown DEF Known, Text, Octets
<1>2. T = {}
  <2> SUFFICES ASSUME T # {} PROVE FALSE
    OBVIOUS
  <2>1. PICK n \in T : \A k \in T : n <= k
    <3>1. T \in SUBSET Nat
      OBVIOUS
    <3> HIDE DEF T
    <3> QED BY <3>1, LeastNatural
  <2>2. PICK t, e : Sees(n, t, e)
    <3> HIDE DEF Sees
    <3> QED BY <2>1
  <2>3. /\ Known(t, e) /\ n = Len(Encoded(Marshals[t], e)) /\ n \in Nat
    BY <1>1, <2>2
  <2>4. ASSUME NEW c \in Unmarshals[t], NEW x \in Within(c, e[c.field])
        PROVE  /\ [type |-> c.type, value |-> x] \in Messages
               /\ Text(NestedEncoded(Marshals[c.type], x))
               /\ NestedEncoded(Marshals[c.type], x) = Encoded(Marshals[c.type], x)
    BY <2>3, KnownWithin DEF Known
  <2>5. t \in DOMAIN Unmarshals /\ IsMessage(Unmarshals[t], e) /\ Calls(t, e) /\ Encoding(t, e)
    BY <2>3, <2>4 DEF Known, Encoding
  <2>6. ASSUME NEW c \in Unmarshals[t], NEW x \in Within(c, e[c.field])
        PROVE  Returns(c.type, x)
    <3> DEFINE k == Len(NestedEncoded(Marshals[c.type], x))
    <3>1. k \in Nat /\ k < n
      BY <2>3, <2>5, WithinShorter
    <3>2. k = Len(Encoded(Marshals[c.type], x)) /\ [type |-> c.type, value |-> x] \in Messages
      BY <2>4
    <3> HIDE DEF k
    <3>3. k \notin T
      <4> HIDE DEF T
      <4> QED BY <2>1, <2>3, <3>1
    <3>4. ~ Sees(k, c.type, x)
      <4> HIDE DEF Sees
      <4> QED BY <3>1, <3>3
    <3> QED BY <3>2, <3>4
  <2>7. SoundMessage(t, e)
    BY <2>5, <2>6, MessageSound
  <2>8. Returns(t, e)
    BY <2>3, <2>7, SoundReturns
  <2> QED BY <2>2, <2>7, <2>8
<1>3. ~ Sees(Len(Encoded(Marshals[type], m)), type, m)
  <2>1. Len(Encoded(Marshals[type], m)) \in Nat
    BY <1>1
  <2> HIDE DEF Sees
  <2> QED BY <1>2, <2>1
<1> QED BY <1>3

-------------------------------------------------------------------------------
(* What the methods do *)

\* MarshalVT returns all that is written when that is what has been counted.
LEMMA MarshalIs ==
    ASSUME NEW rows, NEW sizes, NEW m, SizeVT(sizes, m) = Len(Encoded(rows, m)),
           Encoded(rows, m) \in Octets
    PROVE  MarshalVT(rows, sizes, m) = <<Encoded(rows, m)>>
<1> DEFINE b == Encoded(rows, m)
           size == SizeVT(sizes, m)
<1>1. size = Len(b) /\ b \in Octets
  OBVIOUS
<1>3. MarshalVT(rows, sizes, m) =
        IF Len(b) > size THEN <<>> ELSE << Cut([i \in 1..size - Len(b) |-> 0] \o b, Len(b)) >>
  BY DEF MarshalVT
<1> HIDE DEF b, size
<1>6. Len(b) \in Nat /\ b \in Seq(Byte)
  BY <1>1 DEF Octets
<1> DEFINE zeros == [i \in 1..size - Len(b) |-> 0]
<1>7. zeros \o b = b
  <2>1. zeros = <<>>
    BY <1>1, <1>6
  <2> HIDE DEF zeros
  <2>2. <<>> \o b = b
    BY <1>6
  <2> QED BY <2>1, <2>2
<1>8. Cut(b, Len(b)) = b
  <2>1. Len(b) \in 0..Len(b)
    BY <1>6
  <2>2. Cut(b, Len(b)) = SubSeq(b, 1, Len(b))
    BY <1>6, <2>1, CutFact
  <2> QED BY <1>6, <2>2
<1>9. MarshalVT(rows, sizes, m) = <<b>>
  <2>1. ~ Len(b) > size
    BY <1>1, <1>6
  <2>2. MarshalVT(rows, sizes, m) = << Cut([i \in 1..size - Len(b) |-> 0] \o b, Len(b)) >>
    BY <1>3, <2>1
  <2>3. Cut([i \in 1..size - Len(b) |-> 0] \o b, Len(b)) = b
    BY <1>7, <1>8
  <2> QED BY <2>2, <2>3
<1> QED BY <1>9 DEF b

\* Bytes that lead from a fresh message to m are read as m.
LEMMA UnmarshalIs ==
    ASSUME NEW cases, NEW b, NEW m, Carries(cases, New(cases), b, m)
    PROVE  UnmarshalVT(cases, b) = <<m>>
<1>1. <<>> \in Octets /\ b \in Octets
  BY DEF Octets, Carries
<1>2. Fill(cases, New(cases), b \o <<>>) = Fill(cases, m, <<>>)
  BY <1>1 DEF Carries
<1> QED BY <1>1, <1>2, EmptyTail, FillEnd DEF UnmarshalVT

\* MarshalVT does not panic, and UnmarshalVT reads what it has returned.
LEMMA EncodeRead ==
    ASSUME NEW type, NEW m, type \in DOMAIN Unmarshals, SoundMessage(type, m)
    PROVE  LET b == Encoded(Marshals[type], m)
           IN  /\ b \in Octets
               /\ MarshalVT(Marshals[type], Sizes[type], m) = <<b>>
               /\ UnmarshalVT(Unmarshals[type], b) = <<m>>
<1>1. /\ SizeVT(Sizes[type], m) = Len(Encoded(Marshals[type], m))
      /\ Encoded(Marshals[type], m) \in Octets
  BY MessageCounted
<1>2. Carries(Unmarshals[type], New(Unmarshals[type]), Encoded(Marshals[type], m), m)
  BY MessageCarries, TypeFact
<1> QED BY <1>1, <1>2, MarshalIs, UnmarshalIs

\* MarshalVT returns what UnmarshalVT takes for the same message.
THEOREM MessageRoundTrip ==
    ASSUME NEW g \in Messages
    PROVE  LET b == Encoded(Marshals[g.type], g.value)
           IN  /\ b \in Octets
               /\ MarshalVT(Marshals[g.type], Sizes[g.type], g.value) = <<b>>
               /\ UnmarshalVT(Unmarshals[g.type], b) = <<g.value>>
<1>1. g = [type |-> g.type, value |-> g.value] /\ g.type \in DOMAIN Unmarshals
  BY MessageAssumption
<1>2. SoundMessage(g.type, g.value)
  BY <1>1, AllReturn
<1> QED BY <1>1, <1>2, EncodeRead

-------------------------------------------------------------------------------
(* Sequences that are put together, up to some place *)

Leading(seqs, k) == [i \in 1..k |-> seqs[i]]

\* The first k sequences, put together one by one.
LEMMA LeadingFact ==
    ASSUME NEW n \in Nat, NEW seqs \in [1..n -> Octets]
    PROVE  /\ FlattenSeq(Leading(seqs, 0)) = <<>>
           /\ FlattenSeq(Leading(seqs, n)) = FlattenSeq(seqs)
           /\ \A k \in 0..n : FlattenSeq(Leading(seqs, k)) \in Seq(Byte)
           /\ \A k \in 1..n : FlattenSeq(Leading(seqs, k)) = FlattenSeq(Leading(seqs, k - 1)) \o seqs[k]
<1>1. seqs \in [1..n -> Seq(Byte)]
  BY DEF Octets
<1>2. PICK f \in [0..n -> Seq(Byte)] :
          /\ f[0] = <<>>
          /\ \A i \in 1..n : f[i] = f[i-1] \o seqs[i]
          /\ FlattenSeq(seqs) = f[n]
  BY <1>1, FlattenFact
<1>3. ASSUME NEW k \in 0..n PROVE FlattenSeq(Leading(seqs, k)) = f[k]
  <2> DEFINE a == Leading(seqs, k)
  <2>1. k \in Nat /\ a \in [1..k -> Seq(Byte)] /\ \A i \in 1..k : a[i] = seqs[i] /\ i \in 1..n
    BY <1>1 DEF Leading
  <2> HIDE DEF a
  <2>2. PICK g \in [0..k -> Seq(Byte)] :
            /\ g[0] = <<>>
            /\ \A i \in 1..k : g[i] = g[i-1] \o a[i]
            /\ FlattenSeq(a) = g[k]
    BY <2>1, FlattenFact
  <2> DEFINE T == {i \in 0..k : g[i] # f[i]}
  <2>3. T = {}
    <3> SUFFICES ASSUME T # {} PROVE FALSE
      OBVIOUS
    <3>1. PICK i \in T : \A j \in T : i <= j
      <4>1. T \in SUBSET Nat
        OBVIOUS
      <4> QED BY <4>1, LeastNatural
    <3>2. i # 0
      BY <1>2, <2>2
    <3>3. i \in 1..k /\ i - 1 \in 0..k /\ i - 1 \notin T
      BY <3>1, <3>2
    <3>4. g[i-1] = f[i-1] /\ g[i] = g[i-1] \o a[i] /\ f[i] = f[i-1] \o seqs[i] /\ a[i] = seqs[i]
      BY <1>2, <2>1, <2>2, <3>3
    <3> QED BY <3>4
  <2>4. k \in 0..k
    OBVIOUS
  <2>5. g[k] = f[k]
    BY <2>3, <2>4
  <2> QED BY <2>2, <2>5 DEF a
<1>4. seqs = Leading(seqs, n)
  BY DEF Leading
<1>5. \A k \in 1..n : k \in 0..n /\ k - 1 \in 0..n
  OBVIOUS
<1>6. 0 \in 0..n /\ n \in 0..n
  OBVIOUS
<1>7. FlattenSeq(Leading(seqs, 0)) = <<>>
  BY <1>2, <1>3, <1>6
<1>8. \A k \in 0..n : FlattenSeq(Leading(seqs, k)) \in Seq(Byte)
  BY <1>2, <1>3
<1>9. \A k \in 1..n : FlattenSeq(Leading(seqs, k)) = FlattenSeq(Leading(seqs, k - 1)) \o seqs[k]
  BY <1>2, <1>3, <1>5
<1> QED BY <1>4, <1>7, <1>8, <1>9

\* They begin with what is put together of the first of them.
LEMMA LeadingFirst ==
    ASSUME NEW n \in Nat, NEW seqs \in [1..n -> Octets], NEW k \in 0..n
    PROVE  LET a == FlattenSeq(Leading(seqs, k))
               b == FlattenSeq(seqs)
           IN  /\ Len(a) \in Nat /\ Len(b) \in Nat /\ Len(a) <= Len(b)
               /\ \A x \in 1..Len(a) : a[x] = b[x]
<1> DEFINE F == [m \in 0..n |-> FlattenSeq(Leading(seqs, m))]
           a == F[k]
           Begins(m) == Len(a) <= Len(F[m]) /\ \A x \in 1..Len(a) : a[x] = F[m][x]
           T == {m \in k..n : ~ Begins(m)}
<1>1. /\ F[n] = FlattenSeq(seqs) /\ F \in [0..n -> Seq(Byte)]
      /\ \A m \in 1..n : F[m] = F[m-1] \o seqs[m]
  <2>1. \A m \in 1..n : m \in 0..n /\ m - 1 \in 0..n
    OBVIOUS
  <2>2. n \in 0..n
    OBVIOUS
  <2> QED BY <2>1, <2>2, LeadingFact
<1>2. a = FlattenSeq(Leading(seqs, k))
  OBVIOUS
<1> HIDE DEF F
<1>3. a \in Seq(Byte) /\ Len(a) \in Nat
  BY <1>1
<1>4. T = {}
  <2> SUFFICES ASSUME T # {} PROVE FALSE
    OBVIOUS
  <2>1. PICK m \in T : \A j \in T : m <= j
    <3>1. T \in SUBSET Nat
      OBVIOUS
    <3> QED BY <3>1, LeastNatural
  <2>2. m # k
    <3>1. Begins(k)
      BY <1>3
    <3> QED BY <2>1, <3>1
  <2>3. m \in 1..n /\ m - 1 \in k..n /\ m - 1 \notin T /\ m - 1 \in 0..n
    BY <2>1, <2>2
  <2>4. Begins(m - 1)
    BY <2>3
  <2> DEFINE u == F[m-1]
             w == seqs[m]
  <2>5. u \in Seq(Byte) /\ w \in Seq(Byte) /\ F[m] = u \o w
    BY <1>1, <2>3 DEF Octets
  <2>6. Len(a) <= Len(u) /\ \A x \in 1..Len(a) : a[x] = u[x]
    BY <2>4
  <2> HIDE DEF u, w, a
  <2>7. Len(u \o w) = Len(u) + Len(w) /\ \A x \in 1..Len(u) : (u \o w)[x] = u[x]
    BY <2>5, ConcatFact
  <2>8. Len(u) \in Nat /\ Len(w) \in Nat
    BY <2>5
  <2>9. Begins(m)
    BY <1>3, <2>5, <2>6, <2>7, <2>8
  <2> QED BY <2>1, <2>9
<1>5. n \in k..n /\ n \notin T
  BY <1>4
<1>6. Begins(n)
  BY <1>5
<1>7. Len(F[n]) \in Nat
  BY <1>1
<1> QED BY <1>1, <1>2, <1>3, <1>6, <1>7

\* What has lost its end has lost all of some sequence and what comes after it.
LEMMA FlattenCut ==
    ASSUME NEW n \in Nat, NEW seqs \in [1..n -> Octets], NEW j \in 0..(Len(FlattenSeq(seqs)) - 1)
    PROVE  \E k \in 1..n : \E i \in 0..(Len(seqs[k]) - 1) :
              Cut(FlattenSeq(seqs), j) = FlattenSeq(Leading(seqs, k - 1)) \o Cut(seqs[k], i)
<1> DEFINE F == [m \in 0..n |-> FlattenSeq(Leading(seqs, m))]
           b == FlattenSeq(seqs)
           T == {m \in 0..n : j < Len(F[m])}
<1>1. /\ F[0] = <<>> /\ F[n] = b /\ F \in [0..n -> Seq(Byte)]
      /\ \A m \in 1..n : F[m] = F[m-1] \o seqs[m]
  <2>1. \A m \in 1..n : m \in 0..n /\ m - 1 \in 0..n
    OBVIOUS
  <2>2. n \in 0..n /\ 0 \in 0..n
    OBVIOUS
  <2> QED BY <2>1, <2>2, LeadingFact
<1>2. \A m \in 0..n : Len(F[m]) <= Len(b) /\ \A x \in 1..Len(F[m]) : F[m][x] = b[x]
  BY LeadingFirst
<1>f. \A m \in 0..n : F[m] = FlattenSeq(Leading(seqs, m))
  OBVIOUS
<1> HIDE DEF F
<1>3. b \in Seq(Byte) /\ Len(b) \in Nat /\ j \in Nat /\ j < Len(b) /\ j \in 0..Len(b)
  <2>1. b \in Seq(Byte)
    BY <1>1
  <2> HIDE DEF b
  <2>2. Len(b) \in Nat
    BY <2>1
  <2>3. j \in 0..(Len(b) - 1)
    BY DEF b
  <2> QED BY <2>1, <2>2, <2>3
<1> HIDE DEF b
<1>4. PICK k \in T : \A m \in T : k <= m
  <2>1. n \in T
    BY <1>1, <1>3
  <2>2. T \in SUBSET Nat /\ T # {}
    BY <2>1
  <2> QED BY <2>2, LeastNatural
<1>5. k \in 1..n /\ k - 1 \in 0..n /\ ~ (j < Len(F[k-1]))
  <2>1. k # 0
    BY <1>1, <1>3, <1>4
  <2>2. k - 1 \in 0..n /\ k - 1 \notin T
    BY <1>4, <2>1
  <2> QED BY <1>4, <2>1, <2>2
<1> DEFINE u == F[k-1]
           w == seqs[k]
           i == j - Len(u)
<1>6. u \in Seq(Byte) /\ w \in Seq(Byte) /\ F[k] = u \o w
  BY <1>1, <1>5 DEF Octets
<1>7. Len(F[k]) <= Len(b) /\ \A x \in 1..Len(F[k]) : F[k][x] = b[x]
  BY <1>2, <1>4
<1>8. Len(u) <= j /\ j < Len(F[k])
  <2>1. Len(u) \in Nat
    BY <1>6
  <2> HIDE DEF u
  <2> QED BY <1>3, <1>4, <1>5, <2>1 DEF u
<1>9. Cut(b, j) \in Seq(Byte) /\ Len(Cut(b, j)) = j /\ \A x \in 1..j : Cut(b, j)[x] = b[x]
  BY <1>3, CutFact
<1>10. u = FlattenSeq(Leading(seqs, k - 1))
  BY <1>5, <1>f
<1> HIDE DEF u, w
<1>11. /\ Len(u \o w) = Len(u) + Len(w)
       /\ \A x \in 1..Len(u) : (u \o w)[x] = u[x]
       /\ \A x \in 1..Len(w) : (u \o w)[Len(u) + x] = w[x]
       /\ Len(u) \in Nat /\ Len(w) \in Nat
  BY <1>6, ConcatFact
<1>12. i \in 0..(Len(w) - 1) /\ i \in 0..Len(w) /\ i \in Nat /\ j = Len(u) + i
  BY <1>3, <1>6, <1>8, <1>11
<1> HIDE DEF i
<1> DEFINE c == Cut(w, i)
<1>13. c \in Seq(Byte) /\ Len(c) = i /\ \A x \in 1..i : c[x] = w[x]
  BY <1>6, <1>12, CutFact
<1> HIDE DEF c
<1>14. /\ u \o c \in Seq(Byte) /\ Len(u \o c) = Len(u) + i
       /\ \A x \in 1..Len(u) : (u \o c)[x] = u[x]
       /\ \A x \in 1..i : (u \o c)[Len(u) + x] = c[x]
  <2>1. /\ u \o c \in Seq(Byte) /\ Len(u \o c) = Len(u) + Len(c)
        /\ \A x \in 1..Len(u) : (u \o c)[x] = u[x]
        /\ \A x \in 1..Len(c) : (u \o c)[Len(u) + x] = c[x]
    <3>1. u \in Seq(Byte) /\ c \in Seq(Byte)
      BY <1>6, <1>13
    <3> QED BY ONLY <3>1, ConcatFact
  <2> QED BY <1>13, <2>1
<1>15. \A x \in 1..j : Cut(b, j)[x] = (u \o c)[x]
  <2> TAKE x \in 1..j
  <2>1. Cut(b, j)[x] = (u \o w)[x]
    BY <1>6, <1>7, <1>9, <1>11, <1>12
  <2>2. CASE x <= Len(u)
    BY <1>11, <1>14, <2>1, <2>2
  <2>3. CASE ~ (x <= Len(u))
    <3> DEFINE y == x - Len(u)
    <3>1. y \in 1..i /\ y \in 1..Len(w) /\ x = Len(u) + y
      BY <1>11, <1>12, <2>3
    <3> HIDE DEF y
    <3> QED BY <1>11, <1>13, <1>14, <2>1, <3>1
  <2> QED BY <2>2, <2>3
<1>16. Cut(b, j) = u \o c
  <2> DEFINE d == Cut(b, j)
             e == u \o c
  <2>1. d \in Seq(Byte) /\ e \in Seq(Byte) /\ Len(d) = Len(e) /\ \A x \in 1..Len(d) : d[x] = e[x]
    BY <1>9, <1>12, <1>14, <1>15
  <2> HIDE DEF d, e
  <2>2. d = e
    BY <2>1, SameSeq
  <2> QED BY <2>2 DEF d, e
<1> QED BY <1>5, <1>10, <1>12, <1>16 DEF b, c, w

\* Nothing comes after the k-th.
LEMMA FlattenPadded ==
    ASSUME NEW n \in Nat, NEW seqs \in [1..n -> Octets], NEW new \in [1..n -> Octets],
           NEW k \in 1..n, \A i \in 1..(k-1) : new[i] = seqs[i], \A i \in (k+1)..n : new[i] = <<>>
    PROVE  FlattenSeq(new) = FlattenSeq(Leading(seqs, k - 1)) \o new[k]
<1> DEFINE F == [m \in 0..n |-> FlattenSeq(Leading(new, m))]
           T == {m \in k..n : F[m] # F[k]}
<1>1. /\ F[n] = FlattenSeq(new) /\ F \in [0..n -> Seq(Byte)]
      /\ \A m \in 1..n : F[m] = F[m-1] \o new[m]
  <2>1. \A m \in 1..n : m \in 0..n /\ m - 1 \in 0..n
    OBVIOUS
  <2>2. n \in 0..n
    OBVIOUS
  <2> QED BY <2>1, <2>2, LeadingFact
<1>2. F[k-1] = FlattenSeq(Leading(new, k - 1))
  <2>1. k - 1 \in 0..n
    OBVIOUS
  <2> QED BY <2>1
<1>3. Leading(new, k - 1) = Leading(seqs, k - 1)
  BY DEF Leading
<1> HIDE DEF F
<1>4. T = {}
  <2> SUFFICES ASSUME T # {} PROVE FALSE
    OBVIOUS
  <2>1. PICK m \in T : \A j \in T : m <= j
    <3>1. T \in SUBSET Nat
      OBVIOUS
    <3> QED BY <3>1, LeastNatural
  <2>2. m # k
    BY <2>1
  <2>3. m \in (k+1)..n /\ m \in 1..n /\ m - 1 \in k..n /\ m - 1 \notin T /\ m - 1 \in 0..n
    BY <2>1, <2>2
  <2>4. F[m-1] = F[k] /\ F[m] = F[m-1] \o new[m] /\ new[m] = <<>>
    BY <1>1, <2>3
  <2>5. F[m-1] \in Octets
    BY <1>1, <2>3 DEF Octets
  <2>6. F[m-1] \o <<>> = F[m-1]
    BY <2>5, EmptyTail
  <2> QED BY <2>1, <2>4, <2>6
<1>5. n \in k..n
  OBVIOUS
<1>6. F[n] = F[k]
  BY <1>4, <1>5
<1>7. F[k] = F[k-1] \o new[k]
  BY <1>1
<1> QED BY <1>1, <1>2, <1>3, <1>6, <1>7

-------------------------------------------------------------------------------
(* Fields of which some elements are missing *)

\* The first elements of a list are a list.
LEMMA FirstOfList ==
    ASSUME NEW v, IsList(v), NEW k \in 0..Len(v)
    PROVE  LET w == SubSeq(v, 1, k)
           IN  /\ IsList(w) /\ Len(w) = k /\ DOMAIN w = 1..k
               /\ \A i \in 1..k : w[i] = v[i] /\ i \in DOMAIN v
<1> DEFINE S == {v[i] : i \in DOMAIN v}
           w == SubSeq(v, 1, k)
<1>1. v \in Seq(S)
  BY DEF IsList
<1> HIDE DEF S
<1>2. /\ w \in Seq(S) /\ Len(w) = k /\ DOMAIN w = 1..k
      /\ \A i \in 1..k : w[i] = v[i] /\ i \in DOMAIN v
  BY <1>1
<1>3. IsList(w)
  <2> HIDE DEF w
  <2> DEFINE R == {w[i] : i \in DOMAIN w}
  <2>1. w = [i \in 1..k |-> w[i]] /\ \A i \in 1..k : w[i] \in R /\ k \in Nat
    BY <1>2
  <2> HIDE DEF R
  <2>2. w \in Seq(R)
    BY <2>1
  <2> QED BY <2>2 DEF R, IsList
<1> QED BY <1>2, <1>3

\* A field may hold fewer elements,
LEMMA SoundFirst ==
    ASSUME NEW row, NEW c, NEW v, Sound(row, c, v), c.kind \in Lists \cup Options,
           NEW k \in 0..Len(v)
    PROVE  Sound(row, c, SubSeq(v, 1, k))
<1> DEFINE w == SubSeq(v, 1, k)
<1>1. /\ row.kind = c.kind /\ row.type = c.type /\ c.kind \in Plain
      /\ Holds(c, v) /\ IsList(v)
      /\ c.kind \in Options => Len(v) <= 1
      /\ \A e \in Inner(c, v) : Returns(c.type, e)
      /\ c.kind = "MapOf" => EntryFits(row, c) /\ \A i \in DOMAIN v : Text(EntryBytes(row, v[i]))
  BY DEF Sound
<1>2. /\ IsList(w) /\ Len(w) = k /\ DOMAIN w = 1..k
      /\ \A i \in 1..k : w[i] = v[i] /\ i \in DOMAIN v
  BY <1>1, FirstOfList
<1>3. Len(v) \in Nat /\ k \in Nat /\ k <= Len(v)
  BY <1>1, ListDomain
<1> HIDE DEF w
<1>4. Holds(c, w)
  BY <1>1, <1>2, Kinds DEF Holds
<1>5. \A e \in Inner(c, w) : e \in Inner(c, v)
  BY <1>2 DEF Inner
<1>6. c.kind \in Options => Len(w) <= 1
  BY <1>1, <1>2, <1>3
<1>7. c.kind = "MapOf" => EntryFits(row, c) /\ \A i \in DOMAIN w : Text(EntryBytes(row, w[i]))
  BY <1>1, <1>2
<1>8. Sound(row, c, w)
  BY <1>1, <1>2, <1>4, <1>5, <1>6, <1>7 DEF Sound
<1> QED BY <1>8 DEF w

\* or none.
LEMMA SoundNothing ==
    ASSUME NEW row, NEW c, NEW v, Sound(row, c, v)
    PROVE  Sound(row, c, <<>>)
<1>1. row.kind = c.kind /\ row.type = c.type /\ c.kind \in Plain
  BY DEF Sound
<1>2. CASE c.kind \in Lists \cup Options
  <2>1. IsList(v)
    BY <1>2 DEF Sound
  <2>2. Len(v) \in Nat /\ 0 \in 0..Len(v)
    BY <2>1, ListDomain
  <2>3. Sound(row, c, SubSeq(v, 1, 0))
    BY <1>2, <2>2, SoundFirst
  <2>4. SubSeq(v, 1, 0) = <<>>
    OBVIOUS
  <2> QED BY <2>3, <2>4
<1>3. CASE c.kind \in Scalars
  <2> DEFINE none == <<>>
  <2>1. Numeral(none) /\ Text(none) /\ Int32(none) = none
    <3>1. none \in Octets /\ Len(none) = 0 /\ none \in Seq(Group)
      BY DEF Octets
    <3>2. 0 < Huge
      BY DEF Huge
    <3> QED BY <3>1, <3>2 DEF Numeral, Text, Int32
  <2>2. Holds(c, none)
    <3> HIDE DEF none
    <3>1. none \in {<<>>, <<1>>}
      BY DEF none
    <3> QED BY <1>3, <2>1, <3>1, Kinds DEF Holds
  <2>3. c.kind \notin Lists \cup Options /\ c.kind # "MapOf" /\ Inner(c, none) = {}
    BY <1>3, Kinds DEF Inner
  <2>4. c.kind \notin Options
    BY <2>3
  <2> HIDE DEF none
  <2>5. Sound(row, c, none)
    BY <1>1, <2>2, <2>3, <2>4 DEF Sound
  <2> QED BY <2>5 DEF none
<1> QED BY <1>1, <1>2, <1>3, Kinds

\* What is written of a field, and whether it can be read, depends on the field.
LEMMA FieldOnly ==
    ASSUME NEW cases, NEW row, NEW m, SoundField(cases, row, m), NEW n, n[row.field] = m[row.field]
    PROVE  SoundField(cases, row, n) /\ Written(row, n) = Written(row, m)
<1>1. CASE row.kind = "Unknown" /\ row.field = "unknownFields" /\ IsUnknown(cases, m.unknownFields)
  BY <1>1 DEF SoundField, Written
<1>2. CASE row.kind = "OneOf"
                /\ (m[row.field] = <<>> \/ \E c \in cases : row.field = c.field /\ SoundArm(c, m[c.field]))
  <2>1. SoundField(cases, row, n)
    BY <1>2 DEF SoundField
  <2>2. Written(row, n) = Written(row, m)
    BY <1>2 DEF Written
  <2> QED BY <2>1, <2>2
<1>3. ASSUME NEW c \in cases, row.field = c.field, SameTag(row, c), Sound(row, c, m[row.field])
      PROVE  SoundField(cases, row, n) /\ Written(row, n) = Written(row, m)
  <2>1. SoundField(cases, row, n)
    BY <1>3 DEF SoundField
  <2>2. row.kind \in Plain
    BY <1>3 DEF Sound
  <2>3. Chunks(row, n) = Chunks(row, m)
    BY DEF Chunks, Elements
  <2> QED BY <2>1, <2>2, <2>3, PlainWritten
<1> QED BY <1>1, <1>2, <1>3 DEF SoundField

\* No bytes are no unknown fields.
LEMMA NothingUnknown ==
    ASSUME NEW cases
    PROVE  IsUnknown(cases, <<>>)
<1> DEFINE u == <<>>
           fields == <<>>
           n == 0
<1>1. u \in Octets /\ Len(u) = 0
  BY DEF Octets
<1>2. n \in 0..Len(u) /\ fields \in [1..n -> Slices(u)] /\ u = FlattenSeq(fields)
      /\ \A k \in 1..n : IsKept(cases, fields[k])
  BY <1>1 DEF FlattenSeq
<1> HIDE DEF u, fields, n
<1>3. IsUnknown(cases, u)
  BY <1>1, <1>2 DEF IsUnknown
<1> QED BY <1>3 DEF u

\* Nothing is written of a field that holds nothing.
LEMMA FieldNothing ==
    ASSUME NEW cases, NEW row, NEW m, SoundField(cases, row, m), NEW n, n[row.field] = <<>>
    PROVE  SoundField(cases, row, n) /\ Written(row, n) = <<>>
<1>1. CASE row.kind = "Unknown" /\ row.field = "unknownFields"
  BY <1>1, NothingUnknown DEF SoundField, Written
<1>2. CASE row.kind = "OneOf"
  <2>1. SoundField(cases, row, n)
    BY <1>2 DEF SoundField
  <2>2. Written(row, n) = <<>>
    <3> DEFINE all == [k \in 1..Len(n[row.field]) |->
                        NestedEncoded(Marshals[n[row.field][k].arm], n[row.field][k].wrapper)]
    <3>1. Written(row, n) = FlattenSeq(all)
      BY <1>2 DEF Written
    <3>2. all = <<>>
      OBVIOUS
    <3> HIDE DEF all
    <3> QED BY <3>1, <3>2 DEF FlattenSeq
  <2> QED BY <2>1, <2>2
<1>3. ASSUME NEW c \in cases, row.field = c.field, SameTag(row, c), Sound(row, c, m[row.field])
      PROVE  SoundField(cases, row, n) /\ Written(row, n) = <<>>
  <2>1. Sound(row, c, n[row.field])
    BY <1>3, SoundNothing
  <2>2. SoundField(cases, row, n)
    BY <1>3, <2>1 DEF SoundField
  <2>3. row.kind \in Plain
    BY <1>3 DEF Sound
  <2>4. Elements(row, n) = <<>>
    BY <2>3, Kinds DEF Elements
  <2>5. Chunks(row, n) = <<>>
    BY <2>4 DEF Chunks
  <2>6. Written(row, n) = FlattenSeq(Chunks(row, n))
    BY <2>3, PlainWritten
  <2>7. FlattenSeq(<<>>) = <<>>
    BY DEF FlattenSeq
  <2>8. Written(row, n) = <<>>
    BY <2>5, <2>6, <2>7
  <2> QED BY <2>2, <2>8
<1> QED BY <1>1, <1>2, <1>3 DEF SoundField

-------------------------------------------------------------------------------
(* Fields that have lost their end *)

\* A reader refuses a chain that is cut within a field.
LEMMA ChainCut ==
    ASSUME NEW cases, NEW n \in Nat, NEW chunks, NEW msgs, Chain(cases, chunks, msgs, n),
           NEW j \in 0..(Len(FlattenSeq(chunks)) - 1)
    PROVE  LET b == Cut(FlattenSeq(chunks), j)
           IN  \/ Fill(cases, msgs[0], b) = <<>>
               \/ \E k \in 0..(n-1) : b = FlattenSeq(Leading(chunks, k))
<1> DEFINE b == Cut(FlattenSeq(chunks), j)
<1>1. chunks \in [1..n -> Octets]
  BY ChainCarries
<1>2. PICK k \in 1..n : \E i \in 0..(Len(chunks[k]) - 1) :
          b = FlattenSeq(Leading(chunks, k - 1)) \o Cut(chunks[k], i)
  BY <1>1, FlattenCut
<1>3. PICK i \in 0..(Len(chunks[k]) - 1) :
          b = FlattenSeq(Leading(chunks, k - 1)) \o Cut(chunks[k], i)
  BY <1>2
<1> HIDE DEF b
<1> DEFINE first == FlattenSeq(Leading(chunks, k - 1))
           f == chunks[k]
<1>4. k - 1 \in 0..(n-1) /\ k - 1 \in 0..n /\ k - 1 \in Nat
  BY <1>2
<1>5. first \in Octets /\ f \in Octets
  BY <1>1, <1>4, LeadingFact DEF Octets
<1>6. Carries(cases, msgs[0], first, msgs[k - 1])
  <2> DEFINE a == Leading(chunks, k - 1)
             p == k - 1
  <2>1. a = [x \in 1..p |-> a[x]] /\ DOMAIN a = 1..p /\ p \in Nat
    BY <1>4 DEF Leading
  <2>2. ASSUME NEW x \in 1..p PROVE Carries(cases, msgs[x - 1], a[x], msgs[x])
    <3>1. x \in 1..n /\ a[x] = chunks[x]
      BY <1>4 DEF Leading
    <3>2. PICK its, y :
            /\ IsPiece(cases, chunks[x], its, y)
            /\ \A tail : Merged([case |-> its, value |-> y, rest |-> tail], msgs[x - 1]) = <<msgs[x]>>
      BY <3>1 DEF Chain
    <3>3. Carries(cases, msgs[x - 1], chunks[x], msgs[x])
      BY <3>2, CarriesPiece
    <3> QED BY <3>1, <3>3
  <2> HIDE DEF a, p
  <2>3. Carries(cases, msgs[0], FlattenSeq(a), msgs[p])
    BY <2>1, <2>2, CarriesAll
  <2> QED BY <2>3 DEF a, p
<1>7. PICK its, y : IsPiece(cases, f, its, y)
  BY <1>2 DEF Chain
<1> HIDE DEF first, f
<1>8. Len(f) \in Nat
  BY <1>5 DEF Octets
<1>9. CASE i = 0
  <2>1. Cut(f, i) = <<>>
    <3>1. f \in Seq(Byte) /\ 0 \in 0..Len(f)
      BY <1>5, <1>8 DEF Octets
    <3>2. Cut(f, 0) \in Seq(Byte) /\ Len(Cut(f, 0)) = 0
      BY <3>1, CutFact
    <3> QED BY <1>9, <3>2
  <2>2. b = first
    <3>1. b = first \o Cut(f, i)
      BY <1>3 DEF first, f
    <3>2. first \o <<>> = first
      BY <1>5, EmptyTail
    <3> QED BY <2>1, <3>1, <3>2
  <2> QED BY <1>4, <2>2 DEF b, first
<1>10. CASE i # 0
  <2>1. i \in 1..(Len(f) - 1)
    BY <1>3, <1>8, <1>10 DEF f
  <2> DEFINE e == Cut(f, i)
  <2>2. e \in Octets
    <3>1. f \in Seq(Byte) /\ i \in 0..Len(f)
      BY <1>5, <1>8, <2>1 DEF Octets
    <3>2. e \in Seq(Byte)
      BY <3>1, CutFact
    <3> QED BY <3>2 DEF Octets
  <2>3. Fill(cases, msgs[k - 1], e) = <<>>
    BY <1>7, <2>1, PieceCut
  <2>4. b = first \o e
    BY <1>3 DEF first, f
  <2> HIDE DEF e
  <2>5. Fill(cases, msgs[0], first \o e) = Fill(cases, msgs[k - 1], e)
    BY <1>6, <2>2 DEF Carries
  <2> QED BY <2>3, <2>4, <2>5 DEF b
<1> QED BY <1>9, <1>10

\* Any number of unknown fields is unknown.
LEMMA FieldsUnknown ==
    ASSUME NEW cases, NEW n \in Nat, NEW fields \in [1..n -> Octets],
           \A k \in 1..n : IsPiece(cases, fields[k], {}, fields[k])
    PROVE  IsUnknown(cases, FlattenSeq(fields))
<1> DEFINE u == FlattenSeq(fields)
           F == [m \in 0..n |-> FlattenSeq(Leading(fields, m))]
<1>1. /\ F[0] = <<>> /\ F[n] = u /\ F \in [0..n -> Seq(Byte)]
      /\ \A m \in 1..n : F[m] = F[m-1] \o fields[m]
  <2>1. \A m \in 1..n : m \in 0..n /\ m - 1 \in 0..n
    OBVIOUS
  <2>2. n \in 0..n /\ 0 \in 0..n
    OBVIOUS
  <2> QED BY <2>1, <2>2, LeadingFact
<1>2. \A m \in 0..n : Len(F[m]) <= Len(u) /\ \A x \in 1..Len(F[m]) : F[m][x] = u[x]
  BY LeadingFirst
<1> HIDE DEF F
<1>3. u \in Seq(Byte) /\ Len(u) \in Nat
  <2>1. n \in 0..n
    OBVIOUS
  <2>2. F[n] \in Seq(Byte)
    BY <1>1, <2>1
  <2> QED BY <1>1, <2>2
<1> HIDE DEF u
<1>4. ASSUME NEW m \in 1..n
      PROVE  /\ Len(fields[m]) \in Nat /\ Len(fields[m]) >= 2 /\ fields[m] \in Seq(Byte)
             /\ Len(F[m]) = Len(F[m-1]) + Len(fields[m]) /\ Len(F[m-1]) \in Nat
             /\ fields[m] \in Slices(u)
  <2> DEFINE f == fields[m]
             a == F[m-1]
  <2>1. f \in Seq(Byte) /\ Len(f) \in Nat /\ Len(f) >= 2
    <3>1. Left(<<>>, f, 2)
      BY PieceFact
    <3>2. f \in Seq(Byte) /\ Len(f) \in Nat
      BY DEF Octets
    <3> HIDE DEF f
    <3> QED BY <3>1, <3>2 DEF Left
  <2>2. m - 1 \in 0..n /\ m \in 0..n
    OBVIOUS
  <2>3. a \in Seq(Byte) /\ F[m] = a \o f
    BY <1>1, <2>2
  <2>4. Len(F[m]) <= Len(u) /\ \A x \in 1..Len(F[m]) : F[m][x] = u[x]
    BY <1>2, <2>2
  <2> HIDE DEF f, a
  <2>5. /\ Len(a \o f) = Len(a) + Len(f) /\ Len(a) \in Nat
        /\ \A x \in 1..Len(f) : (a \o f)[Len(a) + x] = f[x]
    BY <2>1, <2>3, ConcatFact
  <2> DEFINE i == Len(a) + 1
             j == Len(a) + Len(f)
             s == SubSeq(u, i, j)
  <2>6. i \in 1..Len(u) /\ j \in 1..Len(u)
    BY <1>3, <2>1, <2>3, <2>4, <2>5
  <2>7. s \in Seq(Byte) /\ Len(s) = Len(f) /\ \A x \in 1..Len(f) : s[x] = u[Len(a) + x]
    BY <1>3, <2>1, <2>3, <2>4, <2>5
  <2>8. \A x \in 1..Len(f) : s[x] = f[x]
    <3> TAKE x \in 1..Len(f)
    <3> HIDE DEF s
    <3>1. Len(a) + x \in 1..Len(F[m])
      BY <2>1, <2>3, <2>5
    <3> QED BY <2>3, <2>4, <2>5, <2>7, <3>1
  <2>9. s = f
    <3> HIDE DEF s
    <3> QED BY <2>1, <2>7, <2>8, SameSeq
  <2>10. f \in Slices(u)
    <3> HIDE DEF i, j
    <3> QED BY <2>6, <2>9 DEF Slices
  <2> QED BY <2>1, <2>3, <2>5, <2>10 DEF f, a
<1>5. n <= Len(u)
  <2> DEFINE T == {m \in 0..n : ~ (m <= Len(F[m]))}
  <2>1. T = {}
    <3> SUFFICES ASSUME T # {} PROVE FALSE
      OBVIOUS
    <3>1. PICK m \in T : \A j \in T : m <= j
      <4>1. T \in SUBSET Nat
        OBVIOUS
      <4> QED BY <4>1, LeastNatural
    <3>2. m # 0
      <4>1. Len(F[0]) = 0
        BY <1>1
      <4> QED BY <3>1, <4>1
    <3>3. m \in 1..n /\ m - 1 \in 0..n /\ m - 1 \notin T
      BY <3>1, <3>2
    <3>4. m - 1 <= Len(F[m-1])
      BY <3>3
    <3>5. Len(F[m]) = Len(F[m-1]) + Len(fields[m]) /\ Len(F[m-1]) \in Nat
            /\ Len(fields[m]) \in Nat /\ Len(fields[m]) >= 2
      BY <1>4, <3>3
    <3>6. m <= Len(F[m])
      BY <3>3, <3>4, <3>5
    <3> QED BY <3>1, <3>6
  <2>2. n \in 0..n
    OBVIOUS
  <2>3. n <= Len(F[n])
    BY <2>1, <2>2
  <2> QED BY <1>1, <2>3
<1>6. n \in 0..Len(u) /\ fields \in [1..n -> Slices(u)] /\ \A k \in 1..n : IsKept(cases, fields[k])
  <2>1. n \in 0..Len(u)
    BY <1>3, <1>5
  <2>2. \A k \in 1..n : fields[k] \in Slices(u)
    BY <1>4
  <2>3. fields \in [1..n -> Slices(u)]
    BY <2>2
  <2> QED BY <2>1, <2>3 DEF IsPiece, IsKept
<1>7. u \in Octets /\ u = FlattenSeq(fields)
  BY <1>3 DEF Octets, u
<1>8. IsUnknown(cases, u)
  BY <1>6, <1>7 DEF IsUnknown
<1> QED BY <1>8 DEF u

\* A field that has lost its end is refused, or is one with fewer elements.
Shorter(cases, row, m, p, j) ==
    LET b == Cut(Written(row, m), j)
    IN  \/ Fill(cases, p, b) = <<>>
        \/ \E v : LET new == With(m, row.field, v)
                  IN  SoundField(cases, row, new) /\ Written(row, new) = b

\* The field has the new value.
LEMMA WithHas ==
    ASSUME NEW p, p = [g \in DOMAIN p |-> p[g]], NEW f \in DOMAIN p, NEW a
    PROVE  With(p, f, a)[f] = a
BY DEF With

\* All of the field is missing,
LEMMA ShorterNothing ==
    ASSUME NEW cases, NEW row, NEW m, m = [g \in DOMAIN m |-> m[g]], row.field \in DOMAIN m,
           SoundField(cases, row, m), NEW p, NEW j, Cut(Written(row, m), j) = <<>>
    PROVE  Shorter(cases, row, m, p, j)
<1> DEFINE f == row.field
           new == With(m, f, <<>>)
<1>1. new[f] = <<>>
  <2>1. f \in DOMAIN m
    OBVIOUS
  <2> HIDE DEF f
  <2> QED BY <2>1, WithFact
<1> HIDE DEF new
<1>2. SoundField(cases, row, new) /\ Written(row, new) = <<>>
  BY <1>1, FieldNothing
<1> QED BY <1>2 DEF Shorter, new

\* or some elements of it are,
LEMMA ShorterPlain ==
    ASSUME NEW cases, NEW c \in cases, \A d \in cases : d.at = c.at => d = c,
           NEW row, SameTag(row, c), row.field = c.field,
           NEW m, m = [g \in DOMAIN m |-> m[g]], row.field \in DOMAIN m,
           Sound(row, c, m[row.field]),
           NEW p, p = [g \in DOMAIN p |-> p[g]], c.field \in DOMAIN p, p[c.field] = <<>>,
           NEW j \in 0..(Len(Written(row, m)) - 1)
    PROVE  Shorter(cases, row, m, p, j)
<1> DEFINE es == Elements(row, m)
           n == Len(es)
           v == m[c.field]
           msgs == [i \in 0..n |-> With(p, c.field, Before(c, v, i))]
           chunks == Chunks(row, m)
           b == Cut(Written(row, m), j)
<1>1. n \in Nat /\ Chain(cases, chunks, msgs, n)
  BY PlainChain
<1>2. row.kind \in Plain /\ row.kind = c.kind /\ Written(row, m) = FlattenSeq(chunks)
  BY PlainWritten DEF Sound
<1>3. msgs[0] = p
  <2>1. Before(c, v, 0) = <<>>
    <3>1. ReadsAll(row, c, v, es)
      BY ElementRead
    <3> HIDE DEF v, es
    <3> QED BY <3>1 DEF ReadsAll
  <2>2. 0 \in 0..n
    BY <1>1
  <2> HIDE DEF n
  <2>3. msgs[0] = With(p, c.field, <<>>)
    BY <2>1, <2>2
  <2> QED BY <2>3, WithFact
<1>4. SoundField(cases, row, m)
  BY DEF SoundField
<1>c. chunks = [k \in 1..n |-> Tagged(row, Payload(row, Raw(row, es[k])))]
  BY DEF Chunks
<1> HIDE DEF msgs, chunks
<1>5. Fill(cases, p, b) = <<>> \/ \E k \in 0..(n-1) : b = FlattenSeq(Leading(chunks, k))
  <2>1. j \in 0..(Len(FlattenSeq(chunks)) - 1)
    BY <1>2
  <2> HIDE DEF n
  <2> QED BY <1>1, <1>2, <1>3, <2>1, ChainCut
<1>6. ASSUME NEW k \in 0..(n-1), b = FlattenSeq(Leading(chunks, k)) PROVE Shorter(cases, row, m, p, j)
  <2>1. CASE k = 0
    <3>1. chunks \in [1..n -> Octets]
      <4> HIDE DEF n
      <4> QED BY <1>1, ChainCarries
    <3>2. FlattenSeq(Leading(chunks, 0)) = <<>>
      <4> HIDE DEF n
      <4> QED BY <1>1, <3>1, LeadingFact
    <3>3. b = <<>>
      BY <1>6, <2>1, <3>2
    <3> QED BY <1>4, <3>3, ShorterNothing
  <2>2. CASE k # 0
    <3>1. n > 1 /\ k \in Nat /\ k <= n
      <4> HIDE DEF n
      <4> QED BY <1>1, <2>2
    <3>2. row.kind \notin Scalars
      <4> SUFFICES ASSUME row.kind \in Scalars PROVE FALSE
        OBVIOUS
      <4>1. es = <<v>> \/ (v = <<>> /\ es = <<>>)
        BY Kinds DEF Elements
      <4> HIDE DEF es, v
      <4>2. Len(<<v>>) = 1 /\ Len(<<>>) = 0
        OBVIOUS
      <4>3. Len(es) = 1 \/ Len(es) = 0
        BY <4>1, <4>2
      <4>4. n > 1
        BY <3>1
      <4> HIDE DEF n
      <4>5. n = 1 \/ n = 0
        BY <4>3 DEF n
      <4> QED BY <4>4, <4>5
    <3>3. es = v
      BY <1>2, <3>2, Kinds DEF Elements
    <3>4. IsList(v) /\ c.kind \in Lists \cup Options
      BY <1>2, <3>2 DEF Sound, Plain
    <3> DEFINE w == SubSeq(v, 1, k)
               new == With(m, c.field, w)
    <3>5. k \in 0..Len(v)
      <4> HIDE DEF v, es
      <4> QED BY <3>1, <3>3
    <3>6. Sound(row, c, w)
      <4>1. Sound(row, c, v)
        OBVIOUS
      <4> HIDE DEF v
      <4> QED BY <3>4, <3>5, <4>1, SoundFirst
    <3>7. IsList(w) /\ Len(w) = k /\ \A i \in 1..k : w[i] = v[i]
      <4> HIDE DEF v
      <4> QED BY <3>4, <3>5, FirstOfList
    <3>8. new[row.field] = w
      <4> DEFINE at == c.field
      <4>1. at \in DOMAIN m /\ row.field = at
        OBVIOUS
      <4> HIDE DEF w, at
      <4>2. With(m, at, w)[at] = w
        BY <4>1, WithHas
      <4> QED BY <4>1, <4>2 DEF at
    <3> HIDE DEF w, new, v, es
    <3>9. SoundField(cases, row, new)
      BY <3>6, <3>8 DEF SoundField
    <3>10. Elements(row, new) = w
      BY <1>2, <3>2, <3>8, Kinds DEF Elements
    <3>11. Chunks(row, new) = Leading(chunks, k)
      <4>1. Chunks(row, new) = [i \in 1..k |-> Tagged(row, Payload(row, Raw(row, w[i])))]
        BY <3>7, <3>10 DEF Chunks
      <4>2. \A i \in 1..k : i \in 1..n
        BY <3>1
      <4>3. \A i \in 1..k : chunks[i] = Tagged(row, Payload(row, Raw(row, w[i])))
        <5> TAKE i \in 1..k
        <5>1. i \in 1..n /\ w[i] = es[i]
          BY <3>3, <3>7, <4>2
        <5> HIDE DEF n
        <5> QED BY <1>c, <5>1
      <4> QED BY <4>1, <4>3 DEF Leading
    <3>12. Written(row, new) = FlattenSeq(Chunks(row, new))
      BY <1>2, PlainWritten
    <3>13. Written(row, new) = b
      BY <1>6, <3>11, <3>12
    <3> QED BY <3>9, <3>13 DEF Shorter, new
  <2> QED BY <2>1, <2>2
<1> QED BY <1>5, <1>6 DEF Shorter

\* or the end of a oneof,
LEMMA ShorterArm ==
    ASSUME NEW cases, NEW c \in cases, \A d \in cases : d.at = c.at => d = c,
           NEW row, row.kind = "OneOf", row.field = c.field,
           NEW m, m = [g \in DOMAIN m |-> m[g]], row.field \in DOMAIN m, SoundArm(c, m[c.field]),
           NEW p, p = [g \in DOMAIN p |-> p[g]], c.field \in DOMAIN p, p[c.field] = <<>>,
           NEW j \in 0..(Len(Written(row, m)) - 1)
    PROVE  Shorter(cases, row, m, p, j)
<1> DEFINE f == Written(row, m)
<1>1. PICK x : IsPiece(cases, f, {c}, x)
  BY ArmPiece
<1>2. SoundField(cases, row, m)
  BY DEF SoundField
<1>3. f \in Seq(Byte) /\ Len(f) \in Nat
  <2> HIDE DEF f
  <2> QED BY <1>1 DEF IsPiece, Octets
<1>4. CASE j = 0
  <2>1. Cut(f, j) = <<>>
    <3> HIDE DEF f
    <3>1. 0 \in 0..Len(f)
      BY <1>3
    <3>2. Cut(f, 0) \in Seq(Byte) /\ Len(Cut(f, 0)) = 0
      BY <1>3, <3>1, CutFact
    <3> QED BY <1>4, <3>2
  <2> QED BY <1>2, <2>1, ShorterNothing
<1>5. CASE j # 0
  <2>1. j \in 1..(Len(f) - 1)
    <3>1. j \in 0..(Len(f) - 1)
      OBVIOUS
    <3> HIDE DEF f
    <3> QED BY <1>3, <1>5, <3>1
  <2>2. Fill(cases, p, Cut(f, j)) = <<>>
    <3> HIDE DEF f
    <3> QED BY <1>1, <2>1, PieceCut
  <2> QED BY <2>2 DEF Shorter
<1> QED BY <1>4, <1>5
\* or some of the unknown fields.
LEMMA ShorterUnknown ==
    ASSUME NEW cases, NEW row, row.kind = "Unknown", row.field = "unknownFields",
           NEW m, m = [g \in DOMAIN m |-> m[g]], row.field \in DOMAIN m,
           IsUnknown(cases, m.unknownFields),
           NEW p, p = [g \in DOMAIN p |-> p[g]], row.field \in DOMAIN p, p[row.field] = <<>>,
           NEW j \in 0..(Len(Written(row, m)) - 1)
    PROVE  Shorter(cases, row, m, p, j)
<1> DEFINE u == m.unknownFields
           b == Cut(u, j)
<1>1. p.unknownFields = <<>> /\ "unknownFields" \in DOMAIN p
  OBVIOUS
<1>2. Written(row, m) = u
  BY DEF Written
<1>3. IsUnknown(cases, u)
  OBVIOUS
<1> HIDE DEF u
<1>4. PICK n \in Nat : \E fields \in [1..n -> Octets] : \E msgs : UnknownSteps(cases, u, p, n, fields, msgs)
  BY <1>1, <1>3, UnknownStepwise
<1>5. PICK fields \in [1..n -> Octets] : \E msgs : UnknownSteps(cases, u, p, n, fields, msgs)
  BY <1>4
<1>6. PICK msgs : UnknownSteps(cases, u, p, n, fields, msgs)
  BY <1>5
<1>7. /\ u = FlattenSeq(fields) /\ \A k \in 1..n : IsPiece(cases, fields[k], {}, fields[k])
      /\ Chain(cases, fields, msgs, n) /\ msgs[0] = p
  BY <1>6 DEF UnknownSteps
<1>8. Fill(cases, p, b) = <<>> \/ \E k \in 0..(n-1) : b = FlattenSeq(Leading(fields, k))
  <2>1. j \in 0..(Len(FlattenSeq(fields)) - 1)
    BY <1>2, <1>7
  <2>2. b = Cut(FlattenSeq(fields), j)
    BY <1>7
  <2> HIDE DEF b
  <2> QED BY <1>7, <2>1, <2>2, ChainCut
<1>9. ASSUME NEW k \in 0..(n-1), b = FlattenSeq(Leading(fields, k)) PROVE Shorter(cases, row, m, p, j)
  <2> DEFINE first == Leading(fields, k)
             at == row.field
             new == With(m, at, b)
  <2>1. k \in Nat /\ first \in [1..k -> Octets] /\ \A i \in 1..k : IsPiece(cases, first[i], {}, first[i])
    BY <1>7 DEF Leading
  <2> HIDE DEF first
  <2>2. IsUnknown(cases, FlattenSeq(first))
    BY <2>1, FieldsUnknown
  <2>3. IsUnknown(cases, b)
    BY <1>9, <2>2 DEF first
  <2>4. at \in DOMAIN m /\ row.field = at
    OBVIOUS
  <2> HIDE DEF at, b
  <2>5. new[at] = b
    BY <2>4, WithHas
  <2> HIDE DEF new
  <2>6. new.unknownFields = b
    BY <2>5 DEF at
  <2>7. SoundField(cases, row, new) /\ Written(row, new) = b
    BY <2>3, <2>6 DEF SoundField, Written
  <2> QED BY <1>2, <2>4, <2>7 DEF Shorter, new, b
<1> QED BY <1>2, <1>8, <1>9 DEF Shorter

\* So it is with every field.
LEMMA FieldShorter ==
    ASSUME NEW cases, \A c, d \in cases : c.at = d.at => c = d,
           NEW row, NEW m, SoundField(cases, row, m), m = [g \in DOMAIN m |-> m[g]],
           row.field \in DOMAIN m, row.field \in Fields(cases),
           NEW p, Blank(p, cases), p[row.field] = <<>>, NEW j \in 0..(Len(Written(row, m)) - 1)
    PROVE  Shorter(cases, row, m, p, j)
<1>1. p = [g \in DOMAIN p |-> p[g]] /\ row.field \in DOMAIN p
  BY DEF Blank
<1>2. CASE row.kind = "Unknown" /\ row.field = "unknownFields" /\ IsUnknown(cases, m.unknownFields)
  BY <1>1, <1>2, ShorterUnknown
<1>3. CASE row.kind = "OneOf" /\ m[row.field] = <<>>
  <2>1. Written(row, m) = <<>>
    BY <1>3, FieldNothing
  <2> QED BY <2>1
<1>4. ASSUME row.kind = "OneOf", NEW c \in cases, row.field = c.field, SoundArm(c, m[c.field])
      PROVE  Shorter(cases, row, m, p, j)
  <2>1. \A d \in cases : d.at = c.at => d = c
    OBVIOUS
  <2> QED BY <1>1, <1>4, <2>1, ShorterArm
<1>5. ASSUME NEW c \in cases, row.field = c.field, SameTag(row, c), Sound(row, c, m[row.field])
      PROVE  Shorter(cases, row, m, p, j)
  <2>1. \A d \in cases : d.at = c.at => d = c
    OBVIOUS
  <2> QED BY <1>1, <1>5, <2>1, ShorterPlain
<1> QED BY <1>2, <1>3, <1>4, <1>5 DEF SoundField

-------------------------------------------------------------------------------
(* Messages that have lost their end *)

\* The fields that are there after k - 1 rows.
LEMMA PartialHas ==
    ASSUME NEW cases, NEW rows, Rows(rows, cases), NEW m,
           NEW k \in 1..Len(rows), NEW l \in 1..Len(rows),
           NEW x, NEW y, x = Len(rows) + 1 - l /\ y = Len(rows) + 1 - k
    PROVE  /\ x \in DOMAIN rows /\ rows[x].field \in Fields(cases)
           /\ Partial(rows, cases, m, k - 1)[rows[x].field] = (IF l < k THEN m[rows[x].field] ELSE <<>>)
           /\ l # k => rows[x].field # rows[y].field
<1> DEFINE N == Len(rows)
           f == rows[x].field
<1>1. /\ N \in Nat /\ DOMAIN rows = 1..N
      /\ \A i, j \in 1..N : rows[i].field = rows[j].field => i = j
      /\ {rows[i].field : i \in 1..N} = Fields(cases)
  BY DEF Rows
<1>2. k \in 1..N /\ l \in 1..N /\ x = N + 1 - l /\ y = N + 1 - k
  OBVIOUS
<1>p. Partial(rows, cases, m, k - 1) =
        [g \in Fields(cases) |->
            IF \E i \in 1..N : rows[i].field = g /\ N < i + (k - 1) THEN m[g] ELSE <<>>]
  BY DEF Partial
<1> HIDE DEF N
<1>3. x \in 1..N /\ x \in DOMAIN rows /\ f \in Fields(cases) /\ y \in 1..N
  BY <1>1, <1>2
<1>4. l # k => x # y
  BY <1>1, <1>2
<1>5. N < x + (k - 1) <=> l < k
  BY <1>1, <1>2
<1>6. (\E i \in 1..N : rows[i].field = f /\ N < i + (k - 1)) <=> l < k
  BY <1>1, <1>3, <1>5
<1>7. Partial(rows, cases, m, k - 1)[f] = (IF l < k THEN m[f] ELSE <<>>)
  BY <1>p, <1>3, <1>6
<1>8. l # k => f # rows[y].field
  BY <1>1, <1>3, <1>4
<1> QED BY <1>3, <1>7, <1>8

\* A message is cut in one of its fields; those after it are missing.
LEMMA MessageShorter ==
    ASSUME NEW type \in DOMAIN Unmarshals, NEW m, SoundMessage(type, m),
           NEW j \in 0..(Len(Encoded(Marshals[type], m)) - 1)
    PROVE  LET b == Cut(Encoded(Marshals[type], m), j)
           IN  \/ UnmarshalVT(Unmarshals[type], b) = <<>>
               \/ \E new : SoundMessage(type, new) /\ Encoded(Marshals[type], new) = b
<1> DEFINE rows == Marshals[type]
           cases == Unmarshals[type]
           N == Len(rows)
           chunks == [k \in 1..N |-> Written(rows[N + 1 - k], m)]
           whole == Encoded(rows, m)
           b == Cut(whole, j)
<1>1. m = [f \in Fields(cases) |-> m[f]] /\ \A i \in DOMAIN rows : SoundField(cases, rows[i], m)
  BY DEF SoundMessage
<1>2. Rows(rows, cases) /\ \A c, d \in cases : c.at = d.at => c = d
  BY TypeFact, Zenon
<1>3. N \in Nat /\ DOMAIN rows = 1..N
  BY <1>2 DEF Rows
<1>4. whole = FlattenSeq(chunks)
  BY DEF Encoded
<1>5. \A i \in 1..N : Written(rows[i], m) \in Octets
  BY MessageCounted
<1>s. \A new : SoundMessage(type, new) <=>
        /\ new = [f \in Fields(cases) |-> new[f]]
        /\ \A i \in DOMAIN rows : SoundField(cases, rows[i], new)
  BY DEF SoundMessage
<1>e. \A new : Encoded(rows, new) = FlattenSeq([k \in 1..N |-> Written(rows[N + 1 - k], new)])
  BY DEF Encoded
<1>u. UnmarshalVT(cases, b) = Fill(cases, New(cases), b)
  BY DEF UnmarshalVT
<1>j. j \in 0..(Len(whole) - 1)
  OBVIOUS
<1> HIDE DEF rows, cases, N, whole
<1>6. chunks \in [1..N -> Octets]
  <2>1. \A k \in 1..N : N + 1 - k \in 1..N
    BY <1>3
  <2> QED BY <1>5, <2>1
<1>c. \A k \in 1..N : chunks[k] = Written(rows[N + 1 - k], m)
  OBVIOUS
<1> HIDE DEF chunks
<1>7. PICK k \in 1..N : \E i \in 0..(Len(chunks[k]) - 1) :
          b = FlattenSeq(Leading(chunks, k - 1)) \o Cut(chunks[k], i)
  <2>1. j \in 0..(Len(FlattenSeq(chunks)) - 1)
    BY <1>4, <1>j
  <2> QED BY <1>3, <1>4, <1>6, <2>1, FlattenCut
<1>8. PICK i \in 0..(Len(chunks[k]) - 1) : b = FlattenSeq(Leading(chunks, k - 1)) \o Cut(chunks[k], i)
  BY <1>7
<1> HIDE DEF b
<1> DEFINE row == rows[N + 1 - k]
           f == row.field
           p == Partial(rows, cases, m, k - 1)
           first == FlattenSeq(Leading(chunks, k - 1))
           piece == Cut(chunks[k], i)
<1>9. chunks[k] = Written(row, m) /\ row \in {rows[x] : x \in DOMAIN rows}
  BY <1>3, <1>c
<1>10. f \in Fields(cases) /\ Blank(p, cases) /\ p[f] = <<>>
  BY <1>1, <1>2, PartialFact DEF N
<1>11. Carries(cases, New(cases), first, p)
  <2> DEFINE a == Leading(chunks, k - 1)
             msgs == [x \in 0..N |-> Partial(rows, cases, m, x)]
             q == k - 1
  <2>1. a = [x \in 1..q |-> a[x]] /\ DOMAIN a = 1..q /\ q \in Nat /\ q \in 0..N
    BY <1>3 DEF Leading
  <2>2. ASSUME NEW x \in 1..q PROVE Carries(cases, msgs[x - 1], a[x], msgs[x])
    <3> DEFINE w == rows[N + 1 - x]
               before == Partial(rows, cases, m, x - 1)
    <3>1. x \in 1..N /\ a[x] = Written(w, m) /\ N + 1 - x \in DOMAIN rows /\ x \in 0..N /\ x - 1 \in 0..N
      BY <1>3, <1>c, <2>1 DEF Leading
    <3>2. /\ w.field \in Fields(cases) /\ Blank(before, cases) /\ before[w.field] = <<>>
          /\ Partial(rows, cases, m, x) = With(before, w.field, m[w.field])
      BY <1>1, <1>2, <3>1, PartialFact DEF N
    <3>3. msgs[x - 1] = before /\ msgs[x] = With(before, w.field, m[w.field])
      BY <3>1, <3>2
    <3>4. SoundField(cases, w, m)
      BY <1>1, <3>1
    <3> HIDE DEF before, w, msgs, a
    <3>5. Carries(cases, before, Written(w, m), With(before, w.field, m[w.field]))
      BY <1>2, <3>2, <3>4, FieldCarries
    <3> QED BY <3>1, <3>3, <3>5
  <2>3. msgs[0] = New(cases) /\ msgs[q] = p
    <3>1. 0 \in 0..N
      BY <1>3
    <3>2. Partial(rows, cases, m, 0) = New(cases)
      BY <1>1, <1>2, PartialFact
    <3> QED BY <2>1, <3>1, <3>2
  <2> HIDE DEF a, q, msgs, p
  <2>4. Carries(cases, msgs[0], FlattenSeq(a), msgs[q])
    BY <2>1, <2>2, CarriesAll
  <2> QED BY <2>3, <2>4 DEF a, q
<1>12. piece \in Octets /\ first \in Octets
  <2>1. chunks[k] \in Seq(Byte) /\ i \in 0..Len(chunks[k]) /\ k - 1 \in 0..N
    <3> DEFINE w == chunks[k]
    <3>1. w \in Seq(Byte)
      BY <1>6 DEF Octets
    <3>2. i \in 0..(Len(w) - 1)
      OBVIOUS
    <3> HIDE DEF w
    <3>3. Len(w) \in Nat
      BY <3>1
    <3>4. i \in 0..Len(w)
      BY <3>2, <3>3
    <3> QED BY <1>3, <3>1, <3>4 DEF w
  <2>2. piece \in Seq(Byte)
    BY <2>1, CutFact
  <2> QED BY <1>3, <1>6, <2>1, <2>2, LeadingFact DEF Octets
<1>13. Shorter(cases, row, m, p, i)
  <2>1. DOMAIN m = Fields(cases) /\ m = [g \in DOMAIN m |-> m[g]]
    BY <1>1
  <2>2. SoundField(cases, row, m)
    BY <1>1, <1>9
  <2>3. i \in 0..(Len(Written(row, m)) - 1)
    BY <1>9
  <2> HIDE DEF row, p
  <2> QED BY <1>2, <1>10, <2>1, <2>2, <2>3, FieldShorter
<1>14. ASSUME Fill(cases, p, piece) = <<>> PROVE UnmarshalVT(cases, b) = <<>>
  <2> HIDE DEF first, piece, p
  <2>1. Fill(cases, New(cases), first \o piece) = Fill(cases, p, piece)
    BY <1>11, <1>12 DEF Carries
  <2> QED BY <1>8, <1>14, <1>u, <2>1 DEF first, piece
<1>15. ASSUME NEW v, SoundField(cases, row, With(m, f, v)), Written(row, With(m, f, v)) = piece
       PROVE  \E new : SoundMessage(type, new) /\ Encoded(rows, new) = b
  <2> DEFINE new == With(p, f, v)
             them == [l \in 1..N |-> Written(rows[N + 1 - l], new)]
  <2>1. /\ DOMAIN new = Fields(cases) /\ new[f] = v /\ With(m, f, v)[f] = v
        /\ new = [g \in Fields(cases) |-> new[g]]
        /\ \A g \in Fields(cases) : g # f => new[g] = p[g]
    <3>1. p = [g \in DOMAIN p |-> p[g]] /\ DOMAIN p = Fields(cases) /\ f \in DOMAIN p
      BY <1>10 DEF Blank
    <3>2. m = [g \in DOMAIN m |-> m[g]] /\ f \in DOMAIN m
      BY <1>1, <1>10
    <3> HIDE DEF f, p
    <3>3. With(p, f, v) = [g \in DOMAIN p |-> IF g = f THEN v ELSE p[g]]
      BY <3>1, WithFact
    <3>4. With(m, f, v)[f] = v
      BY <3>2, WithHas
    <3> QED BY <3>1, <3>3, <3>4
  <2>2. ASSUME NEW l \in 1..N
        PROVE  /\ SoundField(cases, rows[N + 1 - l], new)
               /\ l < k => Written(rows[N + 1 - l], new) = chunks[l]
               /\ l = k => Written(rows[N + 1 - l], new) = piece
               /\ l > k => Written(rows[N + 1 - l], new) = <<>>
    <3> DEFINE w == rows[N + 1 - l]
               g == w.field
    <3>1. /\ N + 1 - l \in DOMAIN rows /\ g \in Fields(cases)
          /\ p[g] = (IF l < k THEN m[g] ELSE <<>>)
          /\ l # k => g # f
      <4> DEFINE x == Len(rows) + 1 - l
                 y == Len(rows) + 1 - k
      <4>1. k \in 1..Len(rows) /\ l \in 1..Len(rows)
        BY DEF N
      <4>2. x = Len(rows) + 1 - l /\ y = Len(rows) + 1 - k
        OBVIOUS
      <4>4. Rows(rows, cases)
        BY <1>2
      <4> HIDE DEF x, y
      <4>3. /\ x \in DOMAIN rows /\ rows[x].field \in Fields(cases)
            /\ Partial(rows, cases, m, k - 1)[rows[x].field] = (IF l < k THEN m[rows[x].field] ELSE <<>>)
            /\ l # k => rows[x].field # rows[y].field
        <5> QED BY ONLY <4>1, <4>2, <4>4, PartialHas, SMTT(30)
      <4> QED BY <4>3 DEF N, x, y
    <3>2. SoundField(cases, w, m)
      BY <1>1, <3>1
    <3>3. CASE l < k
      <4>1. new[g] = m[g]
        BY <1>3, <2>1, <3>1, <3>3
      <4> HIDE DEF new, w, p
      <4>2. SoundField(cases, w, new) /\ Written(w, new) = Written(w, m)
        BY <3>2, <4>1, FieldOnly
      <4>3. Written(w, m) = chunks[l]
        BY <1>c DEF w
      <4> QED BY <1>3, <3>3, <4>2, <4>3 DEF w
    <3>4. CASE l = k
      <4>1. w = row /\ new[f] = With(m, f, v)[f]
        BY <2>1, <3>4
      <4> DEFINE old == With(m, f, v)
      <4> HIDE DEF new, p, w, row, old
      <4>2. new[row.field] = old[row.field]
        BY <4>1 DEF old
      <4>3. SoundField(cases, row, new) /\ Written(row, new) = Written(row, old)
        BY <1>15, <4>2, FieldOnly DEF old
      <4>4. Written(row, old) = piece
        BY <1>15 DEF old
      <4> QED BY <1>3, <3>4, <4>1, <4>3, <4>4 DEF w
    <3>5. CASE l > k
      <4>1. new[g] = <<>>
        BY <1>3, <2>1, <3>1, <3>5
      <4> HIDE DEF new, w, p
      <4>2. SoundField(cases, w, new) /\ Written(w, new) = <<>>
        BY <3>2, <4>1, FieldNothing
      <4> QED BY <1>3, <3>5, <4>2 DEF w
    <3> QED BY <1>3, <3>3, <3>4, <3>5
  <2>3. \A x \in DOMAIN rows : N + 1 - x \in 1..N /\ N + 1 - (N + 1 - x) = x
    BY <1>3
  <2> HIDE DEF new, piece, first, p, row
  <2>4. \A x \in DOMAIN rows : SoundField(cases, rows[x], new)
    <3> TAKE x \in DOMAIN rows
    <3>1. SoundField(cases, rows[N + 1 - (N + 1 - x)], new)
      BY <2>2, <2>3
    <3> QED BY <2>3, <3>1
  <2>5. SoundMessage(type, new)
    BY <1>s, <2>1, <2>4
  <2>6. /\ \A l \in 1..(k-1) : them[l] = chunks[l] /\ l \in 1..N
        /\ them[k] = piece
        /\ \A l \in (k+1)..N : them[l] = <<>> /\ l \in 1..N
    <3>1. /\ \A l \in 1..(k-1) : l \in 1..N /\ l < k
          /\ \A l \in (k+1)..N : l \in 1..N /\ l > k
      BY <1>3
    <3> QED BY <2>2, <3>1
  <2>7. them \in [1..N -> Octets]
    <3>1. <<>> \in Octets
      BY DEF Octets
    <3>2. ASSUME NEW l \in 1..N PROVE them[l] \in Octets
      <4>1. l < k \/ l = k \/ l > k
        BY <1>3
      <4>2. them[l] = chunks[l] \/ them[l] = piece \/ them[l] = <<>>
        BY <2>2, <4>1
      <4> HIDE DEF them
      <4> QED BY <1>6, <1>12, <3>1, <4>2
    <3> QED BY <3>2
  <2>e. Encoded(rows, new) = FlattenSeq(them)
    BY <1>e
  <2> HIDE DEF them
  <2>8. FlattenSeq(them) = FlattenSeq(Leading(chunks, k - 1)) \o them[k]
    <3>1. \A l \in 1..(k-1) : them[l] = chunks[l]
      BY <2>6
    <3>2. \A l \in (k+1)..N : them[l] = <<>>
      BY <2>6
    <3>3. N \in Nat /\ k \in 1..N /\ chunks \in [1..N -> Octets]
      BY <1>3, <1>6
    <3> HIDE DEF N, chunks
    <3> QED BY ONLY <2>7, <3>1, <3>2, <3>3, FlattenPadded
  <2>9. Encoded(rows, new) = b
    BY <1>8, <2>6, <2>8, <2>e DEF piece
  <2> QED BY <2>5, <2>9
<1>16. \/ Fill(cases, p, piece) = <<>>
       \/ \E v : SoundField(cases, row, With(m, f, v)) /\ Written(row, With(m, f, v)) = piece
  BY <1>9, <1>13 DEF Shorter
<1> HIDE DEF f, p, row, piece
<1>17. \/ UnmarshalVT(cases, b) = <<>>
       \/ \E new : SoundMessage(type, new) /\ Encoded(rows, new) = b
  BY <1>14, <1>15, <1>16
<1> QED BY <1>17 DEF rows, cases, whole, b

\* A message that has lost its end is refused, or is the encoding of what is
\* made of it.
THEOREM MessageCut ==
    ASSUME NEW g \in Messages, NEW n \in 0..(Len(Encoded(Marshals[g.type], g.value)) - 1)
    PROVE  LET b == Cut(Encoded(Marshals[g.type], g.value), n)
               m == UnmarshalVT(Unmarshals[g.type], b)
           IN  m = <<>> \/ MarshalVT(Marshals[g.type], Sizes[g.type], m[1]) = <<b>>
<1> DEFINE type == g.type
           b == Cut(Encoded(Marshals[type], g.value), n)
<1>1. g = [type |-> type, value |-> g.value] /\ type \in DOMAIN Unmarshals
  BY MessageAssumption
<1>2. SoundMessage(type, g.value)
  BY <1>1, AllReturn
<1>3. n \in 0..(Len(Encoded(Marshals[type], g.value)) - 1)
  OBVIOUS
<1>4. \/ UnmarshalVT(Unmarshals[type], b) = <<>>
      \/ \E new : SoundMessage(type, new) /\ Encoded(Marshals[type], new) = b
  <2> HIDE DEF type
  <2> QED BY <1>1, <1>2, <1>3, MessageShorter
<1> HIDE DEF type, b
<1>5. ASSUME NEW new, SoundMessage(type, new), Encoded(Marshals[type], new) = b
      PROVE  UnmarshalVT(Unmarshals[type], b) = <<new>> /\ MarshalVT(Marshals[type], Sizes[type], new) = <<b>>
  BY <1>1, <1>5, EncodeRead
<1>6. \/ UnmarshalVT(Unmarshals[type], b) = <<>>
      \/ \E new : /\ UnmarshalVT(Unmarshals[type], b) = <<new>>
                  /\ MarshalVT(Marshals[type], Sizes[type], new) = <<b>>
  BY <1>4, <1>5
<1> QED BY <1>6 DEF type, b
===============================================================================
