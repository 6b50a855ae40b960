--------------------------- MODULE FakeServer_proofs ---------------------------
(***************************************************************************)
(* While no handlers overlap, the fake server records every request and    *)
(* hands out its script in order, for any callers, programs, scripts and   *)
(* numbers of attempts.  The slice and the counter say how many handlers   *)
(* have passed them; what a handler has loaded is still true when it       *)
(* stores, because no other one is between its load and its last store.    *)
(*                                                                         *)
(* Whether they overlap or not, what is recorded comes from the calls of   *)
(* the program, and is what the operations and their options make of them: *)
(* WithPrefix is exact for keys of every length and bytes of every size,   *)
(* and for every list of options the recorded request is what the caller   *)
(* meant.                                                                  *)
(***************************************************************************)
EXTENDS FakeServer, TLAPS, WellFoundedInduction, FiniteSetTheorems

-------------------------------------------------------------------------------
(* Operations and options *)

KeySeqs == Seq(0..MaxByte)

\* Every non-empty set of naturals has a least member.
LEMMA LeastNatural ==
    ASSUME NEW T \in SUBSET Nat, T # {}
    PROVE  \E m \in T : \A n \in T : m <= n
<1>1. PICK m \in T : \A n \in T : ~ (<<n, m>> \in OpToRel(<, Nat))
  BY WFMin, NatLessThanWellFounded
<1>2. \A n \in T : ~ (n < m)
  BY <1>1 DEF OpToRel
<1> QED BY <1>2

\* The byte that getPrefix increments exists unless all are the largest one.
LEMMA LastBelowMaxFact ==
    ASSUME NEW key \in KeySeqs, ~ \A i \in DOMAIN key : key[i] = MaxByte
    PROVE  /\ LastBelowMax(key) \in DOMAIN key
           /\ key[LastBelowMax(key)] < MaxByte
           /\ \A j \in (LastBelowMax(key) + 1)..Len(key) : key[j] = MaxByte
<1> DEFINE T == {Len(key) - i : i \in {j \in DOMAIN key : key[j] < MaxByte}}
<1>1. /\ DOMAIN key = 1..Len(key)
      /\ Len(key) \in Nat
      /\ \A i \in DOMAIN key : key[i] \in 0..MaxByte
      /\ MaxByte \in Nat
  BY KeyAssumption DEF KeySeqs
<1>2. T \in SUBSET Nat /\ T # {}
  BY <1>1
<1>3. PICK m \in T : \A n \in T : m <= n
  BY <1>2, LeastNatural
<1>4. PICK i \in DOMAIN key : key[i] < MaxByte /\ m = Len(key) - i
  BY <1>3
<1>5. \A j \in (i+1)..Len(key) : key[j] = MaxByte
  <2> TAKE j \in (i+1)..Len(key)
  <2>1. j \in DOMAIN key /\ Len(key) - j < m
    BY <1>1, <1>4
  <2>2. ~ (key[j] < MaxByte)
    <3> SUFFICES ASSUME key[j] < MaxByte PROVE FALSE
      OBVIOUS
    <3>1. Len(key) - j \in T
      BY <2>1
    <3>2. m <= Len(key) - j
      BY <1>3, <3>1
    <3> QED BY <1>1, <1>2, <2>1, <3>2
  <2> QED BY <1>1, <2>1, <2>2
<1> QED BY <1>4, <1>5 DEF LastBelowMax

\* A key that is not before another one, and does not start with it, is greater
\* at their first difference.
LEMMA FirstDifference ==
    ASSUME NEW a \in KeySeqs, NEW b \in KeySeqs,
           ~ KeyLess(a, b), ~ IsPrefix(b, a)
    PROVE  \E d \in DOMAIN a \cap DOMAIN b :
              /\ a[d] > b[d]
              /\ \A j \in 1..(d-1) : a[j] = b[j]
<1> DEFINE D == {i \in DOMAIN b : i \in DOMAIN a => a[i] # b[i]}
<1>1. /\ DOMAIN a = 1..Len(a) /\ DOMAIN b = 1..Len(b)
      /\ Len(a) \in Nat /\ Len(b) \in Nat
      /\ \A i \in DOMAIN a : a[i] \in 0..MaxByte
      /\ \A i \in DOMAIN b : b[i] \in 0..MaxByte
      /\ MaxByte \in Nat
  BY KeyAssumption DEF KeySeqs
<1>2. D # {}
  <2> SUFFICES ASSUME D = {} PROVE FALSE
    OBVIOUS
  <2>1. \A i \in DOMAIN b : i \in DOMAIN a /\ a[i] = b[i]
    OBVIOUS
  <2>2. Len(b) <= Len(a)
    <3>1. CASE Len(b) = 0
      BY <1>1, <3>1
    <3>2. CASE Len(b) # 0
      <4>1. Len(b) \in DOMAIN b
        BY <1>1, <3>2
      <4> QED BY <1>1, <2>1, <4>1
    <3> QED BY <3>1, <3>2
  <2>3. SubSeq(b, 1, Len(b)) = SubSeq(a, 1, Len(b))
    BY <1>1, <2>1, <2>2 DEF KeySeqs
  <2> QED BY <2>2, <2>3 DEF IsPrefix
<1>3. PICK d \in D : \A i \in D : d <= i
  <2>1. D \in SUBSET Nat
    BY <1>1
  <2> QED BY <1>2, <2>1, LeastNatural
<1>4. \A j \in 1..(d-1) : j \in DOMAIN a /\ a[j] = b[j]
  <2> TAKE j \in 1..(d-1)
  <2>1. j \in DOMAIN b /\ ~ (d <= j)
    BY <1>1
  <2>2. j \notin D
    BY <1>3, <2>1
  <2> QED BY <2>1, <2>2
<1>5. d - 1 <= Len(a)
  <2>1. CASE d = 1
    BY <1>1, <2>1
  <2>2. CASE d # 1
    <3>1. d - 1 \in 1..(d-1)
      BY <1>1, <2>2
    <3> QED BY <1>1, <1>4, <3>1
  <2> QED BY <2>1, <2>2
<1>6. d \in DOMAIN a /\ ~ (a[d] < b[d])
  BY <1>1, <1>4, <1>5 DEF KeyLess
<1> QED BY <1>1, <1>4, <1>6

\* The range of a prefix: up to the byte that getPrefix increments, a key of the
\* range cannot differ; after it, the prefix has only the largest byte.
LEMMA PrefixRange ==
    ASSUME NEW key \in KeySeqs, NEW k \in KeySeqs, key # <<>>
    PROVE  (~ KeyLess(k, key) /\ (getPrefix(key) = noPrefixEnd \/ KeyLess(k, getPrefix(key))))
             <=> IsPrefix(key, k)
<1>1. /\ DOMAIN key = 1..Len(key) /\ DOMAIN k = 1..Len(k)
      /\ Len(key) \in Nat \ {0} /\ Len(k) \in Nat
      /\ \A i \in DOMAIN key : key[i] \in 0..MaxByte
      /\ \A i \in DOMAIN k : k[i] \in 0..MaxByte
      /\ MaxByte \in Nat
  BY KeyAssumption DEF KeySeqs
<1>2. ASSUME IsPrefix(key, k)
      PROVE  /\ Len(key) <= Len(k)
             /\ \A i \in DOMAIN key : k[i] = key[i]
             /\ ~ KeyLess(k, key)
  <2>1. Len(key) <= Len(k) /\ SubSeq(key, 1, Len(key)) = SubSeq(k, 1, Len(key))
    BY <1>2 DEF IsPrefix
  <2>2. \A i \in DOMAIN key : k[i] = key[i]
    <3> TAKE i \in DOMAIN key
    <3>1. SubSeq(key, 1, Len(key))[i] = key[i] /\ SubSeq(k, 1, Len(key))[i] = k[i]
      BY <1>1, <2>1 DEF KeySeqs
    <3> QED BY <2>1, <3>1
  <2> QED BY <1>1, <2>1, <2>2 DEF KeyLess
<1>3. CASE \A i \in DOMAIN key : key[i] = MaxByte
  <2>1. getPrefix(key) = noPrefixEnd
    BY <1>3 DEF getPrefix
  <2>2. ASSUME ~ KeyLess(k, key) PROVE IsPrefix(key, k)
    <3> SUFFICES ASSUME ~ IsPrefix(key, k) PROVE FALSE
      OBVIOUS
    <3>1. PICK d \in DOMAIN k \cap DOMAIN key : k[d] > key[d]
      BY <2>2, FirstDifference
    <3> QED BY <1>1, <1>3, <3>1
  <2> QED BY <1>2, <2>1, <2>2
<1>4. CASE ~ \A i \in DOMAIN key : key[i] = MaxByte
  <2> DEFINE last == LastBelowMax(key)
             end == getPrefix(key)
  <2>1. /\ last \in DOMAIN key /\ key[last] < MaxByte
        /\ \A j \in (last+1)..Len(key) : key[j] = MaxByte
    BY <1>4, LastBelowMaxFact
  <2>2. end = [i \in 1..last |-> IF i = last THEN key[i] + 1 ELSE key[i]]
    BY <1>4 DEF getPrefix
  <2> HIDE DEF last, end
  <2>3. /\ DOMAIN end = 1..last /\ Len(end) = last
        /\ end[last] = key[last] + 1
        /\ \A i \in 1..(last-1) : end[i] = key[i]
    BY <1>1, <2>1, <2>2
  <2>4. end # noPrefixEnd
    <3>1. end[1] # 0 \/ last # 1
      BY <1>1, <2>1, <2>3
    <3>2. ASSUME end = noPrefixEnd PROVE Len(end) = 1 /\ end[1] = 0
      BY <3>2 DEF noPrefixEnd
    <3> QED BY <2>3, <3>1, <3>2
  <2>5. ASSUME IsPrefix(key, k) PROVE KeyLess(k, end)
    <3>1. /\ last \in 1..Len(end) /\ last - 1 <= Len(k)
          /\ \A j \in 1..(last-1) : k[j] = end[j]
          /\ k[last] < end[last]
      BY <1>1, <1>2, <2>1, <2>3, <2>5
    <3> QED BY <3>1 DEF KeyLess
  <2>6. ASSUME ~ KeyLess(k, key), KeyLess(k, end) PROVE IsPrefix(key, k)
    <3> SUFFICES ASSUME ~ IsPrefix(key, k) PROVE FALSE
      OBVIOUS
    <3>1. PICK d \in DOMAIN k \cap DOMAIN key :
             k[d] > key[d] /\ \A j \in 1..(d-1) : k[j] = key[j]
      BY <2>6, FirstDifference
    <3>2. PICK i \in 1..last :
             /\ i - 1 <= Len(k)
             /\ \A j \in 1..(i-1) : k[j] = end[j]
             /\ i \in DOMAIN k => k[i] < end[i]
      BY <2>3, <2>6 DEF KeyLess
    <3>3. d <= last
      BY <1>1, <2>1, <3>1
    <3>4. CASE i < d
      <4>1. i \in 1..(d-1) /\ i \in DOMAIN k /\ i \in 1..(last-1)
        BY <1>1, <2>1, <3>1, <3>3, <3>4
      <4>2. k[i] = key[i] /\ end[i] = key[i] /\ k[i] < end[i]
        BY <2>3, <3>1, <3>2, <4>1
      <4> QED BY <1>1, <4>1, <4>2
    <3>5. CASE d < i
      BY <1>1, <2>1, <2>3, <3>1, <3>2, <3>5
    <3>6. CASE i = d
      <4>1. k[d] < end[d] /\ k[d] > key[d] /\ k[d] \in Int /\ key[d] \in Int
        BY <1>1, <3>1, <3>2, <3>6
      <4>2. end[d] = key[d] \/ end[d] = key[d] + 1
        BY <1>1, <2>1, <2>3, <3>3, <3>6
      <4> QED BY <4>1, <4>2
    <3> QED BY <1>1, <2>1, <3>1, <3>2, <3>4, <3>5, <3>6
  <2> QED BY <1>2, <2>4, <2>5, <2>6 DEF end
<1> QED BY <1>3, <1>4

\* getPrefix with WithPrefix (op.go:305-332): for keys of any length over any
\* number of byte values, Get, Iterate and Delete with a prefix are about the keys
\* that start with it and no other, and with the empty prefix about all keys.
THEOREM PrefixIsExact ==
    ASSUME NEW key \in Keys \ {<<>>}, NEW k \in Keys \ {<<>>}
    PROVE  /\ InRange(k, WithPrefix(OpOf("range", key, ""))) <=> IsPrefix(key, k)
           /\ InRange(k, WithPrefix(OpOf("range", <<>>, "")))
<1>1. key \in KeySeqs /\ k \in KeySeqs /\ MaxByte \in Nat \ {0}
  BY KeyAssumption DEF KeySeqs
<1>2. InRange(k, WithPrefix(OpOf("range", key, ""))) <=> IsPrefix(key, k)
  <2> DEFINE op == WithPrefix(OpOf("range", key, ""))
  <2>1. op.key = key /\ op.end = {getPrefix(key)}
    BY DEF WithPrefix, OpOf
  <2> HIDE DEF op
  <2>2. InRange(k, op) <=>
          ~ KeyLess(k, key) /\ (getPrefix(key) = noPrefixEnd \/ KeyLess(k, getPrefix(key)))
    BY <2>1 DEF InRange
  <2> QED BY <1>1, <2>2, PrefixRange DEF op
<1>3. InRange(k, WithPrefix(OpOf("range", <<>>, "")))
  <2> DEFINE op == WithPrefix(OpOf("range", <<>>, ""))
  <2>1. op.key = <<0>> /\ op.end = {<<0>>}
    BY DEF WithPrefix, OpOf
  <2> HIDE DEF op
  <2>2. Len(k) \in Nat \ {0} /\ k[1] \in 0..MaxByte
    BY <1>1 DEF KeySeqs
  <2>3. ~ KeyLess(k, <<0>>)
    BY <1>1, <2>2 DEF KeyLess, KeySeqs
  <2> QED BY <2>1, <2>3 DEF InRange, noPrefixEnd, op
<1> QED BY <1>2, <1>3

-------------------------------------------------------------------------------
(* Options *)

\* What the library's fold of ApplyOpt is defined by, for the first n options.
IsFold(iter, base, opts, n) ==
    iter = [s \in SUBSET (1..n) |->
              IF s = {} THEN base ELSE ApplyOpt(iter[s \ {Max(s)}], opts[Max(s)])]

\* The largest member of a set of positions.
LEMMA MaxFact ==
    ASSUME NEW n \in Nat, NEW s \in SUBSET (1..n), s # {}
    PROVE  Max(s) \in s /\ \A y \in s : Max(s) >= y
<1> DEFINE T == {n - i : i \in s}
<1>1. \A i \in s : i \in 1..n
  OBVIOUS
<1>2. T \in SUBSET Nat /\ T # {}
  <2>1. \A i \in s : n - i \in Nat
    BY <1>1
  <2> QED BY <2>1
<1>3. PICK m \in T : \A k \in T : m <= k
  BY <1>2, LeastNatural
<1>4. PICK x \in s : m = n - x
  BY <1>3
<1>5. \A y \in s : x >= y
  <2> TAKE y \in s
  <2>1. n - y \in T
    OBVIOUS
  <2>2. m <= n - y
    BY <1>3, <2>1
  <2> HIDE DEF T
  <2> QED BY <1>1, <1>4, <2>2
<1> QED BY <1>4, <1>5 DEF Max

\* A list of options is applied by the library's fold.
LEMMA FoldUnfolds ==
    ASSUME NEW base, NEW n, NEW opts, DOMAIN opts = 1..n
    PROVE applyOpts(base, opts) = (CHOOSE iter : IsFold(iter, base, opts, n))[1..n]
BY DEF applyOpts, FoldLeft, MapThenFoldSet, IsFold

\* The fold's equation has a solution: one for n - 1 options is extended to the
\* sets that hold n.
LEMMA FoldExists ==
    ASSUME NEW base, NEW opts, NEW n \in Nat
    PROVE  \E iter : IsFold(iter, base, opts, n)
<1> DEFINE T == {m \in Nat : ~ \E iter : IsFold(iter, base, opts, m)}
<1> SUFFICES ASSUME T # {} PROVE FALSE
  OBVIOUS
<1>1. PICK m \in T : \A k \in T : m <= k
  BY LeastNatural
<1>2. CASE m = 0
  <2>1. SUBSET (1..0) = {{}}
    OBVIOUS
  <2>2. IsFold([s \in SUBSET (1..0) |-> base], base, opts, 0)
    BY <2>1 DEF IsFold
  <2> QED BY <1>2, <2>2
<1>3. CASE m # 0
  <2>1. m - 1 \in Nat /\ m - 1 \notin T
    BY <1>1, <1>3
  <2>2. PICK old : IsFold(old, base, opts, m - 1)
    BY <2>1
  <2> DEFINE Step(s) == IF s = {} THEN base ELSE ApplyOpt(old[s \ {Max(s)}], opts[Max(s)])
             new == [s \in SUBSET (1..m) |-> Step(s)]
  <2>3. \A s \in SUBSET (1..m) : s # {} => s \ {Max(s)} \in SUBSET (1..(m-1))
    <3> TAKE s \in SUBSET (1..m)
    <3> HAVE s # {}
    <3>1. Max(s) \in s /\ \A y \in s : Max(s) >= y
      BY MaxFact
    <3>2. \A y \in s : y \in 1..m
      OBVIOUS
    <3>3. \A y \in s \ {Max(s)} : y \in 1..(m-1)
      <4> TAKE y \in s \ {Max(s)}
      <4>1. y \in 1..m /\ Max(s) \in 1..m /\ Max(s) >= y /\ y # Max(s)
        BY <3>1, <3>2
      <4> QED BY <2>1, <4>1
    <3> QED BY <3>3
  <2>4. \A s \in SUBSET (1..(m-1)) : s \in SUBSET (1..m)
    BY <2>1
  <2>5. \A s \in SUBSET (1..(m-1)) : old[s] = Step(s)
    BY <2>2 DEF IsFold
  <2>6. \A s \in SUBSET (1..(m-1)) : new[s] = old[s]
    BY <2>4, <2>5
  <2>7. \A s \in SUBSET (1..m) : s # {} => new[s \ {Max(s)}] = old[s \ {Max(s)}]
    BY <2>3, <2>6
  <2>8. new = [s \in SUBSET (1..m) |->
                IF s = {} THEN base ELSE ApplyOpt(new[s \ {Max(s)}], opts[Max(s)])]
    BY <2>7
  <2> QED BY <2>8 DEF IsFold
<1> QED BY <1>2, <1>3

\* The fold over a list of options, as the values of op before and after each.
LEMMA FoldApplies ==
    ASSUME NEW base, NEW opts, NEW n \in Nat, DOMAIN opts = 1..n
    PROVE  \E op : /\ DOMAIN op = 0..n
                   /\ op[0] = base
                   /\ \A i \in 1..n : op[i] = ApplyOpt(op[i-1], opts[i])
                   /\ op[n] = applyOpts(base, opts)
<1> DEFINE iter == CHOOSE it : IsFold(it, base, opts, n)
           op == [i \in 0..n |-> iter[1..i]]
<1>1. IsFold(iter, base, opts, n)
  BY FoldExists
<1>2. applyOpts(base, opts) = iter[1..n]
  BY FoldUnfolds
<1> HIDE DEF iter
<1>3. op[0] = base
  <2>1. 1..0 = {} /\ {} \in SUBSET (1..n)
    OBVIOUS
  <2> QED BY <1>1, <2>1 DEF IsFold
<1>4. ASSUME NEW i \in 1..n PROVE op[i] = ApplyOpt(op[i-1], opts[i])
  <2>1. /\ i \in Nat /\ i - 1 \in 0..n /\ i \in 0..n
        /\ 1..i \in SUBSET (1..n) /\ 1..i # {} /\ 1..i \in SUBSET (1..i)
    OBVIOUS
  <2>2. Max(1..i) = i
    <3>1. Max(1..i) \in 1..i /\ \A y \in 1..i : Max(1..i) >= y
      BY <2>1, MaxFact
    <3>2. i \in 1..i
      BY <2>1
    <3> QED BY <3>1, <3>2
  <2>3. (1..i) \ {i} = 1..(i-1)
    BY <2>1
  <2>4. iter[1..i] = ApplyOpt(iter[1..(i-1)], opts[i])
    BY <1>1, <2>1, <2>2, <2>3 DEF IsFold
  <2> QED BY <2>1, <2>4
<1>5. DOMAIN op = 0..n /\ op[n] = applyOpts(base, opts)
  BY <1>2
<1> HIDE DEF op
<1> QED BY <1>3, <1>4, <1>5

\* What holds of op before, between and after the options.
Made(op, t, val) ==
    /\ op = [t |-> t, key |-> op.key, end |-> op.end, val |-> val, set |-> op.set,
             prefix |-> op.prefix, fromKey |-> op.fromKey]
    /\ op.end = {} \/ \E end : op.end = {end}
    /\ op.set \subseteq Flags

\* One option at a time.
LEMMA OptionKeepsMade ==
    ASSUME NEW t, NEW val, NEW op, Made(op, t, val), NEW opt \in Options
    PROVE  Made(ApplyOpt(op, opt), t, val)
<1> DEFINE r == ApplyOpt(op, opt)
<1>1. op = [t |-> t, key |-> op.key, end |-> op.end, val |-> val, set |-> op.set,
            prefix |-> op.prefix, fromKey |-> op.fromKey]
  BY DEF Made
<1>2. PICK key, end, set, prefix, fromKey :
        op = [t |-> t, key |-> key, end |-> end, val |-> val, set |-> set,
              prefix |-> prefix, fromKey |-> fromKey]
  BY <1>1
<1>3. /\ set \subseteq Flags
      /\ end = {} \/ \E e : end = {e}
  BY <1>2 DEF Made
<1>4. CASE opt = <<"prefix">>
  <2>1. r = WithPrefix(op)
    BY <1>4 DEF ApplyOpt, Flags
  <2>2. CASE op.key = <<>>
    <3>1. r = [t |-> t, key |-> <<0>>, end |-> {<<0>>}, val |-> val, set |-> set,
              prefix |-> TRUE, fromKey |-> fromKey]
      BY <1>2, <2>1, <2>2 DEF WithPrefix
    <3> QED BY <1>3, <3>1 DEF Made
  <2>3. CASE op.key # <<>>
    <3>1. r = [t |-> t, key |-> key, end |-> {getPrefix(key)}, val |-> val, set |-> set,
              prefix |-> TRUE, fromKey |-> fromKey]
      BY <1>2, <2>1, <2>3 DEF WithPrefix
    <3> QED BY <1>3, <3>1 DEF Made
  <2> QED BY <2>2, <2>3
<1>5. CASE opt = <<"fromKey">>
  <2>1. \E k : r = [t |-> t, key |-> k, end |-> {<<0>>},
                    val |-> val, set |-> set, prefix |-> prefix, fromKey |-> TRUE]
    BY <1>2, <1>5 DEF ApplyOpt, WithFromKey, Flags
  <2> QED BY <1>3, <2>1 DEF Made
<1>6. CASE opt \in {<<"range", k>> : k \in Keys}
  <2>1. PICK k : opt = <<"range", k>>
    BY <1>6
  <2>2. r = [t |-> t, key |-> key, end |-> {k},
             val |-> val, set |-> set, prefix |-> prefix, fromKey |-> fromKey]
    BY <1>2, <2>1 DEF ApplyOpt, Flags
  <2> QED BY <1>3, <2>2 DEF Made
<1>7. CASE opt = <<"noLimit">>
  <2>1. r = [t |-> t, key |-> key, end |-> end,
             val |-> val, set |-> set \ {"limit"}, prefix |-> prefix, fromKey |-> fromKey]
    BY <1>2, <1>7 DEF ApplyOpt, Flags
  <2> QED BY <1>3, <2>1 DEF Made
<1>8. ASSUME NEW f \in Flags, opt = <<f>> PROVE Made(r, t, val)
  <2>1. r = [op EXCEPT !.set = @ \cup {f}]
    BY <1>8 DEF ApplyOpt, Flags
  <2>2. r = [t |-> t, key |-> key, end |-> end,
             val |-> val, set |-> set \cup {f}, prefix |-> prefix, fromKey |-> fromKey]
    BY <1>2, <2>1
  <2> QED BY <1>3, <2>2 DEF Made
<1> QED BY <1>4, <1>5, <1>6, <1>7, <1>8 DEF Options

\* The values of op before and after each option.
Steps(op, t, val, base, opts) ==
    /\ op[0] = base
    /\ \A i \in 1..Len(opts) : op[i] = ApplyOpt(op[i-1], opts[i])
    /\ op[Len(opts)] = applyOpts(base, opts)
    /\ \A i \in 0..Len(opts) : Made(op[i], t, val)

\* Whatever the options are, what is made of them has the shape of an Op.
LEMMA OptionsMake ==
    ASSUME NEW t, NEW val, NEW base, Made(base, t, val), NEW opts \in Seq(Options)
    PROVE  \E op : Steps(op, t, val, base, opts)
<1>1. /\ Len(opts) \in Nat /\ DOMAIN opts = 1..Len(opts)
      /\ \A i \in 1..Len(opts) : opts[i] \in Options
  OBVIOUS
<1>2. PICK op : /\ op[0] = base
                /\ \A i \in 1..Len(opts) : op[i] = ApplyOpt(op[i-1], opts[i])
                /\ op[Len(opts)] = applyOpts(base, opts)
  BY ONLY <1>1, FoldApplies, ZenonT(60)
<1> DEFINE T == {i \in 0..Len(opts) : ~ Made(op[i], t, val)}
<1>3. T = {}
  <2> SUFFICES ASSUME T # {} PROVE FALSE
    OBVIOUS
  <2>1. T \in SUBSET Nat
    BY <1>1
  <2>2. PICK i \in T : \A j \in T : i <= j
    BY <2>1, LeastNatural
  <2>3. i # 0
    BY <1>2
  <2>4. i \in 1..Len(opts) /\ i - 1 \in 0..Len(opts) /\ i - 1 \notin T
    BY <1>1, <2>2, <2>3
  <2>5. Made(op[i-1], t, val)
    BY <2>4
  <2>6. Made(op[i], t, val)
    BY <1>1, <1>2, <2>4, <2>5, OptionKeepsMade
  <2> QED BY <2>6
<1> QED BY <1>2, <1>3 DEF Steps

\* What the constructors return.
LEMMA MadeIsOp ==
    ASSUME NEW call, IsSingleCall(call), NEW op \in OpsOfCall(call)
    PROVE  IsOp(op) /\ op.t = call.t
<1>1. /\ call.t \in DOMAIN Unexpected
      /\ call.t # "put" => call.val = ""
      /\ call.opts \in Seq(Options)
  BY DEF IsSingleCall
<1>2. call.t # "txn"
  BY <1>1 DEF Unexpected
<1>3. /\ op = applyOpts(OpOf(call.t, call.key, call.val), call.opts)
      /\ call.t = "put" => op.end = {}
      /\ op.set \cap Unexpected[call.t] = {}
  BY <1>2 DEF OpsOfCall, MakeOp
<1>4. Made(OpOf(call.t, call.key, call.val), call.t, call.val)
  BY DEF Made, OpOf
<1>5. Made(op, call.t, call.val)
  <2> DEFINE opts == call.opts
  <2>1. opts \in Seq(Options)
    BY <1>1
  <2> HIDE DEF opts
  <2>2. Len(opts) \in 0..Len(opts)
    BY <2>1
  <2>3. Made(applyOpts(OpOf(call.t, call.key, call.val), opts), call.t, call.val)
    BY <1>4, <2>1, <2>2, OptionsMake DEF Steps
  <2> QED BY <1>3, <2>3 DEF opts
<1>6. op.t = call.t /\ op.val = call.val
  BY <1>5 DEF Made
<1>7. op.end = {} \/ op.end = {Wire(op.end)}
  <2>1. ASSUME NEW end, op.end = {end} PROVE Wire(op.end) = end
    BY <2>1 DEF Wire
  <2> QED BY <1>5, <2>1 DEF Made
<1>8. op = [t |-> op.t, key |-> op.key, end |-> op.end, val |-> op.val, set |-> op.set,
            prefix |-> op.prefix, fromKey |-> op.fromKey]
  BY <1>5, <1>6 DEF Made
<1>9. op.set \subseteq Flags \ Unexpected[op.t]
  BY <1>3, <1>5, <1>6 DEF Made
<1> QED BY <1>1, <1>3, <1>6, <1>7, <1>8, <1>9 DEF IsOp

\* The end of a range on the wire and back.
LEMMA EndArrives ==
    ASSUME NEW end, end = {} \/ end = {Wire(end)}
    PROVE  FromWire(Wire(end)) = end \ {<<>>}
<1>1. CASE end = {}
  BY <1>1 DEF FromWire, Wire
<1>2. CASE end = {Wire(end)} /\ end # {}
  <2> DEFINE e == Wire(end)
  <2>1. end = {e}
    BY <1>2
  <2> HIDE DEF e
  <2>2. CASE e = <<>>
    <3>1. FromWire(e) = {}
      BY <2>2 DEF FromWire
    <3> QED BY <2>1, <2>2, <3>1 DEF e
  <2>3. CASE e # <<>>
    <3>1. FromWire(e) = {e}
      BY <2>3 DEF FromWire
    <3>2. {e} \ {<<>>} = {e}
      BY <2>3
    <3> QED BY <2>1, <3>1, <3>2 DEF e
  <2> QED BY <2>2, <2>3
<1> QED BY <1>1, <1>2

\* The fields that the conversions copy, and those that they leave blank.
LEMMA FieldsExpected ==
    ASSUME NEW op, IsOp(op), NEW req, NEW inTxn \in BOOLEAN,
           NEW t, t = (IF op.t = "iterate" THEN "range" ELSE op.t),
           req.key = op.key,
           t = "put" => req.val = op.val,
           t # "put" => req.end = Wire(op.end),
           req.set = op.set \ Ignored(op.t, inTxn)
    PROVE  OpFields(t, req) = ExpectedSingle(op, inTxn)
<1> DEFINE key == op.key
           end == op.end \ {<<>>}
           val == op.val
           set == op.set \ Ignored(op.t, inTxn)
           result == [t |-> t, key |-> key, end |-> end, val |-> val, set |-> set,
                      prefix |-> FALSE, fromKey |-> FALSE]
<1>1. ExpectedSingle(op, inTxn) = result
  <2>1. PICK u, k, e, v, s, p, f :
           op = [t |-> u, key |-> k, end |-> e, val |-> v, set |-> s, prefix |-> p, fromKey |-> f]
    BY DEF IsOp
  <2> DEFINE kept == s \ Ignored(u, inTxn)
  <2>2. ExpectedSingle(op, inTxn) =
          [t |-> t, key |-> k, end |-> e \ {<<>>}, val |-> v, set |-> kept,
           prefix |-> FALSE, fromKey |-> FALSE]
    <3>1. op.t = u
      BY <2>1
    <3> HIDE DEF kept
    <3>2. ExpectedSingle(op, inTxn) =
            [op EXCEPT !.t = t, !.end = e \ {<<>>}, !.set = kept,
                       !.prefix = FALSE, !.fromKey = FALSE]
      BY <2>1, <3>1 DEF ExpectedSingle, kept
    <3> QED BY <2>1, <3>2
  <2> QED BY <2>1, <2>2
<1>2. (IF t = "put" THEN req.val ELSE "") = val
  BY DEF IsOp
<1>3. (IF t = "put" THEN {} ELSE FromWire(req.end)) = end
  <2>1. CASE t = "put"
    BY <2>1 DEF IsOp
  <2>2. CASE t # "put"
    BY <2>2, EndArrives DEF IsOp
  <2> QED BY <2>1, <2>2
<1> QED BY <1>1, <1>2, <1>3 DEF OpFields

\* A single operation, sent by itself, arrives as its caller expects.
LEMMA SingleArrives ==
    ASSUME NEW op, IsOp(op)
    PROVE  Recorded(Request(op)) = ExpectedSingle(op, FALSE)
<1>1. op.t \in {"range", "iterate", "put", "delete"} /\ op.set \subseteq Flags \ Unexpected[op.t]
  BY DEF IsOp, Unexpected
<1>2. CASE op.t \in {"range", "iterate"}
  <2>1. Recorded(Request(op)) = OpFields("range", toRangeRequest(op))
    BY <1>2 DEF Recorded, Request
  <2>2. op.set \cap {"limit", "keysOnly", "countOnly", "serializable"} =
            op.set \ Ignored(op.t, FALSE)
    BY <1>1, <1>2 DEF Unexpected, Flags, Ignored
  <2> QED BY <1>2, <2>1, <2>2, FieldsExpected DEF toRangeRequest
<1>3. CASE op.t = "put"
  <2>1. Recorded(Request(op)) = OpFields("put", PutRequest(op))
    BY <1>3 DEF Recorded, Request
  <2>2. op.set \cap {"prevKV"} = op.set \ Ignored(op.t, FALSE)
    BY <1>1, <1>3 DEF Unexpected, Flags, Ignored
  <2> QED BY <1>3, <2>1, <2>2, FieldsExpected DEF PutRequest
<1>4. CASE op.t = "delete"
  <2>1. Recorded(Request(op)) = OpFields("delete", DeleteRequest(op))
    BY <1>4 DEF Recorded, Request
  <2>2. op.set \cap {"prevKV", "count"} = op.set \ Ignored(op.t, FALSE)
    BY <1>1, <1>4 DEF Unexpected, Flags, Ignored
  <2> QED BY <1>4, <2>1, <2>2, FieldsExpected DEF DeleteRequest
<1> QED BY <1>1, <1>2, <1>3, <1>4

\* The same inside of a transaction.
LEMMA OperandArrives ==
    ASSUME NEW op, IsOp(op), op.t \in {"range", "put", "delete"}
    PROVE  convToOp(toRequestOp(op)) = ExpectedSingle(op, TRUE)
<1>1. op.set \subseteq Flags \ Unexpected[op.t]
  BY DEF IsOp
<1>2. CASE op.t = "range"
  <2> DEFINE req == [key |-> op.key, end |-> Wire(op.end),
                     set |-> op.set \cap {"limit", "keysOnly", "countOnly"}]
  <2>1. convToOp(toRequestOp(op)) = OpFields("range", req)
    BY <1>2 DEF convToOp, toRequestOp
  <2>2. op.set \cap {"limit", "keysOnly", "countOnly"} = op.set \ Ignored(op.t, TRUE)
    BY <1>1, <1>2 DEF Unexpected, Flags, Ignored
  <2>3. req.key = op.key /\ req.end = Wire(op.end) /\ req.set = op.set \ Ignored(op.t, TRUE)
    BY <2>2
  <2> HIDE DEF req
  <2> QED BY <1>2, <2>1, <2>3, FieldsExpected
<1>3. CASE op.t = "put"
  <2>1. convToOp(toRequestOp(op)) = OpFields("put", PutRequest(op))
    BY <1>3 DEF convToOp, toRequestOp
  <2>2. op.set \cap {"prevKV"} = op.set \ Ignored(op.t, TRUE)
    BY <1>1, <1>3 DEF Unexpected, Flags, Ignored
  <2> QED BY <1>3, <2>1, <2>2, FieldsExpected DEF PutRequest
<1>4. CASE op.t = "delete"
  <2>1. convToOp(toRequestOp(op)) = OpFields("delete", DeleteRequest(op))
    BY <1>4 DEF convToOp, toRequestOp
  <2>2. op.set \cap {"prevKV", "count"} = op.set \ Ignored(op.t, TRUE)
    BY <1>1, <1>4 DEF Unexpected, Flags, Ignored
  <2> QED BY <1>4, <2>1, <2>2, FieldsExpected DEF DeleteRequest
<1> QED BY <1>2, <1>3, <1>4

\* KV.Do and the handlers (kv.go:334-410, op.go:117-173, fake.go:189-303): for
\* any list of options of any length, in any order, alone or in a transaction of
\* any size, what the fake server records of a call is the operation that the
\* caller made, apart from what Ignored names.
THEOREM NothingElseIgnored ==
    ASSUME NEW call, IsCall(call), NEW op \in OpsOfCall(call), Sendable(op)
    PROVE  Recorded(Request(op)) = Expected(op)
<1>1. CASE call.t = "txn"
  <2>1. /\ op = OpTxn(call.cmps, call.then, call.else)
        /\ IsTxnCall(call)
    BY <1>1 DEF OpsOfCall, IsCall
  <2>2. /\ op.t = "txn" /\ op.cmps = call.cmps
        /\ op.then = call.then /\ op.else = call.else
    BY <2>1 DEF OpTxn
  <2>3. \A ops \in {op.then, op.else} : \A i \in DOMAIN ops :
            IsOp(ops[i]) /\ ops[i].t \in {"range", "put", "delete"}
    BY <2>1, <2>2 DEF IsTxnCall, Sendable, Range
  <2>4. \A ops \in {op.then, op.else} : \A i \in DOMAIN ops :
            convToOp(toRequestOp(ops[i])) = ExpectedSingle(ops[i], TRUE)
    BY <2>3, OperandArrives
  <2> DEFINE sent(ops) == [i \in DOMAIN ops |-> toRequestOp(ops[i])]
             kept(ops) == [i \in DOMAIN sent(ops) |-> convToOp(sent(ops)[i])]
             meant(ops) == [i \in DOMAIN ops |-> ExpectedSingle(ops[i], TRUE)]
  <2>5. \A ops \in {op.then, op.else} : kept(ops) = meant(ops)
    BY <2>4
  <2>6. Recorded(Request(op)) = OpTxn(op.cmps, kept(op.then), kept(op.else))
    BY <2>2 DEF Recorded, Request, convTxnToRequest, toTxnRequest
  <2>7. Expected(op) = OpTxn(op.cmps, meant(op.then), meant(op.else))
    BY <2>2 DEF Expected
  <2> QED BY <2>5, <2>6, <2>7
<1>2. CASE call.t # "txn"
  <2>1. IsOp(op) /\ op.t # "txn"
    BY <1>2, MadeIsOp DEF IsCall, IsOp, Unexpected
  <2> QED BY <2>1, SingleArrives DEF Expected
<1> QED BY <1>1, <1>2

\* What the other options leave alone.
LEMMA OtherOptions ==
    ASSUME NEW op, NEW opt \in Options, opt[1] \notin {"prefix", "fromKey", "range"},
           NEW t, NEW val, Made(op, t, val)
    PROVE  ApplyOpt(op, opt).key = op.key /\ ApplyOpt(op, opt).end = op.end
<1>1. \/ opt = <<"noLimit">>
      \/ \E f \in Flags : opt = <<f>>
  BY DEF Options
<1>2. CASE opt = <<"noLimit">>
  <2>1. ApplyOpt(op, opt) = [op EXCEPT !.set = @ \ {"limit"}]
    BY <1>2 DEF ApplyOpt, Flags
  <2> QED BY <2>1 DEF Made
<1>3. ASSUME NEW f \in Flags, opt = <<f>>
      PROVE  ApplyOpt(op, opt).key = op.key /\ ApplyOpt(op, opt).end = op.end
  <2>1. ApplyOpt(op, opt) = [op EXCEPT !.set = @ \cup {f}]
    BY <1>3 DEF ApplyOpt, Flags
  <2> QED BY <2>1 DEF Made
<1> QED BY <1>1, <1>2, <1>3

\* A range that nothing but WithPrefix has set.
LEMMA PrefixAmongOptions ==
    ASSUME NEW call, IsSingleCall(call), AsksForPrefix(call)
    PROVE  LET op == applyOpts(OpOf(call.t, call.key, call.val), call.opts)
           IN  /\ op.key = IF call.key = <<>> THEN <<0>> ELSE call.key
               /\ op.end = {IF call.key = <<>> THEN <<0>> ELSE getPrefix(call.key)}
<1> DEFINE opts == call.opts
           n == Len(call.opts)
           base == OpOf(call.t, call.key, call.val)
<1>0. \A o \in Seq(Options) :
        Len(o) \in Nat /\ DOMAIN o = 1..Len(o) /\ \A j \in 1..Len(o) : o[j] \in Options
  OBVIOUS
<1>1. /\ opts \in Seq(Options) /\ n \in Nat /\ DOMAIN opts = 1..n
      /\ \A j \in 1..n : opts[j] \in Options
  BY <1>0 DEF IsSingleCall
<1>2. PICK i \in 1..n :
        /\ opts[i] = <<"prefix">>
        /\ \A j \in (1..n) \ {i} : opts[j][1] \notin {"prefix", "fromKey", "range"}
  BY <1>1 DEF AsksForPrefix
<1>3. Made(base, call.t, call.val) /\ base.key = call.key /\ base.end = {}
  BY DEF Made, OpOf
<1>4. PICK op : /\ op[0] = base
                /\ \A j \in 1..n : op[j] = ApplyOpt(op[j-1], opts[j])
                /\ op[n] = applyOpts(base, opts)
                /\ \A j \in 0..n : Made(op[j], call.t, call.val)
  <2>1. n = Len(opts) /\ opts \in Seq(Options) /\ Made(base, call.t, call.val)
    BY <1>1, <1>3
  <2> HIDE DEF opts, base, n
  <2>2. \E op : Steps(op, call.t, call.val, base, opts)
    BY <2>1, OptionsMake
  <2> QED BY <2>1, <2>2 DEF Steps
<1> DEFINE key == IF call.key = <<>> THEN <<0>> ELSE call.key
           end == {IF call.key = <<>> THEN <<0>> ELSE getPrefix(call.key)}
           Before(j) == op[j].key = call.key /\ op[j].end = {}
           After(j) == op[j].key = key /\ op[j].end = end
           T == {j \in 0..n : ~ (IF j < i THEN Before(j) ELSE After(j))}
<1> HIDE DEF opts, n, base
<1>5. ASSUME NEW j \in 1..n, j # i
      PROVE  op[j].key = op[j-1].key /\ op[j].end = op[j-1].end
  <2>1. j - 1 \in 0..n
    BY <1>1
  <2> QED BY <1>1, <1>2, <1>4, <1>5, <2>1, OtherOptions
<1>6. ASSUME Before(i-1) PROVE After(i)
  <2>1. i - 1 \in 0..n
    BY <1>1
  <2>2. op[i] = WithPrefix(op[i-1])
    <3>1. \A x : ApplyOpt(x, <<"prefix">>) = WithPrefix(x)
      BY DEF ApplyOpt, Flags
    <3>2. op[i] = ApplyOpt(op[i-1], <<"prefix">>)
      BY <1>2, <1>4
    <3> QED BY <3>1, <3>2
  <2>3. PICK e, s, p, f : op[i-1] = [t |-> call.t, key |-> call.key, end |-> e, val |-> call.val,
                                     set |-> s, prefix |-> p, fromKey |-> f]
    <3>1. Made(op[i-1], call.t, call.val) /\ op[i-1].key = call.key
      BY <1>4, <1>6, <2>1
    <3> QED BY <3>1 DEF Made
  <2>4. CASE call.key = <<>>
    BY <2>2, <2>3, <2>4 DEF WithPrefix
  <2>5. CASE call.key # <<>>
    BY <2>2, <2>3, <2>5 DEF WithPrefix
  <2> QED BY <2>4, <2>5
<1>7. T = {}
  <2> SUFFICES ASSUME T # {} PROVE FALSE
    OBVIOUS
  <2>1. T \in SUBSET Nat
    BY <1>1
  <2>2. PICK j \in T : \A l \in T : j <= l
    BY <2>1, LeastNatural
  <2>3. j # 0
    BY <1>2, <1>3, <1>4
  <2>4. j \in 1..n /\ j - 1 \in 0..n /\ j - 1 \notin T
    BY <1>1, <2>2, <2>3
  <2> HIDE DEF Before, After
  <2>5. IF j - 1 < i THEN Before(j-1) ELSE After(j-1)
    BY <2>4
  <2>6. ~ (IF j < i THEN Before(j) ELSE After(j))
    BY <2>2
  <2>7. CASE j < i
    <3>1. Before(j-1)
      BY <2>4, <2>5, <2>7
    <3>2. Before(j)
      BY <1>5, <2>4, <2>7, <3>1 DEF Before
    <3> QED BY <2>6, <2>7, <3>2
  <2>8. CASE j = i
    <3>1. Before(i-1)
      BY <2>4, <2>5, <2>8
    <3> QED BY <1>6, <2>4, <2>6, <2>8, <3>1
  <2>9. CASE j > i
    <3>1. After(j-1)
      BY <2>4, <2>5, <2>9
    <3>2. After(j)
      BY <1>5, <2>4, <2>9, <3>1 DEF After
    <3> QED BY <2>4, <2>6, <2>9, <3>2
  <2> QED BY <2>4, <2>7, <2>8, <2>9
<1>8. After(n)
  <2>1. n \in 0..n /\ ~ (n < i)
    BY <1>1
  <2> HIDE DEF Before, After
  <2> QED BY <1>7, <2>1
<1> QED BY <1>4, <1>8 DEF opts, n, base

\* getPrefix with WithPrefix among other options (op.go:288-384, 301-333), the
\* request (op.go:117-135) and the conversion of the fake server (fake.go:189-243):
\* a Get, Iterate or Delete with a prefix, with any other options before and
\* after it that are not about the range, is recorded as an operation on exactly the
\* keys that start with its key.
THEOREM PrefixOfCallIsExact ==
    ASSUME NEW call, IsCall(call), AsksForPrefix(call), NEW op \in OpsOfCall(call),
           NEW k \in Keys \ {<<>>}
    PROVE  InRange(k, Recorded(Request(op))) <=> IsPrefix(call.key, k)
<1>1. call.t # "txn" /\ IsSingleCall(call)
  BY DEF AsksForPrefix, IsCall
<1>2. /\ op.key = IF call.key = <<>> THEN <<0>> ELSE call.key
      /\ op.end = {IF call.key = <<>> THEN <<0>> ELSE getPrefix(call.key)}
  BY <1>1, PrefixAmongOptions DEF OpsOfCall, MakeOp
<1>3. call.key \in KeySeqs /\ k \in KeySeqs
  BY <1>1, KeyAssumption DEF KeySeqs, IsSingleCall
<1> DEFINE record == Recorded(Request(op))
<1>4. record = ExpectedSingle(op, FALSE) /\ IsOp(op)
  BY <1>1, MadeIsOp, SingleArrives
<1>5. record.key = op.key /\ record.end = op.end \ {<<>>}
  <2>1. PICK u, key, e, v, s, p, f :
           op = [t |-> u, key |-> key, end |-> e, val |-> v, set |-> s, prefix |-> p, fromKey |-> f]
    BY <1>4 DEF IsOp
  <2> QED BY <1>4, <2>1 DEF ExpectedSingle
<1> HIDE DEF record
<1>6. CASE call.key = <<>>
  <2>1. record.key = <<0>> /\ record.end = {<<0>>}
    BY <1>2, <1>5, <1>6
  <2>2. Len(k) \in Nat \ {0} /\ k[1] \in 0..MaxByte
    <3>1. k \in Seq(0..MaxByte) /\ k # <<>>
      BY <1>3 DEF KeySeqs
    <3>2. Len(k) # 0
      BY <3>1
    <3>3. Len(k) \in Nat /\ 1 \in 1..Len(k)
      BY <3>1, <3>2
    <3>4. k[1] \in 0..MaxByte
      <4>1. \A x \in Seq(0..MaxByte) : \A i \in 1..Len(x) : x[i] \in 0..MaxByte
        BY KeyAssumption
      <4> QED BY <3>1, <3>3, <4>1
    <3> QED BY <3>2, <3>3, <3>4
  <2>3. ~ KeyLess(k, <<0>>)
    BY <1>3, <2>2, KeyAssumption DEF KeyLess, KeySeqs
  <2>4. InRange(k, record)
    BY <2>1, <2>3 DEF InRange, noPrefixEnd
  <2>5. IsPrefix(<<>>, k)
    BY <1>3 DEF IsPrefix, KeySeqs
  <2> QED BY <1>6, <2>4, <2>5 DEF record
<1>7. CASE call.key # <<>>
  <2>1. getPrefix(call.key) # <<>>
    <3>1. CASE \A i \in DOMAIN call.key : call.key[i] = MaxByte
      BY <3>1 DEF getPrefix, noPrefixEnd
    <3>2. CASE ~ \A i \in DOMAIN call.key : call.key[i] = MaxByte
      <4> DEFINE last == LastBelowMax(call.key)
      <4>1. last \in DOMAIN call.key
        BY <1>3, <3>2, LastBelowMaxFact
      <4>2. last \in Nat \ {0}
        BY <1>3, <4>1 DEF KeySeqs
      <4> HIDE DEF last
      <4>3. DOMAIN getPrefix(call.key) = 1..last
        BY <3>2 DEF getPrefix, last
      <4>4. 1 \in DOMAIN getPrefix(call.key) /\ 1 \notin DOMAIN <<>>
        BY <4>2, <4>3
      <4> QED BY <4>4
    <3> QED BY <3>1, <3>2
  <2>2. record.key = call.key /\ record.end = {getPrefix(call.key)}
    BY <1>2, <1>5, <1>7, <2>1
  <2>3. InRange(k, record) <=>
          ~ KeyLess(k, call.key)
            /\ (getPrefix(call.key) = noPrefixEnd \/ KeyLess(k, getPrefix(call.key)))
    BY <2>2 DEF InRange
  <2> QED BY <1>3, <1>7, <2>3, PrefixRange DEF record
<1> QED BY <1>6, <1>7

-------------------------------------------------------------------------------
(* The server *)

\* What can be recorded of a program.
Records == {Recorded(Request(OpOfCall(program[c][i]))) : c \in Callers, i \in Nat}

RPCs == [c : Callers, i : Nat, attempt : Nat, pc : Places, turn : Nat,
         header : Seq(Records), choice : Nat, count : Nat, answer : Errors \cup {OK, None}]

\* The variables of the callers.
CallerShape ==
    /\ made \in [Callers -> Nat]
    /\ waiting \in [Callers -> 0..Len(handlers)]
    /\ open \in [Callers -> SUBSET (1..Len(handlers))]
    /\ history \in [starts : Nat, overlapped : BOOLEAN, gaveUp : BOOLEAN, leftOpen : BOOLEAN]

Shape ==
    /\ CallerShape
    /\ fakeResponses \in Seq(Responses)
    /\ recordedRequests \in Seq(Records)
    /\ fakeResponsesIdx \in Nat
    /\ handlers \in Seq(RPCs)
    /\ \A h \in DOMAIN handlers :
        handlers[h].pc \in {"load", "store", "respond", "done"} /\ fakeResponses # <<>> =>
            handlers[h].choice \in DOMAIN fakeResponses

\* The handler that is at work was the last to start.
TurnInv ==
    /\ \A h \in Started : handlers[h].turn \in 1..history.starts
    /\ \A h \in Busy :
        /\ handlers[h].turn = history.starts
        /\ \A g \in Started \ {h} : handlers[g].turn < history.starts

\* Every handler that started has appended, except one that is at it.
SliceInv ==
    /\ \A h \in Started :
        handlers[h].pc \in {"append", "written"} =>
            /\ handlers[h].header = recordedRequests
            /\ Len(recordedRequests) = history.starts - 1
    /\ (\A h \in Started : handlers[h].pc \notin {"append", "written"}) =>
            Len(recordedRequests) = history.starts
    /\ \A h \in Started : Len(handlers[h].header) = handlers[h].turn - 1

\* Every handler that started has counted, except one that is at work.
CountInv ==
    fakeResponses # <<>> =>
        /\ \A h \in Busy : fakeResponsesIdx = history.starts - 1
        /\ \A h \in Busy : handlers[h].pc = "store" => handlers[h].count = fakeResponsesIdx
        /\ Busy = {} => fakeResponsesIdx = history.starts

Orderly ==
    ~ history.overlapped =>
        TurnInv /\ SliceInv /\ CountInv /\ OrderlyUnlessOverlapped

Inv == Shape /\ Orderly

-------------------------------------------------------------------------------
LEMMA InitInv == Init => Inv
<1> SUFFICES ASSUME Init PROVE Inv
  OBVIOUS
<1>1. Started = {} /\ Busy = {}
  BY DEF Init, Started, Busy
<1>2. Shape
  BY FakeAssumption DEF Init, Shape, CallerShape
<1>3. Orderly
  BY <1>1 DEF Init, Orderly, TurnInv, SliceInv, CountInv, OrderlyUnlessOverlapped
<1> QED BY <1>2, <1>3 DEF Inv

\* What a handler records is a record of the program.
LEMMA RecordType ==
    ASSUME Shape, NEW h \in DOMAIN handlers
    PROVE  RecordOf(h) \in Records
<1>1. handlers[h] \in RPCs
  BY DEF Shape
<1>2. handlers[h].c \in Callers /\ handlers[h].i \in Nat
  BY <1>1 DEF RPCs
<1> QED BY <1>2 DEF RecordOf, OpOfRPC, CallOf, Records

\* A new request is no handler yet.
LEMMA Sent ==
    ASSUME Inv, NEW c \in Callers, NEW i \in Nat, NEW a \in Nat,
           handlers' = Append(handlers, NewRPC(c, i, a)),
           CallerShape',
           history'.starts = history.starts, history'.overlapped = history.overlapped,
           UNCHANGED <<program, fakeResponses, recordedRequests, fakeResponsesIdx>>
    PROVE  Inv'
<1>1. NewRPC(c, i, a) \in RPCs /\ NewRPC(c, i, a).pc = "sent"
  BY DEF NewRPC, RPCs, Places
<1>2. /\ DOMAIN handlers' = DOMAIN handlers \cup {Len(handlers) + 1}
      /\ Len(handlers) + 1 \notin DOMAIN handlers
      /\ \A h \in DOMAIN handlers : handlers'[h] = handlers[h]
      /\ handlers'[Len(handlers) + 1] = NewRPC(c, i, a)
      /\ handlers' \in Seq(RPCs)
  BY <1>1 DEF Inv, Shape
<1>3. Started' = Started /\ Busy' = Busy
  BY <1>1, <1>2 DEF Started, Busy, Touching
<1>4. Records' = Records
  BY DEF Records
<1>5. Shape'
  <2>1. /\ fakeResponses' \in Seq(Responses) /\ recordedRequests' \in Seq(Records')
        /\ fakeResponsesIdx' \in Nat /\ handlers' \in Seq(RPCs')
    <3>1. RPCs' = RPCs
      BY <1>4 DEF RPCs
    <3> QED BY <1>2, <1>4, <3>1 DEF Inv, Shape
  <2>2. \A h \in DOMAIN handlers' :
          handlers'[h].pc \in {"load", "store", "respond", "done"} /\ fakeResponses' # <<>> =>
              handlers'[h].choice \in DOMAIN fakeResponses'
    BY <1>1, <1>2 DEF Inv, Shape
  <2> QED BY <2>1, <2>2 DEF Shape
<1>6. \A h \in Started : RecordOf(h)' = RecordOf(h)
  BY <1>2 DEF Started, RecordOf, OpOfRPC, CallOf
<1>7. Orderly'
  <2>1. Started \subseteq DOMAIN handlers /\ Busy \subseteq DOMAIN handlers
    BY DEF Started, Busy
  <2> QED
    BY <1>2, <1>3, <1>6, <2>1
    DEF Inv, Orderly, TurnInv, SliceInv, CountInv, OrderlyUnlessOverlapped
<1> QED BY <1>5, <1>7 DEF Inv

\* What callers do besides does not concern the handlers.
LEMMA Quiet ==
    ASSUME Inv,
           UNCHANGED <<program, fakeResponses, recordedRequests, fakeResponsesIdx, handlers>>,
           CallerShape',
           history'.starts = history.starts, history'.overlapped = history.overlapped
    PROVE  Inv'
<1>1. Started' = Started /\ Busy' = Busy /\ RPCs' = RPCs /\ Records' = Records
  BY DEF Started, Busy, RPCs, Records
<1>2. Shape'
  <2>1. /\ fakeResponses' \in Seq(Responses) /\ recordedRequests' \in Seq(Records')
        /\ fakeResponsesIdx' \in Nat /\ handlers' \in Seq(RPCs')
    BY <1>1 DEF Inv, Shape
  <2>2. \A h \in DOMAIN handlers' :
          handlers'[h].pc \in {"load", "store", "respond", "done"} /\ fakeResponses' # <<>> =>
              handlers'[h].choice \in DOMAIN fakeResponses'
    BY DEF Inv, Shape
  <2> QED BY <2>1, <2>2 DEF Shape
<1>3. \A h : RecordOf(h)' = RecordOf(h)
  BY DEF RecordOf, OpOfRPC, CallOf
<1>4. Orderly'
  BY <1>1, <1>3 DEF Inv, Orderly, TurnInv, SliceInv, CountInv, OrderlyUnlessOverlapped
<1> QED BY <1>2, <1>4 DEF Inv

LEMMA CallerStep ==
    ASSUME Inv, NEW c \in Callers,
           Call(c) \/ ReadStream(c) \/ Answered(c) \/ GiveUp(c)
    PROVE  Inv'
<1>1. /\ Len(handlers) \in Nat /\ DOMAIN handlers = 1..Len(handlers)
      /\ \A h \in DOMAIN handlers : handlers[h] \in RPCs
      /\ made[c] + 1 \in Nat
      /\ waiting[c] \in 0..Len(handlers)
      /\ open[c] \subseteq 1..Len(handlers)
  BY DEF Inv, Shape, CallerShape
<1>2. \A r : Len(Append(handlers, r)) = Len(handlers) + 1
  BY DEF Inv, Shape
<1>3. CASE Call(c)
  <2>1. handlers' = Append(handlers, NewRPC(c, made[c] + 1, 0))
    BY <1>3 DEF Call
  <2>2. CallerShape'
    <3>1. Len(handlers') = Len(handlers) + 1
      BY <1>2, <2>1
    <3>2. made' \in [Callers -> Nat] /\ history' \in [starts : Nat, overlapped : BOOLEAN, gaveUp : BOOLEAN, leftOpen : BOOLEAN]
      BY <1>1, <1>3 DEF Call, Inv, Shape, CallerShape
    <3>3. waiting' \in [Callers -> 0..(Len(handlers) + 1)]
      BY <1>1, <1>3 DEF Call, Inv, Shape, CallerShape
    <3>4. open' \in [Callers -> SUBSET (1..(Len(handlers) + 1))]
      BY <1>1, <1>3 DEF Call, Inv, Shape, CallerShape
    <3> QED BY <3>1, <3>2, <3>3, <3>4 DEF CallerShape
  <2>3. history'.starts = history.starts /\ history'.overlapped = history.overlapped
    BY <1>3 DEF Call, Inv, Shape, CallerShape
  <2> QED BY <1>1, <1>3, <2>1, <2>2, <2>3, Sent DEF Call
<1>4. CASE ReadStream(c)
  <2>1. CallerShape'
    BY <1>1, <1>4 DEF ReadStream, Inv, Shape, CallerShape
  <2> QED BY <1>4, <2>1, Quiet DEF ReadStream
<1>5. CASE Answered(c)
  <2> DEFINE h == waiting[c]
             a == NextAttempt(handlers[h].attempt)
  <2>1. CASE Again(h)
    <3>1. h \in DOMAIN handlers
      BY <1>1, <1>5 DEF Answered
    <3>2. handlers[h].i \in Nat /\ a \in Nat
      BY <1>1, <3>1 DEF RPCs, NextAttempt
    <3>3. /\ handlers' = Append(handlers, NewRPC(c, handlers[h].i, a))
          /\ waiting' = [waiting EXCEPT ![c] = Len(handlers) + 1]
      BY <1>5, <2>1 DEF Answered
    <3>4. CallerShape'
      <4>1. Len(handlers') = Len(handlers) + 1
        BY <1>2, <3>3
      <4>2. waiting \in [Callers -> 0..(Len(handlers) + 1)]
        BY <1>1 DEF Inv, Shape, CallerShape
      <4>3. waiting' \in [Callers -> 0..(Len(handlers) + 1)]
        BY <1>1, <3>3, <4>2
      <4>4. open' \in [Callers -> SUBSET (1..(Len(handlers) + 1))]
        BY <1>1, <1>5 DEF Answered, Inv, Shape, CallerShape
      <4> QED BY <1>5, <4>1, <4>3, <4>4 DEF Answered, Inv, Shape, CallerShape
    <3> HIDE DEF a
    <3> QED BY <1>5, <3>2, <3>3, <3>4, Sent DEF Answered
  <2>2. CASE ~ Again(h)
    <3>1. UNCHANGED handlers /\ waiting' = [waiting EXCEPT ![c] = 0]
      BY <1>5, <2>2 DEF Answered
    <3>2. CallerShape'
      <4>1. 0 \in 0..Len(handlers)
        BY <1>1
      <4>2. waiting' \in [Callers -> 0..Len(handlers)]
        BY <3>1, <4>1 DEF Inv, Shape, CallerShape
      <4> QED BY <1>5, <3>1, <4>2 DEF Answered, Inv, Shape, CallerShape
    <3> QED BY <1>5, <3>1, <3>2, Quiet DEF Answered
  <2> QED BY <2>1, <2>2
<1>6. CASE GiveUp(c)
  <2>1. CallerShape'
    <3>1. 0 \in 0..Len(handlers)
      BY <1>1
    <3>2. waiting' \in [Callers -> 0..Len(handlers)]
      BY <1>6, <3>1 DEF GiveUp, Inv, Shape, CallerShape
    <3> QED BY <1>6, <3>2 DEF GiveUp, Inv, Shape, CallerShape
  <2>2. history'.starts = history.starts /\ history'.overlapped = history.overlapped
    BY <1>6 DEF GiveUp, Inv, Shape, CallerShape
  <2> QED BY <1>6, <2>1, <2>2, Quiet DEF GiveUp
<1> QED BY <1>3, <1>4, <1>5, <1>6

-------------------------------------------------------------------------------
\* A step of handler h changes its own record only.
HandlerStep(h, r) ==
    /\ handlers[h].pc # "done"
    /\ handlers' = [handlers EXCEPT ![h] = r]
    /\ r \in RPCs
    /\ r.c = handlers[h].c /\ r.i = handlers[h].i

\* What a step of a handler leaves as it is.
LEMMA HandlerFrame ==
    ASSUME Inv, NEW h \in DOMAIN handlers, NEW r, HandlerStep(h, r),
           UNCHANGED <<program, fakeResponses, made, waiting, open>>
    PROVE  /\ DOMAIN handlers' = DOMAIN handlers /\ Len(handlers') = Len(handlers)
           /\ handlers' \in Seq(RPCs')
           /\ handlers'[h] = r
           /\ \A g \in DOMAIN handlers \ {h} : handlers'[g] = handlers[g]
           /\ \A g \in DOMAIN handlers : RecordOf(g)' = RecordOf(g)
           /\ Records' = Records
<1>1. handlers \in Seq(RPCs) /\ r \in RPCs
  BY DEF Inv, Shape, HandlerStep
<1>2. /\ DOMAIN handlers' = DOMAIN handlers /\ Len(handlers') = Len(handlers)
      /\ handlers' \in Seq(RPCs)
      /\ handlers'[h] = r
      /\ \A g \in DOMAIN handlers \ {h} : handlers'[g] = handlers[g]
  BY <1>1 DEF HandlerStep
<1>3. Records' = Records /\ RPCs' = RPCs
  BY DEF Records, RPCs
<1>4. \A g \in DOMAIN handlers : RecordOf(g)' = RecordOf(g)
  <2> TAKE g \in DOMAIN handlers
  <2>1. handlers'[g].c = handlers[g].c /\ handlers'[g].i = handlers[g].i
    BY <1>2 DEF HandlerStep
  <2> QED BY <2>1 DEF RecordOf, OpOfRPC, CallOf
<1> QED BY <1>2, <1>3, <1>4

\* The shape after a step of a handler, from its new record and the slice.
LEMMA HandlerShape ==
    ASSUME Inv, NEW h \in DOMAIN handlers, NEW r, HandlerStep(h, r),
           UNCHANGED <<program, fakeResponses, made, waiting, open>>,
           recordedRequests' \in Seq(Records), fakeResponsesIdx' \in Nat,
           history' \in [starts : Nat, overlapped : BOOLEAN, gaveUp : BOOLEAN,
                         leftOpen : BOOLEAN],
           r.pc \in {"load", "store", "respond", "done"} /\ fakeResponses # <<>> =>
               r.choice \in DOMAIN fakeResponses
    PROVE  Shape'
<1>1. /\ DOMAIN handlers' = DOMAIN handlers /\ Len(handlers') = Len(handlers)
      /\ handlers' \in Seq(RPCs')
      /\ handlers'[h] = r
      /\ \A g \in DOMAIN handlers \ {h} : handlers'[g] = handlers[g]
      /\ Records' = Records
  BY HandlerFrame
<1>2. CallerShape'
  BY <1>1 DEF Inv, Shape, CallerShape
<1>3. \A g \in DOMAIN handlers' :
        handlers'[g].pc \in {"load", "store", "respond", "done"} /\ fakeResponses' # <<>> =>
            handlers'[g].choice \in DOMAIN fakeResponses'
  BY <1>1 DEF Inv, Shape
<1> QED BY <1>1, <1>2, <1>3 DEF Inv, Shape

LEMMA LoadRecordedStep ==
    ASSUME Inv, NEW h \in DOMAIN handlers, LoadRecorded(h)
    PROVE  Inv'
<1> DEFINE r == [handlers[h] EXCEPT !.pc = "append", !.header = recordedRequests,
                                    !.turn = history.starts + 1]
<1>1. handlers[h] \in RPCs /\ history.starts \in Nat /\ recordedRequests \in Seq(Records)
  BY DEF Inv, Shape, CallerShape
<1>2. HandlerStep(h, r)
  <2>1. "append" \in Places /\ history.starts + 1 \in Nat
    BY <1>1 DEF Places
  <2>2. r \in RPCs
    BY <1>1, <2>1 DEF RPCs
  <2>3. r.c = handlers[h].c /\ r.i = handlers[h].i
    BY <1>1 DEF RPCs
  <2>4. handlers' = [handlers EXCEPT ![h] = r]
    BY DEF LoadRecorded
  <2> QED BY <2>2, <2>3, <2>4 DEF HandlerStep, LoadRecorded
<1>3. /\ r.pc = "append" /\ r.header = recordedRequests /\ r.turn = history.starts + 1
  BY <1>1 DEF RPCs
<1> HIDE DEF r
<1>4. /\ history' \in [starts : Nat, overlapped : BOOLEAN, gaveUp : BOOLEAN, leftOpen : BOOLEAN]
      /\ history'.starts = history.starts + 1
      /\ ~ history'.overlapped => ~ history.overlapped /\ Busy = {}
  <2> DEFINE o == history.overlapped \/ Busy # {}
  <2>1. history' = [history EXCEPT !.starts = history.starts + 1, !.overlapped = o]
    BY DEF LoadRecorded
  <2>2. o \in BOOLEAN /\ (~ o => ~ history.overlapped /\ Busy = {})
    OBVIOUS
  <2> HIDE DEF o
  <2>3. /\ history \in [starts : Nat, overlapped : BOOLEAN, gaveUp : BOOLEAN, leftOpen : BOOLEAN]
        /\ history.starts + 1 \in Nat
    BY <1>1 DEF Inv, Shape, CallerShape
  <2>4. history' \in [starts : Nat, overlapped : BOOLEAN, gaveUp : BOOLEAN, leftOpen : BOOLEAN]
    BY <2>1, <2>2, <2>3
  <2>5. history'.starts = history.starts + 1 /\ history'.overlapped = o
    BY <2>1, <2>3
  <2> QED BY <2>2, <2>4, <2>5
<1>5. Shape'
  BY <1>2, <1>3, <1>4, HandlerShape DEF LoadRecorded, Inv, Shape
<1>6. Orderly'
  <2> SUFFICES ASSUME ~ history'.overlapped
               PROVE  (TurnInv /\ SliceInv /\ CountInv /\ OrderlyUnlessOverlapped)'
    BY DEF Orderly
  <2>1. ~ history.overlapped /\ Busy = {} /\ TurnInv /\ SliceInv /\ CountInv
        /\ OrderlyUnlessOverlapped
    BY <1>4 DEF Inv, Orderly
  <2>2. /\ DOMAIN handlers' = DOMAIN handlers
        /\ handlers'[h] = r
        /\ \A g \in DOMAIN handlers \ {h} : handlers'[g] = handlers[g]
        /\ \A g \in DOMAIN handlers : RecordOf(g)' = RecordOf(g)
    BY <1>2, HandlerFrame DEF LoadRecorded
  <2>3. /\ Started' = Started \cup {h} /\ h \notin Started
        /\ Started \subseteq DOMAIN handlers
        /\ Busy' = {h}
        /\ \A g \in Started : handlers[g].pc \notin Touching
    BY <1>3, <2>1, <2>2 DEF LoadRecorded, Started, Busy, Touching
  <2>4. \A g \in Started : handlers'[g] = handlers[g]
    BY <2>2, <2>3
  <2>5. Len(recordedRequests) = history.starts /\ UNCHANGED <<recordedRequests, fakeResponses, fakeResponsesIdx>>
    BY <2>1, <2>3 DEF SliceInv, LoadRecorded, Touching
  <2>6. TurnInv'
    <3>1. \A g \in Started : handlers[g].turn \in 1..history.starts
      BY <2>1 DEF TurnInv
    <3> QED BY <1>1, <1>3, <1>4, <2>2, <2>3, <2>4, <3>1 DEF TurnInv
  <2>7. SliceInv'
    BY <1>1, <1>3, <1>4, <2>1, <2>2, <2>3, <2>4, <2>5 DEF SliceInv, Touching
  <2>8. CountInv'
    BY <1>1, <1>3, <1>4, <2>1, <2>2, <2>3, <2>5 DEF CountInv
  <2>9. OrderlyUnlessOverlapped'
    BY <1>3, <2>1, <2>2, <2>3, <2>4, <2>5 DEF OrderlyUnlessOverlapped
  <2> QED BY <2>6, <2>7, <2>8, <2>9
<1> QED BY <1>5, <1>6 DEF Inv

\* The only handler at work passes the slice, the counter, or neither.
LEMMA BusyStep ==
    ASSUME Inv, ~ history.overlapped, NEW h \in Busy, NEW r, HandlerStep(h, r),
           UNCHANGED <<program, fakeResponses, made, waiting, open, history>>,
           r.pc # "sent", r.turn = handlers[h].turn, r.header = handlers[h].header,
           \/ /\ handlers[h].pc \in {"append", "written"} <=> r.pc \in {"append", "written"}
              /\ UNCHANGED recordedRequests
           \/ /\ handlers[h].pc = "written" /\ r.pc \notin {"append", "written"}
              /\ recordedRequests' = Append(recordedRequests, RecordOf(h)),
           fakeResponses # <<>> =>
             \/ /\ r.pc \in Touching /\ UNCHANGED fakeResponsesIdx
                /\ r.pc = "store" => r.count = fakeResponsesIdx
             \/ r.pc \notin Touching /\ fakeResponsesIdx' = fakeResponsesIdx + 1,
           fakeResponses # <<>> /\ r.pc \in {"load", "store", "respond", "done"} =>
             r.choice = ((r.turn - 1) % Len(fakeResponses)) + 1
    PROVE  Orderly'
<1>1. TurnInv /\ SliceInv /\ CountInv /\ OrderlyUnlessOverlapped
  BY DEF Inv, Orderly
<1>2. /\ h \in DOMAIN handlers /\ h \in Started /\ handlers[h].pc \in Touching
      /\ Started \subseteq DOMAIN handlers
      /\ history.starts \in Nat /\ recordedRequests \in Seq(Records)
      /\ fakeResponsesIdx \in Nat
  BY DEF Busy, Started, Touching, Inv, Shape, CallerShape
<1>3. /\ handlers'[h] = r /\ DOMAIN handlers' = DOMAIN handlers
      /\ \A g \in DOMAIN handlers \ {h} : handlers'[g] = handlers[g]
      /\ \A g \in DOMAIN handlers : RecordOf(g)' = RecordOf(g)
  BY <1>2, HandlerFrame
<1>4. /\ handlers[h].turn = history.starts /\ history.starts >= 1
      /\ \A g \in Started \ {h} : handlers[g].turn \in 1..(history.starts - 1)
  BY <1>1, <1>2 DEF TurnInv
<1>5. \A g \in Started \ {h} : handlers[g].pc \notin Touching
  BY <1>1, <1>2, <1>4 DEF TurnInv, Busy
<1>6. /\ Started' = Started
      /\ r.pc \in Touching => Busy' = {h}
      /\ r.pc \notin Touching => Busy' = {}
  <2>1. \A g \in DOMAIN handlers \ {h} : handlers[g].pc \notin Touching
    BY <1>5 DEF Started, Touching
  <2>2. Started' = Started
    BY <1>2, <1>3 DEF Started
  <2>3. \A g \in DOMAIN handlers : g \in Busy' <=> g = h /\ r.pc \in Touching
    BY <1>2, <1>3, <2>1 DEF Busy, Touching
  <2>4. Busy' \subseteq DOMAIN handlers
    BY <1>3 DEF Busy
  <2> QED BY <1>2, <2>2, <2>3, <2>4
<1>7. TurnInv'
  <2>1. \A g \in Started : handlers'[g].turn = handlers[g].turn
    BY <1>2, <1>3
  <2>2. Busy' \subseteq {h}
    BY <1>6
  <2> QED BY <1>2, <1>4, <1>6, <2>1, <2>2 DEF TurnInv
<1>8. SliceInv' /\ OrderlyUnlessOverlapped'
  <2>1. \A g \in Started \ {h} :
          /\ handlers[g].pc \notin {"append", "written"}
          /\ handlers'[g] = handlers[g]
    BY <1>2, <1>3, <1>5 DEF Touching
  <2>2. Len(handlers[h].header) = history.starts - 1
    BY <1>1, <1>2, <1>4 DEF SliceInv
  <2>3. CASE /\ handlers[h].pc \in {"append", "written"} <=> r.pc \in {"append", "written"}
             /\ UNCHANGED recordedRequests
    <3>1. SliceInv'
      BY <1>1, <1>2, <1>3, <1>6, <2>1, <2>3 DEF SliceInv
    <3>2. OrderlyUnlessOverlapped'
      BY <1>1, <1>2, <1>3, <1>6, <2>1, <2>3 DEF OrderlyUnlessOverlapped
    <3> QED BY <3>1, <3>2
  <2>4. CASE /\ handlers[h].pc = "written" /\ r.pc \notin {"append", "written"}
             /\ recordedRequests' = Append(recordedRequests, RecordOf(h))
    <3>1. Len(recordedRequests) = history.starts - 1
      BY <1>1, <1>2, <2>4 DEF SliceInv
    <3>2. RecordOf(h) \in Records
      BY <1>2, RecordType DEF Inv
    <3>3. /\ Len(recordedRequests') = history.starts
          /\ recordedRequests'[history.starts] = RecordOf(h)
          /\ \A i \in 1..(history.starts - 1) : recordedRequests'[i] = recordedRequests[i]
      BY <1>2, <2>4, <3>1, <3>2
    <3>4. SliceInv'
      <4>1. \A g \in Started' : handlers'[g].pc \notin {"append", "written"}
        BY <1>2, <1>3, <1>6, <2>1, <2>4
      <4>2. \A g \in Started' : Len(handlers'[g].header) = handlers'[g].turn - 1
        BY <1>1, <1>2, <1>3, <1>6, <2>1 DEF SliceInv
      <4> QED BY <3>3, <4>1, <4>2 DEF SliceInv
    <3>5. \A g \in Started \ {h} :
            /\ handlers[g].turn <= Len(recordedRequests')
            /\ recordedRequests'[handlers[g].turn] = RecordOf(g)
      <4> TAKE g \in Started \ {h}
      <4>1. recordedRequests[handlers[g].turn] = RecordOf(g)
        BY <1>1, <2>1 DEF OrderlyUnlessOverlapped
      <4>2. handlers[g].turn \in 1..(history.starts - 1)
        BY <1>4
      <4> QED BY <1>2, <3>3, <4>1, <4>2
    <3>6. \A g \in Started :
            /\ handlers'[g].turn <= Len(recordedRequests')
            /\ recordedRequests'[handlers'[g].turn] = RecordOf(g)'
      BY <1>2, <1>3, <1>4, <2>1, <3>3, <3>5
    <3>7. \A g \in Started :
            handlers'[g].pc \in {"load", "store", "respond", "done"} /\ fakeResponses # <<>> =>
              handlers'[g].choice = ((handlers'[g].turn - 1) % Len(fakeResponses)) + 1
      <4> TAKE g \in Started
      <4>1. CASE g = h
        BY <1>3, <4>1
      <4>2. CASE g # h
        <5>1. handlers[g].pc \in {"load", "store", "respond", "done"} /\ fakeResponses # <<>> =>
                handlers[g].choice = ((handlers[g].turn - 1) % Len(fakeResponses)) + 1
          BY <1>1 DEF OrderlyUnlessOverlapped
        <5> QED BY <2>1, <4>2, <5>1
      <4> QED BY <4>1, <4>2
    <3>8. OrderlyUnlessOverlapped'
      BY <1>6, <3>6, <3>7 DEF OrderlyUnlessOverlapped
    <3> QED BY <3>4, <3>8
  <2> QED BY <2>3, <2>4
<1>9. CountInv'
  <2> SUFFICES ASSUME fakeResponses # <<>>
               PROVE  /\ \A g \in Busy' : fakeResponsesIdx' = history.starts - 1
                      /\ \A g \in Busy' : handlers'[g].pc = "store" =>
                             handlers'[g].count = fakeResponsesIdx'
                      /\ Busy' = {} => fakeResponsesIdx' = history.starts
    BY DEF CountInv
  <2>1. fakeResponsesIdx = history.starts - 1
    BY <1>1 DEF CountInv
  <2>2. CASE r.pc \in Touching
    BY <1>3, <1>6, <2>1, <2>2
  <2>3. CASE r.pc \notin Touching
    BY <1>2, <1>6, <2>1, <2>3
  <2> QED BY <2>2, <2>3
<1> QED BY <1>7, <1>8, <1>9 DEF Orderly

LEMMA WriteElementStep ==
    ASSUME Inv, NEW h \in DOMAIN handlers, WriteElement(h)
    PROVE  Inv'
<1> DEFINE r == [handlers[h] EXCEPT !.pc = "written"]
<1>1. /\ handlers[h] \in RPCs /\ recordedRequests \in Seq(Records)
      /\ fakeResponsesIdx \in Nat
      /\ history \in [starts : Nat, overlapped : BOOLEAN, gaveUp : BOOLEAN, leftOpen : BOOLEAN]
  BY DEF Inv, Shape, CallerShape
<1>2. /\ r \in RPCs /\ r.c = handlers[h].c /\ r.i = handlers[h].i
      /\ r.pc = "written" /\ r.turn = handlers[h].turn /\ r.header = handlers[h].header
  <2>1. "written" \in Places
    BY DEF Places
  <2> QED BY <1>1, <2>1 DEF RPCs
<1>3. HandlerStep(h, r)
  BY <1>2 DEF HandlerStep, WriteElement
<1> HIDE DEF r
<1>4. recordedRequests' \in Seq(Records)
  <2> DEFINE n == Len(handlers[h].header) + 1
  <2>1. CASE UNCHANGED recordedRequests
    BY <1>1, <2>1
  <2>2. CASE n <= Len(recordedRequests)
             /\ recordedRequests' = [recordedRequests EXCEPT ![n] = RecordOf(h)]
    <3>1. RecordOf(h) \in Records
      BY RecordType DEF Inv
    <3>2. handlers[h].header \in Seq(Records)
      BY <1>1 DEF RPCs
    <3> QED BY <1>1, <2>2, <3>1, <3>2
  <2> QED BY <2>1, <2>2 DEF WriteElement
<1>5. Shape'
  BY <1>1, <1>2, <1>3, <1>4, HandlerShape DEF WriteElement
<1>6. Orderly'
  <2> SUFFICES ASSUME ~ history.overlapped PROVE Orderly'
    BY DEF WriteElement, Orderly
  <2>1. h \in Busy /\ h \in Started /\ handlers[h].pc = "append"
    BY DEF WriteElement, Busy, Started, Touching
  <2>2. handlers[h].header = recordedRequests
    BY <2>1 DEF Inv, Orderly, SliceInv
  <2>3. UNCHANGED recordedRequests
    BY <1>1, <2>2 DEF WriteElement
  <2>4. r.pc \in Touching
    BY <1>2 DEF Touching
  <2> QED BY <1>2, <1>3, <2>1, <2>3, <2>4, BusyStep DEF WriteElement
<1> QED BY <1>5, <1>6 DEF Inv

LEMMA StoreRecordedStep ==
    ASSUME Inv, NEW h \in DOMAIN handlers, StoreRecorded(h)
    PROVE  Inv'
<1> DEFINE p == IF fakeResponses = <<>> THEN "respond" ELSE "pick"
           r == [handlers[h] EXCEPT !.pc = p]
<1>1. /\ handlers[h] \in RPCs /\ recordedRequests \in Seq(Records)
      /\ fakeResponsesIdx \in Nat
      /\ history \in [starts : Nat, overlapped : BOOLEAN, gaveUp : BOOLEAN, leftOpen : BOOLEAN]
  BY DEF Inv, Shape, CallerShape
<1>2. /\ r \in RPCs /\ r.c = handlers[h].c /\ r.i = handlers[h].i
      /\ r.pc = p /\ r.turn = handlers[h].turn /\ r.header = handlers[h].header
  <2>1. p \in Places
    BY DEF Places
  <2> HIDE DEF p
  <2> QED BY <1>1, <2>1 DEF RPCs
<1>3. HandlerStep(h, r)
  BY <1>2 DEF HandlerStep, StoreRecorded
<1> HIDE DEF r
<1>4. PICK g \in DOMAIN handlers :
        /\ handlers[g].pc \notin {"sent", "append"}
        /\ Len(handlers[g].header) = Len(handlers[h].header)
        /\ recordedRequests' = Append(handlers[h].header, RecordOf(g))
  BY DEF StoreRecorded
<1>5. recordedRequests' \in Seq(Records)
  <2>1. RecordOf(g) \in Records
    BY RecordType DEF Inv
  <2>2. handlers[h].header \in Seq(Records)
    BY <1>1 DEF RPCs
  <2> QED BY <1>4, <2>1, <2>2
<1>6. Shape'
  BY <1>1, <1>2, <1>3, <1>5, HandlerShape DEF StoreRecorded
<1>7. Orderly'
  <2> SUFFICES ASSUME ~ history.overlapped PROVE Orderly'
    BY DEF StoreRecorded, Orderly
  <2>1. h \in Busy /\ h \in Started /\ handlers[h].pc = "written"
    BY DEF StoreRecorded, Busy, Started, Touching
  <2>2. handlers[h].header = recordedRequests
    BY <2>1 DEF Inv, Orderly, SliceInv
  <2>3. g = h
    <3> SUFFICES ASSUME g # h PROVE FALSE
      OBVIOUS
    <3>1. g \in Started \ {h}
      BY <1>4 DEF Started
    <3>2. /\ handlers[g].turn < handlers[h].turn
          /\ Len(handlers[g].header) = handlers[g].turn - 1
          /\ Len(handlers[h].header) = handlers[h].turn - 1
      BY <2>1, <3>1 DEF Inv, Orderly, TurnInv, SliceInv
    <3>3. handlers[g].turn \in Nat /\ handlers[h].turn \in Nat
      <4>1. handlers[g] \in RPCs /\ handlers[h] \in RPCs
        BY DEF Inv, Shape
      <4> QED BY <4>1 DEF RPCs
    <3>4. handlers[g].turn - 1 = handlers[h].turn - 1
      BY <1>4, <3>2
    <3> HIDE DEF p
    <3> QED BY <3>2, <3>3, <3>4
  <2>4. recordedRequests' = Append(recordedRequests, RecordOf(h))
    BY <1>4, <2>2, <2>3
  <2>5. fakeResponses # <<>> => r.pc \in Touching /\ r.pc = "pick"
    BY <1>2 DEF Touching
  <2>6. r.pc \notin {"sent", "append", "written"}
    BY <1>2
  <2> QED BY <1>2, <1>3, <2>1, <2>4, <2>5, <2>6, BusyStep DEF StoreRecorded
<1> QED BY <1>6, <1>7 DEF Inv

LEMMA PickResponseStep ==
    ASSUME Inv, NEW h \in DOMAIN handlers, PickResponse(h), fakeResponses # <<>>
    PROVE  Inv'
<1> DEFINE n == (fakeResponsesIdx % Len(fakeResponses)) + 1
           r == [handlers[h] EXCEPT !.pc = "load", !.choice = n]
<1>1. /\ handlers[h] \in RPCs /\ fakeResponses \in Seq(Responses)
      /\ recordedRequests \in Seq(Records) /\ fakeResponsesIdx \in Nat
      /\ history \in [starts : Nat, overlapped : BOOLEAN, gaveUp : BOOLEAN, leftOpen : BOOLEAN]
  BY DEF Inv, Shape, CallerShape
<1>2. n \in Nat /\ n \in DOMAIN fakeResponses
  <2>1. Len(fakeResponses) \in Nat \ {0} /\ DOMAIN fakeResponses = 1..Len(fakeResponses)
    BY <1>1
  <2> QED BY <1>1, <2>1
<1>3. /\ r \in RPCs /\ r.c = handlers[h].c /\ r.i = handlers[h].i
      /\ r.pc = "load" /\ r.choice = n
      /\ r.turn = handlers[h].turn /\ r.header = handlers[h].header
  <2>1. "load" \in Places
    BY DEF Places
  <2> HIDE DEF n
  <2> QED BY <1>1, <1>2, <2>1 DEF RPCs
<1>4. HandlerStep(h, r)
  BY <1>3 DEF HandlerStep, PickResponse
<1> HIDE DEF r
<1>5. Shape'
  <2> HIDE DEF n
  <2> QED BY <1>1, <1>2, <1>3, <1>4, HandlerShape DEF PickResponse
<1>6. Orderly'
  <2> SUFFICES ASSUME ~ history.overlapped PROVE Orderly'
    BY DEF PickResponse, Orderly
  <2>1. h \in Busy /\ handlers[h].pc = "pick"
    BY DEF PickResponse, Busy, Touching
  <2>2. r.turn = history.starts /\ fakeResponsesIdx = history.starts - 1
    BY <1>3, <2>1 DEF Inv, Orderly, TurnInv, CountInv
  <2>3. r.choice = ((r.turn - 1) % Len(fakeResponses)) + 1
    BY <1>3, <2>2
  <2>4. r.pc \in Touching
    BY <1>3 DEF Touching
  <2> QED BY <1>3, <1>4, <2>1, <2>3, <2>4, BusyStep DEF PickResponse
<1> QED BY <1>5, <1>6 DEF Inv

LEMMA LoadIdxStep ==
    ASSUME Inv, NEW h \in DOMAIN handlers, LoadIdx(h)
    PROVE  Inv'
<1> DEFINE r == [handlers[h] EXCEPT !.pc = "store", !.count = fakeResponsesIdx]
<1>1. /\ handlers[h] \in RPCs /\ recordedRequests \in Seq(Records)
      /\ fakeResponsesIdx \in Nat
      /\ history \in [starts : Nat, overlapped : BOOLEAN, gaveUp : BOOLEAN, leftOpen : BOOLEAN]
  BY DEF Inv, Shape, CallerShape
<1>2. /\ r \in RPCs /\ r.c = handlers[h].c /\ r.i = handlers[h].i
      /\ r.pc = "store" /\ r.choice = handlers[h].choice /\ r.count = fakeResponsesIdx
      /\ r.turn = handlers[h].turn /\ r.header = handlers[h].header
  <2>1. "store" \in Places
    BY DEF Places
  <2> QED BY <1>1, <2>1 DEF RPCs
<1>3. HandlerStep(h, r)
  BY <1>2 DEF HandlerStep, LoadIdx
<1>4. handlers[h].pc = "load" /\ fakeResponses # <<>> => r.choice \in DOMAIN fakeResponses
  BY <1>2 DEF Inv, Shape
<1> HIDE DEF r
<1>5. Shape'
  BY <1>1, <1>2, <1>3, <1>4, HandlerShape DEF LoadIdx
<1>6. Orderly'
  <2> SUFFICES ASSUME ~ history.overlapped PROVE Orderly'
    BY DEF LoadIdx, Orderly
  <2>1. h \in Busy /\ h \in Started /\ handlers[h].pc = "load"
    BY DEF LoadIdx, Busy, Started, Touching
  <2>2. fakeResponses # <<>> => r.choice = ((r.turn - 1) % Len(fakeResponses)) + 1
    BY <1>2, <2>1 DEF Inv, Orderly, OrderlyUnlessOverlapped
  <2>3. r.pc \in Touching
    BY <1>2 DEF Touching
  <2> QED BY <1>2, <1>3, <2>1, <2>2, <2>3, BusyStep DEF LoadIdx
<1> QED BY <1>5, <1>6 DEF Inv

LEMMA StoreIdxStep ==
    ASSUME Inv, NEW h \in DOMAIN handlers, StoreIdx(h)
    PROVE  Inv'
<1> DEFINE r == [handlers[h] EXCEPT !.pc = "respond"]
<1>1. /\ handlers[h] \in RPCs /\ recordedRequests \in Seq(Records)
      /\ fakeResponsesIdx \in Nat
      /\ history \in [starts : Nat, overlapped : BOOLEAN, gaveUp : BOOLEAN, leftOpen : BOOLEAN]
  BY DEF Inv, Shape, CallerShape
<1>2. /\ r \in RPCs /\ r.c = handlers[h].c /\ r.i = handlers[h].i
      /\ r.pc = "respond" /\ r.choice = handlers[h].choice
      /\ r.turn = handlers[h].turn /\ r.header = handlers[h].header
  <2>1. "respond" \in Places
    BY DEF Places
  <2> QED BY <1>1, <2>1 DEF RPCs
<1>3. HandlerStep(h, r)
  BY <1>2 DEF HandlerStep, StoreIdx
<1>4. handlers[h].pc = "store" /\ fakeResponses # <<>> => r.choice \in DOMAIN fakeResponses
  BY <1>2 DEF Inv, Shape
<1>5. handlers[h].count \in Nat
  BY <1>1 DEF RPCs
<1> HIDE DEF r
<1>6. Shape'
  BY <1>1, <1>2, <1>3, <1>4, <1>5, HandlerShape DEF StoreIdx
<1>7. Orderly'
  <2> SUFFICES ASSUME ~ history.overlapped PROVE Orderly'
    BY DEF StoreIdx, Orderly
  <2>1. h \in Busy /\ h \in Started /\ handlers[h].pc = "store"
    BY DEF StoreIdx, Busy, Started, Touching
  <2>2. fakeResponses # <<>> => r.choice = ((r.turn - 1) % Len(fakeResponses)) + 1
    BY <1>2, <2>1 DEF Inv, Orderly, OrderlyUnlessOverlapped
  <2>3. fakeResponses # <<>> => fakeResponsesIdx' = fakeResponsesIdx + 1
    BY <2>1 DEF Inv, Orderly, CountInv, StoreIdx
  <2>4. r.pc \notin Touching
    BY <1>2 DEF Touching
  <2> QED BY <1>2, <1>3, <2>1, <2>2, <2>3, <2>4, BusyStep DEF StoreIdx
<1> QED BY <1>6, <1>7 DEF Inv

\* The answer of a handler is what the script says, or a success.
LEMMA ResponseType ==
    ASSUME Inv, NEW h \in DOMAIN handlers, handlers[h].pc = "respond"
    PROVE  Response(h).err \in Errors \cup {OK, None}
<1>1. CASE fakeResponses = <<>>
  BY <1>1 DEF Response
<1>2. CASE fakeResponses # <<>>
  <2>1. handlers[h].choice \in DOMAIN fakeResponses /\ fakeResponses \in Seq(Responses)
    BY <1>2 DEF Inv, Shape
  <2>2. fakeResponses[handlers[h].choice] \in Responses
    BY <2>1
  <2> QED BY <1>2, <2>2 DEF Response, Responses
<1> QED BY <1>1, <1>2

LEMMA RespondStep ==
    ASSUME Inv, NEW h \in DOMAIN handlers, Respond(h)
    PROVE  Inv'
<1> DEFINE a == Response(h).err
           r == [handlers[h] EXCEPT !.pc = "done", !.answer = a]
<1>1. /\ handlers[h] \in RPCs /\ recordedRequests \in Seq(Records)
      /\ fakeResponsesIdx \in Nat
      /\ history \in [starts : Nat, overlapped : BOOLEAN, gaveUp : BOOLEAN, leftOpen : BOOLEAN]
  BY DEF Inv, Shape, CallerShape
<1>2. a \in Errors \cup {OK, None}
  BY ResponseType DEF Respond
<1>3. handlers' = [handlers EXCEPT ![h] = r]
  BY DEF Respond
<1> HIDE DEF a
<1>4. /\ r \in RPCs /\ r.c = handlers[h].c /\ r.i = handlers[h].i
      /\ r.pc = "done" /\ r.choice = handlers[h].choice
      /\ r.turn = handlers[h].turn /\ r.header = handlers[h].header
  <2>1. "done" \in Places
    BY DEF Places
  <2> QED BY <1>1, <1>2, <2>1 DEF RPCs
<1>5. HandlerStep(h, r)
  BY <1>3, <1>4 DEF HandlerStep, Respond
<1>6. handlers[h].pc = "respond" /\ fakeResponses # <<>> => r.choice \in DOMAIN fakeResponses
  BY <1>4 DEF Inv, Shape
<1> HIDE DEF r
<1>7. Shape'
  BY <1>1, <1>4, <1>5, <1>6, HandlerShape DEF Respond
<1>8. Orderly'
  <2> SUFFICES ASSUME ~ history.overlapped
               PROVE  (TurnInv /\ SliceInv /\ CountInv /\ OrderlyUnlessOverlapped)'
    BY DEF Respond, Orderly
  <2>1. TurnInv /\ SliceInv /\ CountInv /\ OrderlyUnlessOverlapped
    BY DEF Inv, Orderly
  <2>2. /\ DOMAIN handlers' = DOMAIN handlers
        /\ handlers'[h] = r
        /\ \A g \in DOMAIN handlers \ {h} : handlers'[g] = handlers[g]
        /\ \A g \in DOMAIN handlers : RecordOf(g)' = RecordOf(g)
    BY <1>5, HandlerFrame DEF Respond
  <2>3. Started' = Started /\ Busy' = Busy /\ h \in Started /\ h \notin Busy
        /\ Started \subseteq DOMAIN handlers /\ Busy \subseteq DOMAIN handlers
    BY <1>4, <2>2 DEF Respond, Started, Busy, Touching
  <2>4. handlers[h].pc = "respond"
    BY DEF Respond
  <2>5. UNCHANGED <<recordedRequests, fakeResponsesIdx, fakeResponses, history>>
    BY DEF Respond
  <2>6. TurnInv'
    BY <1>4, <2>1, <2>2, <2>3, <2>5 DEF TurnInv
  <2>7. SliceInv'
    BY <1>4, <2>1, <2>2, <2>3, <2>4, <2>5 DEF SliceInv
  <2>8. CountInv'
    BY <2>1, <2>2, <2>3, <2>5 DEF CountInv
  <2>9. OrderlyUnlessOverlapped'
    BY <1>4, <2>1, <2>2, <2>3, <2>4, <2>5 DEF OrderlyUnlessOverlapped
  <2> QED BY <2>6, <2>7, <2>8, <2>9
<1> QED BY <1>7, <1>8 DEF Inv

-------------------------------------------------------------------------------
\* A handler chooses a response only if there is a script.
HasScript == \A h \in DOMAIN handlers : handlers[h].pc = "pick" => fakeResponses # <<>>

LEMMA HandlerStepAll ==
    ASSUME Inv, HasScript, NEW h \in DOMAIN handlers,
           \/ LoadRecorded(h) \/ WriteElement(h) \/ StoreRecorded(h)
           \/ PickResponse(h) \/ LoadIdx(h) \/ StoreIdx(h)
           \/ Respond(h) \/ Panic(h)
    PROVE  Inv'
<1>1. CASE PickResponse(h)
  <2>1. fakeResponses # <<>>
    BY <1>1 DEF HasScript, PickResponse
  <2> QED BY <1>1, <2>1, PickResponseStep
<1>2. CASE Panic(h)
  <2>1. CallerShape'
    BY <1>2 DEF Panic, Inv, Shape, CallerShape
  <2> QED BY <1>2, <2>1, Quiet DEF Panic
<1> QED
  BY <1>1, <1>2, LoadRecordedStep, WriteElementStep, StoreRecordedStep, LoadIdxStep,
     StoreIdxStep, RespondStep

LEMMA HasScriptStep ==
    ASSUME Inv, HasScript, Next
    PROVE  HasScript'
<1>1. handlers \in Seq(RPCs) /\ \A h \in DOMAIN handlers : handlers[h] \in RPCs
  BY DEF Inv, Shape
<1>2. fakeResponses' = fakeResponses
  BY DEF Next, Call, ReadStream, Answered, GiveUp, LoadRecorded, WriteElement,
         StoreRecorded, PickResponse, LoadIdx, StoreIdx, Respond, Panic
<1>3. CASE \E r : r.pc = "sent" /\ handlers' = Append(handlers, r)
  <2>1. PICK r : r.pc = "sent" /\ handlers' = Append(handlers, r)
    BY <1>3
  <2>2. \A h \in DOMAIN handlers' : \/ h \in DOMAIN handlers /\ handlers'[h] = handlers[h]
                                    \/ handlers'[h] = r
    BY <1>1, <2>1
  <2> QED BY <1>2, <2>1, <2>2 DEF HasScript
<1>4. CASE UNCHANGED handlers
  BY <1>2, <1>4 DEF HasScript
<1>5. CASE \E h \in DOMAIN handlers :
             \/ LoadRecorded(h) \/ WriteElement(h) \/ StoreRecorded(h)
             \/ PickResponse(h) \/ LoadIdx(h) \/ StoreIdx(h) \/ Respond(h)
  <2>1. PICK h \in DOMAIN handlers :
             \/ LoadRecorded(h) \/ WriteElement(h) \/ StoreRecorded(h)
             \/ PickResponse(h) \/ LoadIdx(h) \/ StoreIdx(h) \/ Respond(h)
    BY <1>5
  <2>2. DOMAIN handlers' = DOMAIN handlers
        /\ \A g \in DOMAIN handlers \ {h} : handlers'[g] = handlers[g]
    BY <1>1, <2>1 DEF LoadRecorded, WriteElement, StoreRecorded, PickResponse, LoadIdx,
                     StoreIdx, Respond
  <2>3. handlers'[h].pc = "pick" => fakeResponses # <<>>
    <3>1. h \in DOMAIN handlers /\ handlers[h] \in RPCs
      BY <1>1
    <3>2. CASE LoadRecorded(h)
      <4>1. handlers'[h].pc = "append"
        BY <3>1, <3>2 DEF LoadRecorded, RPCs
      <4> QED BY <4>1
    <3>3. CASE WriteElement(h)
      <4>1. handlers'[h].pc = "written"
        BY <3>1, <3>3 DEF WriteElement, RPCs
      <4> QED BY <4>1
    <3>4. CASE PickResponse(h)
      <4>1. handlers'[h].pc = "load"
        BY <3>1, <3>4 DEF PickResponse, RPCs
      <4> QED BY <4>1
    <3>5. CASE LoadIdx(h)
      <4>1. handlers'[h].pc = "store"
        BY <3>1, <3>5 DEF LoadIdx, RPCs
      <4> QED BY <4>1
    <3>6. CASE StoreIdx(h)
      <4>1. handlers'[h].pc = "respond"
        BY <3>1, <3>6 DEF StoreIdx, RPCs
      <4> QED BY <4>1
    <3>7. CASE Respond(h)
      <4>1. handlers'[h].pc = "done"
        BY <3>1, <3>7 DEF Respond, RPCs
      <4> QED BY <4>1
    <3>8. CASE StoreRecorded(h)
      <4>1. handlers'[h].pc = IF fakeResponses = <<>> THEN "respond" ELSE "pick"
        BY <3>1, <3>8 DEF StoreRecorded, RPCs
      <4> QED BY <4>1
    <3> QED BY <2>1, <3>2, <3>3, <3>4, <3>5, <3>6, <3>7, <3>8
  <2> QED BY <1>2, <2>2, <2>3 DEF HasScript
<1>6. ASSUME NEW c \in Callers, Call(c) \/ ReadStream(c) \/ Answered(c) \/ GiveUp(c)
      PROVE  HasScript'
  <2>1. \/ UNCHANGED handlers
        \/ \E r : r.pc = "sent" /\ handlers' = Append(handlers, r)
    <3>1. \A i, a : NewRPC(c, i, a).pc = "sent"
      BY DEF NewRPC
    <3> QED BY <1>6, <3>1 DEF Call, ReadStream, Answered, GiveUp
  <2> QED BY <1>3, <1>4, <2>1
<1>7. ASSUME NEW h \in DOMAIN handlers, Panic(h) PROVE HasScript'
  BY <1>4, <1>7 DEF Panic
<1> QED BY <1>5, <1>6, <1>7 DEF Next

\* Both hold in every reachable state, for every choice of the constants.
THEOREM Invariance == Spec => [](Inv /\ HasScript)
<1>1. Init => Inv /\ HasScript
  <2>1. Init => HasScript
    BY DEF Init, HasScript
  <2> QED BY <2>1, InitInv
<1>2. Inv /\ HasScript /\ [Next]_vars => (Inv /\ HasScript)'
  <2> SUFFICES ASSUME Inv, HasScript, [Next]_vars PROVE Inv' /\ HasScript'
    OBVIOUS
  <2>1. CASE Next
    <3>1. HasScript'
      BY <2>1, HasScriptStep
    <3>2. Inv'
      BY <2>1, CallerStep, HandlerStepAll DEF Next
    <3> QED BY <3>1, <3>2
  <2>2. CASE UNCHANGED vars
    <3>1. CallerShape' /\ HasScript'
      BY <2>2 DEF vars, Inv, Shape, CallerShape, HasScript
    <3> QED BY <2>2, <3>1, Quiet DEF vars
  <2> QED BY <2>1, <2>2
<1> QED BY <1>1, <1>2, PTL DEF Spec

\* While no two handlers have overlapped, the slice of the server holds every
\* request at its handler's turn and the script is handed out round robin
\* (fake.go: the handlers and nextResponse).
THEOREM RecordedInOrder == Spec => []OrderlyUnlessOverlapped
<1>1. Inv => OrderlyUnlessOverlapped
  BY DEF Inv, Orderly, OrderlyUnlessOverlapped
<1> QED BY <1>1, Invariance, PTL

-------------------------------------------------------------------------------
(* A test with one caller that reads its streams *)

Programs ==
    \A d \in Callers : Len(program[d]) \in Nat /\ DOMAIN program[d] = 1..Len(program[d])

Alone(c) == Scripted(c) /\ ~ history.gaveUp /\ ~ history.leftOpen

Uncounted == {"sent", "append", "written", "pick", "load", "store"}

\* One handler at most is not done, the last; the caller waits for it or has
\* still to read its stream. The counter is behind it.
Sequential(c) ==
    /\ ~ crashed /\ ~ history.overlapped
    /\ Len(handlers) = made[c] /\ made[c] <= Len(program[c])
    /\ \A h \in DOMAIN handlers :
        /\ handlers[h].c = c /\ handlers[h].i = h
        /\ handlers[h].pc # "done" => h = Len(handlers) /\ (waiting[c] = h \/ h \in open[c])
        /\ handlers[h].choice \in {0, h}
        /\ handlers[h].pc \in {"load", "store", "respond", "done"} => handlers[h].choice = h
        /\ handlers[h].pc = "store" => handlers[h].count = h - 1
        /\ handlers[h].pc = "done" => handlers[h].answer = OK
        /\ handlers[h].pc \in Uncounted => fakeResponsesIdx = h - 1
    /\ (\A h \in DOMAIN handlers : handlers[h].pc \notin Uncounted) =>
            fakeResponsesIdx = Len(handlers)

SequentialInv == \A c \in Callers : Alone(c) => Sequential(c)

\* The script has a success of the right kind for the call of each handler.
LEMMA ScriptFits ==
    ASSUME Inv, Programs, NEW c \in Callers, Alone(c), Sequential(c), NEW h \in DOMAIN handlers
    PROVE  /\ Len(fakeResponses) \in Nat /\ fakeResponses # <<>>
           /\ h \in Nat /\ 1 <= h /\ h <= Len(fakeResponses)
           /\ handlers[h].choice = h =>
                Response(h).err = OK /\ Response(h).kind = KindFor[CallOf(h).t]
<1>1. /\ handlers \in Seq(RPCs) /\ fakeResponses \in Seq(Responses)
      /\ h \in 1..Len(handlers)
  BY DEF Inv, Shape
<1>2. h \in DOMAIN program[c] /\ h <= Len(program[c])
  BY <1>1 DEF Programs, Sequential
<1>3. fakeResponses # <<>> /\ h <= Len(fakeResponses)
  BY <1>1, <1>2 DEF Alone, Scripted, Programs
<1>4. fakeResponses[h] = [kind |-> KindFor[program[c][h].t], err |-> OK]
  BY <1>2 DEF Alone, Scripted
<1>5. CallOf(h) = program[c][h]
  BY DEF Sequential, CallOf
<1>6. handlers[h].choice = h => Response(h) = fakeResponses[h]
  BY <1>3 DEF Response
<1> QED BY <1>1, <1>3, <1>4, <1>5, <1>6

\* A step of the handler that is not done, which leaves the others alone.
LEMMA SequentialHandler ==
    ASSUME Inv, NEW c \in Callers, Sequential(c), NEW h \in DOMAIN handlers,
           handlers[h].pc # "done",
           DOMAIN handlers' = DOMAIN handlers, Len(handlers') = Len(handlers),
           \A g \in DOMAIN handlers \ {h} : handlers'[g] = handlers[g],
           handlers'[h].c = handlers[h].c, handlers'[h].i = handlers[h].i,
           UNCHANGED <<program, made, waiting, open>>,
           handlers'[h].choice \in {0, h},
           handlers'[h].pc \in {"load", "store", "respond", "done"} =>
                handlers'[h].choice = h,
           handlers'[h].pc = "store" => handlers'[h].count = h - 1,
           handlers'[h].pc = "done" => handlers'[h].answer = OK,
           fakeResponsesIdx' = IF handlers'[h].pc \in Uncounted THEN h - 1 ELSE h,
           ~ crashed', ~ history'.overlapped
    PROVE  Sequential(c)'
<1>1. /\ handlers \in Seq(RPCs) /\ h \in 1..Len(handlers)
  BY DEF Inv, Shape
<1>2. h = Len(handlers) /\ \A g \in DOMAIN handlers \ {h} : handlers[g].pc = "done"
  BY <1>1 DEF Sequential
<1>3. ASSUME NEW g \in DOMAIN handlers'
      PROVE  /\ handlers'[g].c = c /\ handlers'[g].i = g
             /\ handlers'[g].pc # "done" =>
                    g = Len(handlers') /\ (waiting'[c] = g \/ g \in open'[c])
             /\ handlers'[g].choice \in {0, g}
             /\ handlers'[g].pc \in {"load", "store", "respond", "done"} =>
                    handlers'[g].choice = g
             /\ handlers'[g].pc = "store" => handlers'[g].count = g - 1
             /\ handlers'[g].pc = "done" => handlers'[g].answer = OK
             /\ handlers'[g].pc \in Uncounted => fakeResponsesIdx' = g - 1
  <2>1. CASE g = h
    BY <1>2, <2>1 DEF Sequential
  <2>2. CASE g # h
    BY <1>2, <2>2 DEF Sequential, Uncounted
  <2> QED BY <2>1, <2>2
<1>4. (\A g \in DOMAIN handlers' : handlers'[g].pc \notin Uncounted) =>
            fakeResponsesIdx' = Len(handlers')
  BY <1>2
<1> QED BY <1>3, <1>4 DEF Sequential

\* What every step of a handler does to the list of handlers.
LEMMA OwnRecord ==
    ASSUME Inv, NEW h \in DOMAIN handlers, NEW r \in RPCs,
           handlers' = [handlers EXCEPT ![h] = r]
    PROVE  /\ DOMAIN handlers' = DOMAIN handlers /\ Len(handlers') = Len(handlers)
           /\ \A g \in DOMAIN handlers \ {h} : handlers'[g] = handlers[g]
           /\ handlers'[h] = r
<1>1. handlers \in Seq(RPCs)
  BY DEF Inv, Shape
<1>2. handlers' \in Seq(RPCs)
  BY <1>1
<1> QED BY <1>1, <1>2

\* Each step of a handler is one of those.
LEMMA SequentialHandlerStep ==
    ASSUME Inv, Programs, NEW c \in Callers, Alone(c), Sequential(c), NEW h \in DOMAIN handlers,
           \/ LoadRecorded(h) \/ WriteElement(h) \/ StoreRecorded(h)
           \/ PickResponse(h) \/ LoadIdx(h) \/ StoreIdx(h)
           \/ Respond(h) \/ Panic(h)
    PROVE  Sequential(c)'
<1>1. /\ handlers \in Seq(RPCs) /\ handlers[h] \in RPCs /\ h \in 1..Len(handlers)
      /\ fakeResponsesIdx \in Nat
      /\ history \in [starts : Nat, overlapped : BOOLEAN, gaveUp : BOOLEAN, leftOpen : BOOLEAN]
  BY DEF Inv, Shape, CallerShape
<1>2. /\ Len(fakeResponses) \in Nat /\ fakeResponses # <<>>
      /\ h \in Nat /\ 1 <= h /\ h <= Len(fakeResponses)
      /\ handlers[h].choice = h =>
           Response(h).err = OK /\ Response(h).kind = KindFor[CallOf(h).t]
  BY ScriptFits
<1>3. /\ handlers[h].choice \in {0, h}
      /\ handlers[h].pc \in {"load", "store", "respond", "done"} => handlers[h].choice = h
      /\ handlers[h].pc = "store" => handlers[h].count = h - 1
      /\ handlers[h].pc \in Uncounted => fakeResponsesIdx = h - 1
      /\ handlers[h].pc # "done" => h = Len(handlers)
      /\ ~ crashed /\ ~ history.overlapped
  BY DEF Sequential
<1>4. handlers[h].pc \notin Uncounted /\ handlers[h].pc # "done" => fakeResponsesIdx = h
  <2>1. \A g \in DOMAIN handlers \ {h} :
            handlers[h].pc # "done" => handlers[g].pc = "done"
    BY <1>1 DEF Sequential
  <2> QED BY <1>3, <2>1 DEF Sequential, Uncounted
<1> DEFINE Frame == /\ DOMAIN handlers' = DOMAIN handlers /\ Len(handlers') = Len(handlers)
                    /\ \A g \in DOMAIN handlers \ {h} : handlers'[g] = handlers[g]
                    /\ handlers'[h].c = handlers[h].c /\ handlers'[h].i = handlers[h].i
                    /\ UNCHANGED <<program, made, waiting, open>>
<1>5. CASE LoadRecorded(h)
  <2>1. Busy = {}
    <3>1. \A g \in DOMAIN handlers : handlers[g].pc = "done" \/ handlers[g].pc = "sent"
      <4>1. handlers[h].pc = "sent"
        BY <1>5 DEF LoadRecorded
      <4> QED BY <1>1, <4>1 DEF Sequential
    <3> QED BY <3>1 DEF Busy, Touching
  <2>2. Frame /\ handlers'[h].pc = "append" /\ handlers'[h].choice = handlers[h].choice
    <3> DEFINE r == [handlers[h] EXCEPT !.pc = "append", !.header = recordedRequests,
                                          !.turn = history.starts + 1]
    <3>1. handlers' = [handlers EXCEPT ![h] = r]
      BY <1>1, <1>5 DEF LoadRecorded
    <3>2. r \in RPCs
      <4>1. recordedRequests \in Seq(Records) /\ history.starts + 1 \in Nat
        BY <1>1 DEF Inv, Shape
      <4> QED BY <1>1, <4>1 DEF RPCs, Places
    <3>3. DOMAIN handlers' = DOMAIN handlers /\ Len(handlers') = Len(handlers)
          /\ (\A g \in DOMAIN handlers \ {h} : handlers'[g] = handlers[g])
          /\ handlers'[h] = r
      BY <3>1, <3>2, OwnRecord
    <3>4. UNCHANGED <<program, made, waiting, open>>
      BY <1>1, <1>5 DEF LoadRecorded
    <3> QED BY <1>1, <3>3, <3>4 DEF RPCs
  <2>3. ~ history'.overlapped /\ ~ crashed' /\ fakeResponsesIdx' = fakeResponsesIdx
    BY <1>1, <1>3, <1>5, <2>1 DEF LoadRecorded
  <2>4. handlers[h].pc = "sent" /\ "sent" \in Uncounted /\ "append" \in Uncounted
    BY <1>5 DEF LoadRecorded, Uncounted
  <2> QED BY <1>3, <2>2, <2>3, <2>4, SequentialHandler
<1>6. CASE WriteElement(h)
  <2>1. Frame /\ handlers'[h].pc = "written" /\ handlers'[h].choice = handlers[h].choice
    <3> DEFINE r == [handlers[h] EXCEPT !.pc = "written"]
    <3>1. handlers' = [handlers EXCEPT ![h] = r]
      BY <1>1, <1>6 DEF WriteElement
    <3>2. r \in RPCs
      BY <1>1 DEF RPCs, Places
    <3>3. DOMAIN handlers' = DOMAIN handlers /\ Len(handlers') = Len(handlers)
          /\ (\A g \in DOMAIN handlers \ {h} : handlers'[g] = handlers[g])
          /\ handlers'[h] = r
      BY <3>1, <3>2, OwnRecord
    <3>4. UNCHANGED <<program, made, waiting, open>>
      BY <1>1, <1>6 DEF WriteElement
    <3> QED BY <1>1, <3>3, <3>4 DEF RPCs
  <2>2. handlers[h].pc = "append" /\ "append" \in Uncounted /\ "written" \in Uncounted
    BY <1>6 DEF WriteElement, Uncounted
  <2>3. UNCHANGED <<fakeResponsesIdx, crashed, history>>
    BY <1>6 DEF WriteElement
  <2> QED BY <1>3, <2>1, <2>2, <2>3, SequentialHandler
<1>7. CASE StoreRecorded(h)
  <2>1. Frame /\ handlers'[h].pc = "pick" /\ handlers'[h].choice = handlers[h].choice
    <3> DEFINE r == [handlers[h] EXCEPT !.pc = "pick"]
    <3>1. handlers' = [handlers EXCEPT ![h] = r]
      BY <1>1, <1>2, <1>7 DEF StoreRecorded
    <3>2. r \in RPCs
      BY <1>1 DEF RPCs, Places
    <3>3. DOMAIN handlers' = DOMAIN handlers /\ Len(handlers') = Len(handlers)
          /\ (\A g \in DOMAIN handlers \ {h} : handlers'[g] = handlers[g])
          /\ handlers'[h] = r
      BY <3>1, <3>2, OwnRecord
    <3>4. UNCHANGED <<program, made, waiting, open>>
      BY <1>1, <1>2, <1>7 DEF StoreRecorded
    <3> QED BY <1>1, <3>3, <3>4 DEF RPCs
  <2>2. handlers[h].pc = "written" /\ "written" \in Uncounted /\ "pick" \in Uncounted
    BY <1>7 DEF StoreRecorded, Uncounted
  <2>3. UNCHANGED <<fakeResponsesIdx, crashed, history>>
    BY <1>7 DEF StoreRecorded
  <2> QED BY <1>3, <2>1, <2>2, <2>3, SequentialHandler
<1>8. CASE PickResponse(h)
  <2>1. handlers[h].pc = "pick" /\ "pick" \in Uncounted /\ "load" \in Uncounted
    BY <1>8 DEF PickResponse, Uncounted
  <2>2. (fakeResponsesIdx % Len(fakeResponses)) + 1 = h
    <3>1. fakeResponsesIdx = h - 1 /\ 0 <= h - 1 /\ h - 1 < Len(fakeResponses)
      BY <1>2, <1>3, <2>1
    <3>2. (h - 1) % Len(fakeResponses) = h - 1
      BY <1>2, <3>1
    <3> QED BY <1>2, <3>1, <3>2
  <2>3. handlers' = [handlers EXCEPT ![h].pc = "load", ![h].choice = h]
    BY <1>8, <2>2 DEF PickResponse
  <2>4. UNCHANGED <<program, made, waiting, open, fakeResponsesIdx, crashed, history>>
    BY <1>8 DEF PickResponse
  <2>5. Frame /\ handlers'[h].pc = "load" /\ handlers'[h].choice = h
    <3> DEFINE r == [handlers[h] EXCEPT !.pc = "load", !.choice = h]
    <3>1. handlers' = [handlers EXCEPT ![h] = r]
      BY <1>1, <2>3, <2>4
    <3>2. r \in RPCs
      <4>1. h \in Nat /\ "load" \in Places
        BY <1>2 DEF Places
      <4> QED BY <1>1, <4>1 DEF RPCs
    <3>3. DOMAIN handlers' = DOMAIN handlers /\ Len(handlers') = Len(handlers)
          /\ (\A g \in DOMAIN handlers \ {h} : handlers'[g] = handlers[g])
          /\ handlers'[h] = r
      BY <3>1, <3>2, OwnRecord
    <3>4. UNCHANGED <<program, made, waiting, open>>
      BY <1>1, <2>3, <2>4
    <3> QED BY <1>1, <3>3, <3>4 DEF RPCs
  <2> QED BY <1>3, <2>1, <2>4, <2>5, SequentialHandler
<1>9. CASE LoadIdx(h)
  <2>1. /\ Frame /\ handlers'[h].pc = "store" /\ handlers'[h].choice = handlers[h].choice
        /\ handlers'[h].count = fakeResponsesIdx
    <3> DEFINE r == [handlers[h] EXCEPT !.pc = "store", !.count = fakeResponsesIdx]
    <3>1. handlers' = [handlers EXCEPT ![h] = r]
      BY <1>1, <1>9 DEF LoadIdx
    <3>2. r \in RPCs
      BY <1>1 DEF RPCs, Places
    <3>3. DOMAIN handlers' = DOMAIN handlers /\ Len(handlers') = Len(handlers)
          /\ (\A g \in DOMAIN handlers \ {h} : handlers'[g] = handlers[g])
          /\ handlers'[h] = r
      BY <3>1, <3>2, OwnRecord
    <3>4. UNCHANGED <<program, made, waiting, open>>
      BY <1>1, <1>9 DEF LoadIdx
    <3> QED BY <1>1, <3>3, <3>4 DEF RPCs
  <2>2. handlers[h].pc = "load" /\ "load" \in Uncounted /\ "store" \in Uncounted
    BY <1>9 DEF LoadIdx, Uncounted
  <2>3. UNCHANGED <<fakeResponsesIdx, crashed, history>>
    BY <1>9 DEF LoadIdx
  <2> QED BY <1>3, <2>1, <2>2, <2>3, SequentialHandler
<1>10. CASE StoreIdx(h)
  <2>1. Frame /\ handlers'[h].pc = "respond" /\ handlers'[h].choice = handlers[h].choice
    <3> DEFINE r == [handlers[h] EXCEPT !.pc = "respond"]
    <3>1. handlers' = [handlers EXCEPT ![h] = r]
      BY <1>1, <1>10 DEF StoreIdx
    <3>2. r \in RPCs
      BY <1>1 DEF RPCs, Places
    <3>3. DOMAIN handlers' = DOMAIN handlers /\ Len(handlers') = Len(handlers)
          /\ (\A g \in DOMAIN handlers \ {h} : handlers'[g] = handlers[g])
          /\ handlers'[h] = r
      BY <3>1, <3>2, OwnRecord
    <3>4. UNCHANGED <<program, made, waiting, open>>
      BY <1>1, <1>10 DEF StoreIdx
    <3> QED BY <1>1, <3>3, <3>4 DEF RPCs
  <2>2. handlers[h].pc = "store" /\ "respond" \notin Uncounted
    BY <1>10 DEF StoreIdx, Uncounted
  <2>3. fakeResponsesIdx' = h
    BY <1>2, <1>3, <1>10, <2>2 DEF StoreIdx
  <2>4. UNCHANGED <<crashed, history>>
    BY <1>10 DEF StoreIdx
  <2> QED BY <1>3, <2>1, <2>2, <2>3, <2>4, SequentialHandler
<1>11. CASE Respond(h)
  <2>1. handlers[h].pc = "respond" /\ "respond" \notin Uncounted /\ "done" \notin Uncounted
    BY <1>11 DEF Respond, Uncounted
  <2>2. handlers[h].choice = h /\ Response(h).err = OK
    BY <1>2, <1>3, <2>1
  <2>3. handlers' = [handlers EXCEPT ![h].pc = "done", ![h].answer = OK]
    BY <1>11, <2>2 DEF Respond
  <2>4. UNCHANGED <<program, made, waiting, open, fakeResponsesIdx, crashed, history>>
    BY <1>11 DEF Respond
  <2>5. /\ Frame /\ handlers'[h].pc = "done" /\ handlers'[h].choice = handlers[h].choice
        /\ handlers'[h].answer = OK
    <3> DEFINE r == [handlers[h] EXCEPT !.pc = "done", !.answer = OK]
    <3>1. handlers' = [handlers EXCEPT ![h] = r]
      BY <1>1, <2>3, <2>4
    <3>2. r \in RPCs
      BY <1>1 DEF RPCs, Places
    <3>3. DOMAIN handlers' = DOMAIN handlers /\ Len(handlers') = Len(handlers)
          /\ (\A g \in DOMAIN handlers \ {h} : handlers'[g] = handlers[g])
          /\ handlers'[h] = r
      BY <3>1, <3>2, OwnRecord
    <3>4. UNCHANGED <<program, made, waiting, open>>
      BY <1>1, <2>3, <2>4
    <3> QED BY <1>1, <3>3, <3>4 DEF RPCs
  <2> QED BY <1>3, <1>4, <2>1, <2>2, <2>4, <2>5, SequentialHandler
<1>12. CASE Panic(h)
  BY <1>2, <1>3, <1>12 DEF Panic
<1> QED BY <1>5, <1>6, <1>7, <1>8, <1>9, <1>10, <1>11, <1>12


\* A caller that has read all its streams calls when every handler is done; an
\* answer is a success, so that nothing is sent again.
LEMMA SequentialCaller ==
    ASSUME Inv, Programs, NEW c \in Callers, Alone(c), Sequential(c), Alone(c)',
           NEW d \in Callers, Call(d) \/ ReadStream(d) \/ Answered(d) \/ GiveUp(d)
    PROVE  Sequential(c)'
<1>1. /\ handlers \in Seq(RPCs) /\ Len(handlers) \in Nat /\ DOMAIN handlers = 1..Len(handlers)
      /\ made \in [Callers -> Nat] /\ waiting \in [Callers -> 0..Len(handlers)]
      /\ open \in [Callers -> SUBSET (1..Len(handlers))]
      /\ history \in [starts : Nat, overlapped : BOOLEAN, gaveUp : BOOLEAN, leftOpen : BOOLEAN]
  BY DEF Inv, Shape, CallerShape
<1>2. CASE Call(d)
  <2>1. d = c
    <3>1. ASSUME d # c PROVE FALSE
      <4>1. program[d] = <<>>
        BY <3>1 DEF Alone, Scripted
      <4> QED BY <1>1, <1>2, <4>1 DEF Call
    <3> QED BY <3>1
  <2>2. open[c] = {} /\ waiting[c] = 0
    <3>1. history' = [history EXCEPT !.leftOpen = history.leftOpen \/ open[c] # {}]
      BY <1>2, <2>1 DEF Call
    <3>2. history'.leftOpen = (history.leftOpen \/ open[c] # {})
      BY <1>1, <3>1
    <3> QED BY <1>2, <2>1, <3>2 DEF Call, Alone
  <2>3. \A h \in DOMAIN handlers : handlers[h].pc = "done"
    BY <1>1, <2>2 DEF Sequential
  <2> DEFINE n == Len(handlers) + 1
             r == NewRPC(c, n, 0)
  <2>4. handlers' = Append(handlers, r) /\ made' = [made EXCEPT ![c] = n]
    BY <1>1, <1>2, <2>1 DEF Call, Sequential
  <2>5. r.c = c /\ r.i = n /\ r.pc = "sent" /\ r.choice = 0 /\ r \in RPCs
    BY <1>1 DEF NewRPC, RPCs, Places
  <2> HIDE DEF r
  <2>6. /\ Len(handlers') = n /\ DOMAIN handlers' = 1..n
        /\ handlers'[n] = r /\ \A h \in DOMAIN handlers : handlers'[h] = handlers[h]
    BY <1>1, <2>4, <2>5
  <2>7. fakeResponsesIdx = Len(handlers)
    BY <2>3 DEF Sequential, Uncounted
  <2>8. /\ UNCHANGED <<program, fakeResponsesIdx, crashed>>
        /\ history'.overlapped = history.overlapped
    BY <1>1, <1>2 DEF Call
  <2>9. made'[c] = n /\ n <= Len(program'[c])
    <3>1. made[c] < Len(program[c]) /\ made[c] = Len(handlers)
      BY <1>2, <2>1 DEF Call, Sequential
    <3> QED BY <1>1, <2>4, <2>8, <3>1 DEF Programs
  <2>10. waiting'[c] = n \/ n \in open'[c]
    BY <1>1, <1>2, <2>1 DEF Call
  <2>11. ASSUME NEW h \in DOMAIN handlers'
         PROVE  /\ handlers'[h].c = c /\ handlers'[h].i = h
                /\ handlers'[h].pc # "done" =>
                       h = Len(handlers') /\ (waiting'[c] = h \/ h \in open'[c])
                /\ handlers'[h].choice \in {0, h}
                /\ handlers'[h].pc \in {"load", "store", "respond", "done"} =>
                       handlers'[h].choice = h
                /\ handlers'[h].pc = "store" => handlers'[h].count = h - 1
                /\ handlers'[h].pc = "done" => handlers'[h].answer = OK
                /\ handlers'[h].pc \in Uncounted => fakeResponsesIdx' = h - 1
    <3>1. CASE h = n
      BY <1>1, <2>5, <2>6, <2>7, <2>8, <2>10, <3>1
    <3>2. CASE h # n
      <4>1. h \in DOMAIN handlers /\ handlers'[h] = handlers[h]
        BY <1>1, <2>6, <3>2
      <4> QED BY <2>3, <4>1 DEF Sequential, Uncounted
    <3> QED BY <3>1, <3>2
  <2>12. handlers'[n].pc \in Uncounted /\ n \in DOMAIN handlers'
    BY <1>1, <2>5, <2>6 DEF Uncounted
  <2> QED BY <2>6, <2>8, <2>9, <2>11, <2>12 DEF Sequential
<1>3. CASE ReadStream(d)
  <2>1. UNCHANGED <<program, handlers, made, fakeResponsesIdx, crashed, history>>
    BY <1>3 DEF ReadStream
  <2>2. \A h : waiting[c] = h \/ h \in open[c] =>
            waiting'[c] = h \/ h \in open'[c] \/ h = 0
    BY <1>1, <1>3 DEF ReadStream
  <2>3. \A h \in DOMAIN handlers : h # 0
    BY <1>1
  <2> QED BY <2>1, <2>2, <2>3 DEF Sequential
<1>4. CASE Answered(d)
  <2>1. waiting[d] \in DOMAIN handlers /\ handlers[waiting[d]].pc = "done"
    BY <1>1, <1>4 DEF Answered
  <2>2. ~ Again(waiting[d])
    BY <2>1 DEF Sequential, Again
  <2>3. UNCHANGED handlers /\ waiting' = [waiting EXCEPT ![d] = 0]
    BY <1>4, <2>2 DEF Answered
  <2>4. UNCHANGED <<program, made, open, fakeResponsesIdx, crashed, history>>
    BY <1>4 DEF Answered
  <2>5. \A h \in DOMAIN handlers :
            handlers[h].pc # "done" /\ waiting[c] = h => waiting'[c] = h
    BY <1>1, <2>1, <2>3
  <2> QED BY <2>3, <2>4, <2>5 DEF Sequential
<1>5. CASE GiveUp(d)
  <2>1. history'.gaveUp
    BY <1>1, <1>5 DEF GiveUp
  <2> QED BY <2>1 DEF Alone
<1> QED BY <1>2, <1>3, <1>4, <1>5

LEMMA SequentialInit == Init => Programs /\ SequentialInv
<1> SUFFICES ASSUME Init PROVE Programs /\ SequentialInv
  OBVIOUS
<1>1. PICK test \in Tests : program = test.program
  BY DEF Init
<1>2. Programs
  BY <1>1, FakeAssumption DEF Programs
<1>3. SequentialInv
  BY <1>2 DEF Init, SequentialInv, Sequential, Programs
<1> QED BY <1>2, <1>3

LEMMA SequentialStep ==
    ASSUME Inv, Programs, SequentialInv, [Next]_vars
    PROVE  Programs' /\ SequentialInv'
<1>1. /\ UNCHANGED <<program, fakeResponses>>
      /\ history.gaveUp => history'.gaveUp
      /\ history.leftOpen => history'.leftOpen
  <2>1. history \in [starts : Nat, overlapped : BOOLEAN, gaveUp : BOOLEAN, leftOpen : BOOLEAN]
    BY DEF Inv, Shape, CallerShape
  <2>2. UNCHANGED <<program, fakeResponses>>
    BY DEF Next, vars, Call, ReadStream, Answered, GiveUp, LoadRecorded, WriteElement,
           StoreRecorded, PickResponse, LoadIdx, StoreIdx, Respond, Panic
  <2>3. CASE \E c \in Callers : Call(c)
    <3>1. PICK c \in Callers : Call(c)
      BY <2>3
    <3>2. history' = [history EXCEPT !.leftOpen = history.leftOpen \/ open[c] # {}]
      BY <3>1 DEF Call
    <3> QED BY <2>1, <2>2, <3>2
  <2>4. CASE \E c \in Callers : GiveUp(c)
    BY <2>1, <2>2, <2>4 DEF GiveUp
  <2>5. CASE \E h \in DOMAIN handlers : LoadRecorded(h)
    BY <2>1, <2>2, <2>5 DEF LoadRecorded
  <2>6. CASE UNCHANGED history
    BY <2>2, <2>6
  <2> QED
    BY <2>3, <2>4, <2>5, <2>6
    DEF Next, vars, ReadStream, Answered, WriteElement, StoreRecorded, PickResponse, LoadIdx,
        StoreIdx, Respond, Panic
<1>2. Programs'
  BY <1>1 DEF Programs
<1>3. ASSUME NEW c \in Callers, Alone(c)'
      PROVE  Sequential(c)'
  <2>1. Alone(c)
    BY <1>1, <1>3 DEF Alone, Scripted
  <2>2. Sequential(c)
    BY <2>1 DEF SequentialInv
  <2>3. CASE Next
    BY <1>3, <2>1, <2>2, <2>3, SequentialCaller, SequentialHandlerStep DEF Next
  <2>4. CASE UNCHANGED vars
    BY <2>2, <2>4 DEF vars, Sequential
  <2> QED BY <2>3, <2>4
<1> QED BY <1>2, <1>3 DEF SequentialInv

\* A test with one caller that reads its streams gets the script that it wrote,
\* one response for each call in order, and its server does not crash: the
\* counter of nextResponse (fake.go) is one behind the call.
THEOREM InTurn == Spec => []SequentialTestGetsItsScript
<1>1. Inv /\ SequentialInv => SequentialTestGetsItsScript
  <2> SUFFICES ASSUME Inv, SequentialInv, NEW c \in Callers, Alone(c)
               PROVE  /\ ~ crashed /\ ~ history.overlapped
                      /\ \A h \in DOMAIN handlers : handlers[h].choice \in {0, handlers[h].i}
    BY DEF SequentialTestGetsItsScript, Alone
  <2>1. Sequential(c)
    BY DEF SequentialInv
  <2> QED BY <2>1 DEF Sequential
<1>2. Inv /\ Programs /\ SequentialInv /\ [Next]_vars => (Programs /\ SequentialInv)'
  BY SequentialStep
<1> QED BY <1>1, <1>2, SequentialInit, Invariance, PTL DEF Spec

-------------------------------------------------------------------------------
(* The counts *)

Stored == {h \in DOMAIN handlers : handlers[h].pc \in {"respond", "done"}}

\* What a handler has loaded is not more than what handlers have done.
WellCounted(h) ==
    /\ handlers[h].i \in 1..made[handlers[h].c]
    /\ handlers[h].attempt \in 0..(MaxAttempts - 1)
    /\ handlers[h].turn <= history.starts
    /\ handlers[h].pc # "sent" => Len(handlers[h].header) < handlers[h].turn
    /\ handlers[h].choice <= Len(fakeResponses)
    /\ handlers[h].count <= Cardinality(Stored)

Counted ==
    /\ [program |-> program, script |-> fakeResponses] \in Tests
    /\ crashed \in BOOLEAN
    /\ history.starts = Cardinality(Started)
    /\ Len(recordedRequests) <= history.starts
    /\ fakeResponsesIdx <= Cardinality(Stored)
    /\ \A h \in DOMAIN handlers : WellCounted(h)

LEMMA CountedInit == Init => Counted
<1> SUFFICES ASSUME Init PROVE Counted
  OBVIOUS
<1>1. PICK test \in Tests : program = test.program /\ fakeResponses = test.script
  BY DEF Init
<1>2. [program |-> program, script |-> fakeResponses] \in Tests
  BY <1>1, FakeAssumption
<1>3. Started = {} /\ Stored = {}
  BY DEF Init, Started, Stored
<1>4. Cardinality(Started) = 0 /\ Cardinality(Stored) = 0
  BY <1>3, FS_EmptySet
<1>5. DOMAIN handlers = {} /\ Len(recordedRequests) = 0
  BY DEF Init
<1>6. \A h \in DOMAIN handlers : WellCounted(h)
  BY <1>5
<1>7. crashed \in BOOLEAN /\ history.starts = 0 /\ fakeResponsesIdx = 0
  BY DEF Init
<1> QED BY <1>2, <1>4, <1>5, <1>6, <1>7 DEF Counted

\* The sets that are counted are finite.
LEMMA Counts ==
    ASSUME Inv
    PROVE  /\ IsFiniteSet(Started) /\ Cardinality(Started) \in 0..Len(handlers)
           /\ IsFiniteSet(Stored) /\ Cardinality(Stored) \in 0..Cardinality(Started)
<1>1. Len(handlers) \in Nat /\ DOMAIN handlers = 1..Len(handlers)
  BY DEF Inv, Shape
<1>2. IsFiniteSet(DOMAIN handlers) /\ Cardinality(DOMAIN handlers) = Len(handlers)
  <2>1. /\ IsFiniteSet(1..Len(handlers))
        /\ Cardinality(1..Len(handlers)) =
             IF 1 > Len(handlers) THEN 0 ELSE Len(handlers) - 1 + 1
    BY <1>1, FS_Interval
  <2> QED BY <1>1, <2>1
<1>3. Started \in SUBSET DOMAIN handlers /\ Stored \in SUBSET Started
  BY DEF Started, Stored
<1>4. IsFiniteSet(Started) /\ Cardinality(Started) <= Len(handlers)
  BY <1>2, <1>3, FS_Subset
<1>5. IsFiniteSet(Stored) /\ Cardinality(Stored) <= Cardinality(Started)
  BY <1>3, <1>4, FS_Subset
<1> QED BY <1>4, <1>5, FS_CardinalityType

\* A request more: nothing is counted yet.
LEMMA CountedSent ==
    ASSUME Inv, Counted, NEW c \in Callers, NEW i \in Nat, NEW a \in Nat,
           handlers' = Append(handlers, NewRPC(c, i, a)),
           i \in 1..made'[c], a \in 0..(MaxAttempts - 1),
           \A d \in Callers : made[d] <= made'[d], made' \in [Callers -> Nat],
           history'.starts = history.starts,
           UNCHANGED <<program, fakeResponses, recordedRequests, fakeResponsesIdx, crashed>>
    PROVE  Counted'
<1>1. NewRPC(c, i, a) \in RPCs /\ NewRPC(c, i, a).pc = "sent"
  BY DEF NewRPC, RPCs, Places
<1>2. /\ handlers \in Seq(RPCs) /\ made \in [Callers -> Nat]
      /\ fakeResponses \in Seq(Responses) /\ history.starts \in Nat
  BY DEF Inv, Shape, CallerShape
<1>3. /\ DOMAIN handlers' = DOMAIN handlers \cup {Len(handlers) + 1}
      /\ Len(handlers) + 1 \notin DOMAIN handlers
      /\ \A h \in DOMAIN handlers : handlers'[h] = handlers[h]
      /\ handlers'[Len(handlers) + 1] = NewRPC(c, i, a)
  BY <1>1, <1>2
<1>4. Started' = Started /\ Stored' = Stored
  BY <1>1, <1>3 DEF Started, Stored
<1>5. ASSUME NEW h \in DOMAIN handlers' PROVE WellCounted(h)'
  <2>1. CASE h \in DOMAIN handlers
    <3>1. handlers[h] \in RPCs /\ WellCounted(h)
      BY <1>2, <2>1 DEF Counted
    <3>2. handlers[h].i \in 1..made'[handlers[h].c]
      <4>1. handlers[h].c \in Callers /\ handlers[h].i \in 1..made[handlers[h].c]
        BY <3>1 DEF WellCounted, RPCs
      <4> QED BY <1>2, <4>1
    <3> QED BY <1>3, <1>4, <2>1, <3>1, <3>2 DEF WellCounted
  <2>2. CASE h = Len(handlers) + 1
    <3>1. Cardinality(Stored) \in Nat /\ Len(fakeResponses) \in Nat
      BY <1>2, Counts
    <3> QED BY <1>2, <1>3, <1>4, <2>2, <3>1 DEF WellCounted, NewRPC
  <2> QED BY <1>3, <2>1, <2>2
<1> QED BY <1>4, <1>5 DEF Counted

\* A step of one handler, which may be counted as started or as stored.
LEMMA CountedHandler ==
    ASSUME Inv, Counted, NEW h \in DOMAIN handlers, NEW r \in RPCs,
           handlers' = [handlers EXCEPT ![h] = r],
           UNCHANGED <<program, fakeResponses, made, crashed>>,
           r.c = handlers[h].c, r.i = handlers[h].i, r.attempt = handlers[h].attempt,
           r.pc # "sent",
           history'.starts = IF handlers[h].pc = "sent" THEN history.starts + 1
                             ELSE history.starts,
           handlers[h].pc \in {"respond", "done"} => r.pc \in {"respond", "done"},
           r.turn <= history'.starts, Len(r.header) < r.turn,
           r.choice <= Len(fakeResponses), r.count <= Cardinality(Stored),
           Len(recordedRequests') <= history'.starts,
           fakeResponsesIdx' \in Nat,
           fakeResponsesIdx' <= IF handlers[h].pc \notin {"respond", "done"}
                                     /\ r.pc \in {"respond", "done"}
                                THEN Cardinality(Stored) + 1 ELSE Cardinality(Stored)
    PROVE  Counted'
<1>1. /\ handlers \in Seq(RPCs) /\ history.starts \in Nat
      /\ \A g \in DOMAIN handlers : handlers[g] \in RPCs
  BY DEF Inv, Shape, CallerShape
<1>2. /\ DOMAIN handlers' = DOMAIN handlers
      /\ \A g \in DOMAIN handlers \ {h} : handlers'[g] = handlers[g]
      /\ handlers'[h] = r
  BY OwnRecord
<1>3. Cardinality(Started) \in Nat /\ Cardinality(Stored) \in Nat
      /\ IsFiniteSet(Started) /\ IsFiniteSet(Stored)
  BY Counts
<1>4. history'.starts = Cardinality(Started')
  <2>1. Started' = Started \cup {h}
    BY <1>2 DEF Started
  <2>2. h \in Started <=> handlers[h].pc # "sent"
    BY DEF Started
  <2>3. Cardinality(Started \cup {h}) =
            IF h \in Started THEN Cardinality(Started) ELSE Cardinality(Started) + 1
    BY <1>3, FS_AddElement
  <2> QED BY <2>1, <2>2, <2>3 DEF Counted
<1>5. Cardinality(Stored') = IF handlers[h].pc \notin {"respond", "done"}
                                     /\ r.pc \in {"respond", "done"}
                                THEN Cardinality(Stored) + 1 ELSE Cardinality(Stored)
  <2>1. CASE r.pc \in {"respond", "done"}
    <3>1. Stored' = Stored \cup {h}
      BY <1>2, <2>1 DEF Stored
    <3>2. h \in Stored <=> handlers[h].pc \in {"respond", "done"}
      BY DEF Stored
    <3> QED BY <1>3, <2>1, <3>1, <3>2, FS_AddElement
  <2>2. CASE r.pc \notin {"respond", "done"}
    <3>1. Stored' = Stored
      BY <1>2, <2>2 DEF Stored
    <3> QED BY <2>2, <3>1
  <2> QED BY <2>1, <2>2
<1>6. Cardinality(Stored) <= Cardinality(Stored') /\ Cardinality(Stored') \in Nat
  BY <1>3, <1>5
<1>7. ASSUME NEW g \in DOMAIN handlers' PROVE WellCounted(g)'
  <2>1. WellCounted(g) /\ handlers[g] \in RPCs /\ g \in DOMAIN handlers
    BY <1>1, <1>2 DEF Counted
  <2>2. CASE g = h
    <3>1. handlers'[g].count <= Cardinality(Stored')
      BY <1>2, <1>3, <1>6, <2>1, <2>2 DEF WellCounted, RPCs
    <3>2. /\ handlers'[g].i \in 1..made'[handlers'[g].c]
          /\ handlers'[g].attempt \in 0..(MaxAttempts - 1)
      BY <1>2, <1>3, <2>1, <2>2 DEF WellCounted, RPCs
    <3>3. /\ handlers'[g].turn <= history'.starts
          /\ handlers'[g].pc # "sent" => Len(handlers'[g].header) < handlers'[g].turn
          /\ handlers'[g].choice <= Len(fakeResponses')
      BY <1>2, <1>3, <2>1, <2>2 DEF WellCounted, RPCs
    <3> QED BY <3>1, <3>2, <3>3 DEF WellCounted
  <2>3. CASE g # h
    <3>1. handlers'[g] = handlers[g] /\ history.starts <= history'.starts
      BY <1>1, <1>2, <2>1, <2>3
    <3>2. handlers[g].turn \in Nat /\ handlers[g].count \in Nat
      BY <2>1 DEF RPCs
    <3>3. handlers[g].turn <= history'.starts /\ handlers[g].count <= Cardinality(Stored')
      <4>1. /\ handlers[g].turn <= history.starts /\ history.starts \in Nat
            /\ handlers[g].count <= Cardinality(Stored) /\ Cardinality(Stored) \in Nat
        BY <1>1, <1>3, <2>1 DEF WellCounted
      <4>2. history'.starts \in Nat
        BY <1>1
      <4> QED BY <1>6, <3>1, <3>2, <4>1, <4>2
    <3> QED BY <2>1, <3>1, <3>3 DEF WellCounted
  <2> QED BY <2>2, <2>3
<1> QED BY <1>4, <1>5, <1>7 DEF Counted

LEMMA CountedHandlerStep ==
    ASSUME Inv, HasScript, Counted, NEW h \in DOMAIN handlers,
           \/ LoadRecorded(h) \/ WriteElement(h) \/ StoreRecorded(h)
           \/ PickResponse(h) \/ LoadIdx(h) \/ StoreIdx(h) \/ Respond(h)
    PROVE  Counted'
<1>1. /\ handlers[h] \in RPCs /\ handlers[h].header \in Seq(Records)
      /\ handlers[h].turn \in Nat /\ handlers[h].count \in Nat /\ handlers[h].choice \in Nat
      /\ recordedRequests \in Seq(Records) /\ fakeResponses \in Seq(Responses)
      /\ fakeResponsesIdx \in Nat /\ Cardinality(Stored) \in Nat /\ history.starts \in Nat
      /\ history \in [starts : Nat, overlapped : BOOLEAN, gaveUp : BOOLEAN, leftOpen : BOOLEAN]
  <2>1. /\ handlers[h] \in RPCs
        /\ recordedRequests \in Seq(Records) /\ fakeResponses \in Seq(Responses)
        /\ fakeResponsesIdx \in Nat /\ history.starts \in Nat
        /\ history \in [starts : Nat, overlapped : BOOLEAN, gaveUp : BOOLEAN, leftOpen : BOOLEAN]
    BY DEF Inv, Shape, CallerShape
  <2>2. Cardinality(Stored) \in Nat
    BY Counts
  <2> QED BY <2>1, <2>2 DEF RPCs
<1>2. /\ handlers[h].turn <= history.starts
      /\ handlers[h].pc # "sent" => Len(handlers[h].header) < handlers[h].turn
      /\ handlers[h].choice <= Len(fakeResponses)
      /\ handlers[h].count <= Cardinality(Stored)
      /\ Len(recordedRequests) <= history.starts
      /\ fakeResponsesIdx <= Cardinality(Stored)
  BY DEF Counted, WellCounted
<1>3. CASE LoadRecorded(h)
  <2> DEFINE r == [handlers[h] EXCEPT !.pc = "append", !.header = recordedRequests,
                                      !.turn = history.starts + 1]
  <2>1. handlers' = [handlers EXCEPT ![h] = r] /\ handlers[h].pc = "sent"
    BY <1>3 DEF LoadRecorded
  <2>2. r \in RPCs
    <3>1. history.starts + 1 \in Nat /\ "append" \in Places
      BY <1>1 DEF Places
    <3> QED BY <1>1, <3>1 DEF RPCs
  <2>3. /\ r.c = handlers[h].c /\ r.i = handlers[h].i /\ r.attempt = handlers[h].attempt
        /\ r.pc = "append" /\ r.turn = history.starts + 1 /\ r.header = recordedRequests
        /\ r.choice = handlers[h].choice /\ r.count = handlers[h].count
    BY <1>1 DEF RPCs
  <2> HIDE DEF r
  <2>4. history'.starts = history.starts + 1
    BY <1>1, <1>3 DEF LoadRecorded
  <2>5. UNCHANGED <<program, fakeResponses, made, crashed, recordedRequests, fakeResponsesIdx>>
    BY <1>3 DEF LoadRecorded
  <2>6. /\ r.turn <= history'.starts /\ Len(r.header) < r.turn
        /\ Len(recordedRequests') <= history'.starts
    BY <1>1, <1>2, <2>3, <2>4, <2>5
  <2> QED BY <1>1, <1>2, <2>1, <2>2, <2>3, <2>4, <2>5, <2>6, CountedHandler
<1>4. CASE WriteElement(h)
  <2> DEFINE r == [handlers[h] EXCEPT !.pc = "written"]
  <2>1. handlers' = [handlers EXCEPT ![h] = r] /\ handlers[h].pc = "append"
    BY <1>4 DEF WriteElement
  <2>2. r \in RPCs
    BY <1>1 DEF RPCs, Places
  <2>3. /\ r.c = handlers[h].c /\ r.i = handlers[h].i /\ r.attempt = handlers[h].attempt
        /\ r.pc = "written" /\ r.turn = handlers[h].turn /\ r.header = handlers[h].header
        /\ r.choice = handlers[h].choice /\ r.count = handlers[h].count
    BY <1>1 DEF RPCs
  <2> HIDE DEF r
  <2>4. UNCHANGED <<program, fakeResponses, made, crashed, history, fakeResponsesIdx>>
    BY <1>4 DEF WriteElement
  <2>5. Len(recordedRequests') = Len(recordedRequests)
    BY <1>1, <1>4 DEF WriteElement
  <2> QED BY <1>1, <1>2, <2>1, <2>2, <2>3, <2>4, <2>5, CountedHandler
<1>5. CASE StoreRecorded(h)
  <2> DEFINE p == IF fakeResponses = <<>> THEN "respond" ELSE "pick"
             r == [handlers[h] EXCEPT !.pc = p]
  <2>1. handlers' = [handlers EXCEPT ![h] = r] /\ handlers[h].pc = "written"
    BY <1>5 DEF StoreRecorded
  <2>2. r \in RPCs
    BY <1>1 DEF RPCs, Places
  <2>3. /\ r.c = handlers[h].c /\ r.i = handlers[h].i /\ r.attempt = handlers[h].attempt
        /\ r.pc = p /\ r.turn = handlers[h].turn /\ r.header = handlers[h].header
        /\ r.choice = handlers[h].choice /\ r.count = handlers[h].count
    BY <1>1 DEF RPCs
  <2> HIDE DEF r
  <2>4. UNCHANGED <<program, fakeResponses, made, crashed, history, fakeResponsesIdx>>
    BY <1>5 DEF StoreRecorded
  <2>5. Len(recordedRequests') = Len(handlers[h].header) + 1
    BY <1>1, <1>5 DEF StoreRecorded
  <2>6. /\ r.turn <= history'.starts /\ Len(r.header) < r.turn
        /\ Len(recordedRequests') <= history'.starts
    BY <1>1, <1>2, <2>1, <2>3, <2>4, <2>5
  <2>7. fakeResponsesIdx' \in Nat /\ fakeResponsesIdx' <= Cardinality(Stored)
        /\ fakeResponsesIdx' <= Cardinality(Stored) + 1
    BY <1>1, <1>2, <2>4
  <2>8. p # "sent"
    OBVIOUS
  <2> HIDE DEF p
  <2> QED BY <1>2, <2>1, <2>2, <2>3, <2>4, <2>6, <2>7, <2>8, CountedHandler
<1>6. CASE PickResponse(h)
  <2> DEFINE n == (fakeResponsesIdx % Len(fakeResponses)) + 1
             r == [handlers[h] EXCEPT !.pc = "load", !.choice = n]
  <2>1. handlers' = [handlers EXCEPT ![h] = r] /\ handlers[h].pc = "pick"
    BY <1>6 DEF PickResponse
  <2>2. n \in Nat /\ n <= Len(fakeResponses)
    <3>1. fakeResponses # <<>>
      BY <2>1 DEF HasScript
    <3>2. Len(fakeResponses) \in Nat \ {0}
      BY <1>1, <3>1
    <3> QED BY <1>1, <3>2
  <2> HIDE DEF n
  <2>3. r \in RPCs
    BY <1>1, <2>2 DEF RPCs, Places
  <2>4. /\ r.c = handlers[h].c /\ r.i = handlers[h].i /\ r.attempt = handlers[h].attempt
        /\ r.pc = "load" /\ r.turn = handlers[h].turn /\ r.header = handlers[h].header
        /\ r.choice = n /\ r.count = handlers[h].count
    BY <1>1 DEF RPCs
  <2> HIDE DEF r
  <2>5. UNCHANGED <<program, fakeResponses, made, crashed, history, recordedRequests,
                    fakeResponsesIdx>>
    BY <1>6 DEF PickResponse
  <2> QED BY <1>1, <1>2, <2>1, <2>2, <2>3, <2>4, <2>5, CountedHandler
<1>7. CASE LoadIdx(h)
  <2> DEFINE r == [handlers[h] EXCEPT !.pc = "store", !.count = fakeResponsesIdx]
  <2>1. handlers' = [handlers EXCEPT ![h] = r] /\ handlers[h].pc = "load"
    BY <1>7 DEF LoadIdx
  <2>2. r \in RPCs
    BY <1>1 DEF RPCs, Places
  <2>3. /\ r.c = handlers[h].c /\ r.i = handlers[h].i /\ r.attempt = handlers[h].attempt
        /\ r.pc = "store" /\ r.turn = handlers[h].turn /\ r.header = handlers[h].header
        /\ r.choice = handlers[h].choice /\ r.count = fakeResponsesIdx
    BY <1>1 DEF RPCs
  <2> HIDE DEF r
  <2>4. UNCHANGED <<program, fakeResponses, made, crashed, history, recordedRequests, fakeResponsesIdx>>
    BY <1>7 DEF LoadIdx
  <2> QED BY <1>1, <1>2, <2>1, <2>2, <2>3, <2>4, CountedHandler
<1>8. CASE StoreIdx(h)
  <2> DEFINE r == [handlers[h] EXCEPT !.pc = "respond"]
  <2>1. handlers' = [handlers EXCEPT ![h] = r] /\ handlers[h].pc = "store"
    BY <1>8 DEF StoreIdx
  <2>2. r \in RPCs
    BY <1>1 DEF RPCs, Places
  <2>3. /\ r.c = handlers[h].c /\ r.i = handlers[h].i /\ r.attempt = handlers[h].attempt
        /\ r.pc = "respond" /\ r.turn = handlers[h].turn /\ r.header = handlers[h].header
        /\ r.choice = handlers[h].choice /\ r.count = handlers[h].count
    BY <1>1 DEF RPCs
  <2> HIDE DEF r
  <2>4. UNCHANGED <<program, fakeResponses, made, crashed, history, recordedRequests>>
    BY <1>8 DEF StoreIdx
  <2>5. fakeResponsesIdx' = handlers[h].count + 1
    BY <1>8 DEF StoreIdx
  <2>6. fakeResponsesIdx' \in Nat /\ fakeResponsesIdx' <= Cardinality(Stored) + 1
    BY <1>1, <1>2, <2>5
  <2>7. r.turn <= history'.starts /\ Len(r.header) < r.turn
        /\ Len(recordedRequests') <= history'.starts
    BY <1>1, <1>2, <2>1, <2>3, <2>4
  <2> QED BY <1>2, <2>1, <2>2, <2>3, <2>4, <2>6, <2>7, CountedHandler
<1>9. CASE Respond(h)
  <2> DEFINE a == Response(h).err
             r == [handlers[h] EXCEPT !.pc = "done", !.answer = a]
  <2>1. handlers' = [handlers EXCEPT ![h] = r] /\ handlers[h].pc = "respond"
    BY <1>9 DEF Respond
  <2>2. a \in Errors \cup {OK, None}
    BY <2>1, ResponseType
  <2> HIDE DEF a
  <2>3. r \in RPCs
    BY <1>1, <2>2 DEF RPCs, Places
  <2>4. /\ r.c = handlers[h].c /\ r.i = handlers[h].i /\ r.attempt = handlers[h].attempt
        /\ r.pc = "done" /\ r.turn = handlers[h].turn /\ r.header = handlers[h].header
        /\ r.choice = handlers[h].choice /\ r.count = handlers[h].count
    BY <1>1 DEF RPCs
  <2> HIDE DEF r
  <2>5. UNCHANGED <<program, fakeResponses, made, crashed, history, recordedRequests,
                    fakeResponsesIdx>>
    BY <1>9 DEF Respond
  <2> QED BY <1>1, <1>2, <2>1, <2>3, <2>4, <2>5, CountedHandler
<1> QED BY <1>3, <1>4, <1>5, <1>6, <1>7, <1>8, <1>9

\* What a caller waits for, or has open, is its own.
Owned ==
    \A c \in Callers :
        /\ waiting[c] # 0 => handlers[waiting[c]].c = c
        /\ \A h \in open[c] : handlers[h].c = c

LEMMA CountedCallerStep ==
    ASSUME Inv, Counted, Owned, NEW c \in Callers,
           Call(c) \/ ReadStream(c) \/ Answered(c) \/ GiveUp(c)
    PROVE  Counted'
<1>1. /\ made \in [Callers -> Nat] /\ DOMAIN handlers = 1..Len(handlers)
      /\ waiting \in [Callers -> 0..Len(handlers)]
      /\ \A h \in DOMAIN handlers : handlers[h] \in RPCs
      /\ history \in [starts : Nat, overlapped : BOOLEAN, gaveUp : BOOLEAN, leftOpen : BOOLEAN]
      /\ MaxAttempts \in Nat \ {0}
  BY FakeAssumption DEF Inv, Shape, CallerShape
<1>2. ASSUME UNCHANGED <<program, fakeResponses, recordedRequests, fakeResponsesIdx, handlers,
                         made, crashed>>,
             history'.starts = history.starts
      PROVE  Counted'
  <2>1. Started' = Started /\ Stored' = Stored
    BY <1>2 DEF Started, Stored
  <2>2. \A h \in DOMAIN handlers : WellCounted(h)'
    BY <1>2, <2>1 DEF Counted, WellCounted
  <2> QED BY <1>2, <2>1, <2>2 DEF Counted
<1>3. CASE Call(c)
  <2>1. made' = [made EXCEPT ![c] = made[c] + 1]
        /\ handlers' = Append(handlers, NewRPC(c, made[c] + 1, 0))
    BY <1>3 DEF Call
  <2>2. /\ made' \in [Callers -> Nat] /\ \A d \in Callers : made[d] <= made'[d]
        /\ made[c] + 1 \in Nat /\ made[c] + 1 \in 1..made'[c]
    BY <1>1, <2>1
  <2>3. history'.starts = history.starts
    BY <1>1, <1>3 DEF Call
  <2>4. UNCHANGED <<program, fakeResponses, recordedRequests, fakeResponsesIdx, crashed>>
    BY <1>3 DEF Call
  <2>5. 0 \in Nat /\ 0 \in 0..(MaxAttempts - 1)
    BY <1>1
  <2> QED BY <2>1, <2>2, <2>3, <2>4, <2>5, CountedSent
<1>4. CASE ReadStream(c)
  BY <1>2, <1>4 DEF ReadStream
<1>5. CASE GiveUp(c)
  <2>1. history'.starts = history.starts
    BY <1>1, <1>5 DEF GiveUp
  <2> QED BY <1>2, <1>5, <2>1 DEF GiveUp
<1>6. CASE Answered(c)
  <2> DEFINE h == waiting[c]
  <2>1. CASE Again(h)
    <3>1. h \in DOMAIN handlers
      BY <1>1, <1>6 DEF Answered
    <3> DEFINE a == NextAttempt(handlers[h].attempt)
    <3>2. /\ handlers[h].i \in Nat /\ handlers[h].attempt \in Nat
          /\ handlers[h].i \in 1..made[handlers[h].c] /\ handlers[h].c \in Callers
      BY <1>1, <3>1 DEF RPCs, Counted, WellCounted
    <3>3. a \in Nat /\ a \in 0..(MaxAttempts - 1)
      BY <1>1, <2>1, <3>2 DEF Again, AttemptsLeft, NextAttempt
    <3>4. handlers[h].c = c
      BY <1>6, <2>1 DEF Owned, Answered
    <3>5. /\ handlers' = Append(handlers, NewRPC(c, handlers[h].i, a))
          /\ UNCHANGED <<program, fakeResponses, recordedRequests, fakeResponsesIdx,
                         made, crashed, history>>
      BY <1>6, <2>1 DEF Answered
    <3> HIDE DEF a
    <3>6. \A d \in Callers : made[d] <= made'[d]
      BY <1>1, <3>5
    <3> QED BY <1>1, <3>2, <3>3, <3>4, <3>5, <3>6, CountedSent
  <2>2. CASE ~ Again(h)
    BY <1>2, <1>6, <2>2 DEF Answered
  <2> QED BY <2>1, <2>2
<1> QED BY <1>3, <1>4, <1>5, <1>6

LEMMA OwnedStep ==
    ASSUME Inv, Owned, [Next]_vars
    PROVE  Owned'
<1>1. /\ handlers \in Seq(RPCs) /\ DOMAIN handlers = 1..Len(handlers) /\ Len(handlers) \in Nat
      /\ waiting \in [Callers -> 0..Len(handlers)]
      /\ open \in [Callers -> SUBSET (1..Len(handlers))]
  BY DEF Inv, Shape, CallerShape
<1>2. ASSUME \A h \in DOMAIN handlers : handlers'[h].c = handlers[h].c,
             UNCHANGED <<waiting, open>>
      PROVE  Owned'
  BY <1>1, <1>2 DEF Owned
<1>3. ASSUME NEW c \in Callers, NEW i, NEW a, handlers' = Append(handlers, NewRPC(c, i, a)),
             waiting' \in {waiting, [waiting EXCEPT ![c] = Len(handlers) + 1]},
             open' \in {open, [open EXCEPT ![c] = open[c] \cup {Len(handlers) + 1}]}
      PROVE  Owned'
  <2>1. NewRPC(c, i, a).c = c
    BY DEF NewRPC
  <2>2. handlers'[Len(handlers) + 1].c = c
    BY <1>1, <1>3, <2>1
  <2>3. \A h \in DOMAIN handlers : handlers'[h] = handlers[h]
    BY <1>1, <1>3
  <2>4. \A d \in Callers : waiting[d] # 0 => waiting[d] \in DOMAIN handlers
    BY <1>1
  <2>5. \A d \in Callers : open[d] \subseteq DOMAIN handlers
    BY <1>1
  <2>6. /\ Len(handlers) + 1 \in DOMAIN handlers' /\ Len(handlers) + 1 # 0
        /\ DOMAIN handlers \subseteq DOMAIN handlers'
    BY <1>1, <1>3
  <2>7. ASSUME NEW d \in Callers, waiting'[d] # 0 PROVE handlers'[waiting'[d]].c = d
    <3>1. CASE waiting'[d] = waiting[d]
      <4>1. waiting[d] \in DOMAIN handlers /\ handlers[waiting[d]].c = d
        BY <2>4, <2>7, <3>1 DEF Owned
      <4> QED BY <2>3, <3>1, <4>1
    <3>2. CASE waiting'[d] # waiting[d]
      <4>1. d = c /\ waiting'[d] = Len(handlers) + 1
        BY <1>1, <1>3, <3>2
      <4> QED BY <2>2, <4>1
    <3> QED BY <3>1, <3>2
  <2>8. ASSUME NEW d \in Callers, NEW h \in open'[d] PROVE handlers'[h].c = d
    BY <1>1, <1>3, <2>2, <2>3, <2>5 DEF Owned
  <2> QED BY <2>7, <2>8 DEF Owned
<1>4. ASSUME NEW c \in Callers, Call(c) PROVE Owned'
  <2>1. /\ handlers' = Append(handlers, NewRPC(c, made[c] + 1, 0))
        /\ waiting' \in {waiting, [waiting EXCEPT ![c] = Len(handlers) + 1]}
        /\ open' \in {open, [open EXCEPT ![c] = open[c] \cup {Len(handlers) + 1}]}
    BY <1>4 DEF Call
  <2> QED BY <1>3, <2>1
<1>5. ASSUME NEW c \in Callers, ReadStream(c) PROVE Owned'
  BY <1>1, <1>5 DEF ReadStream, Owned
<1>6. ASSUME NEW c \in Callers, Answered(c) PROVE Owned'
  <2>1. CASE Again(waiting[c])
    BY <1>3, <1>6, <2>1 DEF Answered
  <2>2. CASE ~ Again(waiting[c])
    BY <1>1, <1>6, <2>2 DEF Answered, Owned
  <2> QED BY <2>1, <2>2
<1>7. ASSUME NEW c \in Callers, GiveUp(c) PROVE Owned'
  BY <1>1, <1>7 DEF GiveUp, Owned
<1>8. ASSUME NEW h \in DOMAIN handlers,
             \/ LoadRecorded(h) \/ WriteElement(h) \/ StoreRecorded(h)
             \/ PickResponse(h) \/ LoadIdx(h) \/ StoreIdx(h) \/ Respond(h) \/ Panic(h)
      PROVE  Owned'
  <2>1. UNCHANGED <<waiting, open>>
    BY <1>8 DEF LoadRecorded, WriteElement, StoreRecorded, PickResponse, LoadIdx,
                StoreIdx, Respond, Panic
  <2>2. \A g \in DOMAIN handlers : handlers[g] \in RPCs
    BY <1>1
  <2>3. \A g \in DOMAIN handlers : handlers'[g].c = handlers[g].c
    <3>1. CASE LoadRecorded(h)
      BY <2>2, <3>1 DEF LoadRecorded, RPCs
    <3>2. CASE WriteElement(h)
      BY <2>2, <3>2 DEF WriteElement, RPCs
    <3>3. CASE StoreRecorded(h)
      BY <2>2, <3>3 DEF StoreRecorded, RPCs
    <3>4. CASE PickResponse(h)
      BY <2>2, <3>4 DEF PickResponse, RPCs
    <3>5. CASE LoadIdx(h)
      BY <2>2, <3>5 DEF LoadIdx, RPCs
    <3>6. CASE StoreIdx(h)
      BY <2>2, <3>6 DEF StoreIdx, RPCs
    <3>7. CASE Respond(h)
      BY <2>2, <3>7 DEF Respond, RPCs
    <3>8. CASE Panic(h)
      BY <3>8 DEF Panic
    <3> QED BY <1>8, <3>1, <3>2, <3>3, <3>4, <3>5, <3>6, <3>7, <3>8
  <2> QED BY <1>2, <2>1, <2>3
<1>9. CASE UNCHANGED vars
  BY <1>2, <1>9 DEF vars
<1> QED BY <1>4, <1>5, <1>6, <1>7, <1>8, <1>9 DEF Next

LEMMA CountedStep ==
    ASSUME Inv, HasScript, Counted, Owned, [Next]_vars
    PROVE  Counted' /\ Owned'
<1>1. Owned'
  BY OwnedStep
<1>2. CASE UNCHANGED vars
  <2>1. Started' = Started /\ Stored' = Stored
    BY <1>2 DEF vars, Started, Stored
  <2>2. \A h \in DOMAIN handlers : WellCounted(h)'
    BY <1>2, <2>1 DEF vars, Counted, WellCounted
  <2> QED BY <1>1, <1>2, <2>1, <2>2 DEF vars, Counted
<1>3. ASSUME NEW h \in DOMAIN handlers, Panic(h) PROVE Counted'
  <2>1. Started' = Started /\ Stored' = Stored
    BY <1>3 DEF Panic, Started, Stored
  <2>2. \A g \in DOMAIN handlers : WellCounted(g)'
    BY <1>3, <2>1 DEF Panic, Counted, WellCounted
  <2> QED BY <1>3, <2>1, <2>2 DEF Panic, Counted
<1> QED BY <1>1, <1>2, <1>3, CountedHandlerStep, CountedCallerStep DEF Next

\* What the fake server has counted and recorded is not more than the handlers
\* that have started, however their loads and stores of fakeResponsesIdx and
\* recordedRequests (fake.go) interleave.
THEOREM TypeCorrect == Spec => []TypeOK
<1>1. Init => Counted /\ Owned
  <2>1. Init => Owned
    BY DEF Init, Owned
  <2> QED BY <2>1, CountedInit
<1>2. Inv /\ HasScript /\ Counted /\ Owned /\ [Next]_vars => (Counted /\ Owned)'
  BY CountedStep
<1>3. Inv /\ Counted => TypeOK
  <2> SUFFICES ASSUME Inv, Counted PROVE TypeOK
    OBVIOUS
  <2>1. /\ Cardinality(Started) \in 0..Len(handlers)
        /\ Cardinality(Stored) \in 0..Cardinality(Started)
    BY Counts
  <2>2. /\ CallerShape /\ fakeResponses \in Seq(Responses) /\ handlers \in Seq(RPCs)
        /\ fakeResponsesIdx \in Nat /\ history.starts = Cardinality(Started)
        /\ DOMAIN handlers = 1..Len(handlers) /\ Len(handlers) \in Nat
    BY DEF Inv, Shape, Counted
  <2>3. fakeResponsesIdx \in 0..history.starts
    BY <2>1, <2>2 DEF Counted
  <2>4. history \in [starts : 0..Len(handlers), overlapped : BOOLEAN, gaveUp : BOOLEAN,
                     leftOpen : BOOLEAN]
    <3>1. history.starts \in 0..Len(handlers)
      BY <2>1, <2>2
    <3> QED BY <2>2, <3>1 DEF CallerShape
  <2>5. ASSUME NEW h \in DOMAIN handlers
        PROVE  /\ handlers[h].c \in Callers
               /\ handlers[h].i \in 1..made[handlers[h].c]
               /\ handlers[h].attempt \in 0..(MaxAttempts - 1)
               /\ handlers[h].pc \in Places
               /\ handlers[h].turn \in 0..history.starts
               /\ handlers[h].choice \in 0..Len(fakeResponses)
               /\ handlers[h].count \in 0..history.starts
               /\ handlers[h].answer \in Errors \cup {OK, None}
    <3>1. WellCounted(h) /\ handlers[h] \in RPCs /\ Len(fakeResponses) \in Nat
      BY <2>2 DEF Counted
    <3>2. /\ handlers[h].c \in Callers /\ handlers[h].pc \in Places
          /\ handlers[h].answer \in Errors \cup {OK, None}
          /\ handlers[h].turn \in Nat /\ handlers[h].choice \in Nat /\ handlers[h].count \in Nat
      BY <3>1 DEF RPCs
    <3> QED BY <2>1, <2>2, <3>1, <3>2 DEF WellCounted
  <2> QED BY <2>2, <2>3, <2>4, <2>5 DEF TypeOK, Counted, CallerShape
<1> QED BY <1>1, <1>2, <1>3, Invariance, PTL DEF Spec
-------------------------------------------------------------------------------
(* What is recorded *)

\* The elements of the slice, and of every slice that a handler has loaded, are
\* the requests of handlers that have started.
RecordedFrom(slice) == \A n \in DOMAIN slice : \E h \in Started : slice[n] = RecordOf(h)

Traced ==
    /\ RecordedFrom(recordedRequests)
    /\ \A h \in DOMAIN handlers : RecordedFrom(handlers[h].header)

\* What no step changes of a handler, and where its slice comes from.
Keeps(old, new) ==
    /\ new.c = old.c /\ new.i = old.i
    /\ old.pc # "sent" => new.pc # "sent"
    /\ new.header \in {old.header, recordedRequests}

LEMMA HandlerKeeps ==
    ASSUME Inv, NEW h \in DOMAIN handlers,
           \/ LoadRecorded(h) \/ WriteElement(h) \/ StoreRecorded(h)
           \/ PickResponse(h) \/ LoadIdx(h) \/ StoreIdx(h) \/ Respond(h) \/ Panic(h)
    PROVE  /\ DOMAIN handlers' = DOMAIN handlers
           /\ \A g \in DOMAIN handlers : Keeps(handlers[g], handlers'[g])
<1>1. \A g \in DOMAIN handlers : handlers[g] \in RPCs
  BY DEF Inv, Shape
<1>2. \A g \in DOMAIN handlers : Keeps(handlers[g], handlers[g])
  BY DEF Keeps
<1>3. CASE Panic(h)
  BY <1>2, <1>3 DEF Panic
<1>4. ASSUME NEW r, handlers' = [handlers EXCEPT ![h] = r], Keeps(handlers[h], r)
      PROVE  /\ DOMAIN handlers' = DOMAIN handlers
             /\ \A g \in DOMAIN handlers : Keeps(handlers[g], handlers'[g])
  BY <1>2, <1>4
<1>5. CASE LoadRecorded(h)
  <2>1. handlers' = [handlers EXCEPT ![h] =
          [handlers[h] EXCEPT !.pc = "append", !.header = recordedRequests,
                              !.turn = history.starts + 1]]
    BY <1>5 DEF LoadRecorded
  <2> QED BY <1>1, <1>4, <2>1 DEF Keeps, RPCs
<1>6. ASSUME NEW pc, pc # "sent", handlers' = [handlers EXCEPT ![h] = [handlers[h] EXCEPT !.pc = pc]]
      PROVE  /\ DOMAIN handlers' = DOMAIN handlers
             /\ \A g \in DOMAIN handlers : Keeps(handlers[g], handlers'[g])
  BY <1>1, <1>4, <1>6 DEF Keeps, RPCs
<1>7. CASE WriteElement(h)
  BY <1>6, <1>7 DEF WriteElement
<1>8. CASE StoreRecorded(h)
  BY <1>6, <1>8 DEF StoreRecorded
<1>9. CASE PickResponse(h)
  <2>1. PICK n : handlers' = [handlers EXCEPT ![h] =
          [handlers[h] EXCEPT !.pc = "load", !.choice = n]]
    BY <1>9 DEF PickResponse
  <2> QED BY <1>1, <1>4, <2>1 DEF Keeps, RPCs
<1>10. CASE LoadIdx(h)
  <2>1. PICK n : handlers' = [handlers EXCEPT ![h] =
          [handlers[h] EXCEPT !.pc = "store", !.count = n]]
    BY <1>10 DEF LoadIdx
  <2> QED BY <1>1, <1>4, <2>1 DEF Keeps, RPCs
<1>11. CASE StoreIdx(h)
  BY <1>6, <1>11 DEF StoreIdx
<1>12. CASE Respond(h)
  <2>1. PICK a : handlers' = [handlers EXCEPT ![h] =
          [handlers[h] EXCEPT !.pc = "done", !.answer = a]]
    BY <1>12 DEF Respond
  <2> QED BY <1>1, <1>4, <2>1 DEF Keeps, RPCs
<1> QED BY <1>3, <1>5, <1>7, <1>8, <1>9, <1>10, <1>11, <1>12

\* Requests that are recorded stay those of handlers that have started.
LEMMA TracedAfter ==
    ASSUME Inv, Traced, UNCHANGED program,
           \A h \in DOMAIN handlers :
                h \in DOMAIN handlers' /\ Keeps(handlers[h], handlers'[h]),
           \A h \in DOMAIN handlers' \ DOMAIN handlers : handlers'[h].header = <<>>,
           \A n \in DOMAIN recordedRequests' :
                \/ \E slice \in {recordedRequests} \cup {handlers[h].header : h \in DOMAIN handlers} :
                        n \in DOMAIN slice /\ recordedRequests'[n] = slice[n]
                \/ \E h \in Started : recordedRequests'[n] = RecordOf(h)
    PROVE  Traced'
<1>1. \A h \in Started : h \in Started' /\ RecordOf(h)' = RecordOf(h)
  BY DEF Started, Keeps, RecordOf, OpOfRPC, CallOf
<1>2. ASSUME NEW slice, RecordedFrom(slice)
      PROVE  \A n \in DOMAIN slice : \E h \in Started' : slice[n] = RecordOf(h)'
  BY <1>1, <1>2 DEF RecordedFrom
<1>3. RecordedFrom(recordedRequests)'
  <2> SUFFICES ASSUME NEW n \in DOMAIN recordedRequests'
               PROVE  \E h \in Started' : recordedRequests'[n] = RecordOf(h)'
    BY DEF RecordedFrom
  <2>1. CASE \E h \in Started : recordedRequests'[n] = RecordOf(h)
    BY <1>1, <2>1
  <2>2. CASE \E slice \in {recordedRequests} \cup {handlers[h].header : h \in DOMAIN handlers} :
                n \in DOMAIN slice /\ recordedRequests'[n] = slice[n]
    <3>1. PICK slice \in {recordedRequests} \cup {handlers[h].header : h \in DOMAIN handlers} :
                n \in DOMAIN slice /\ recordedRequests'[n] = slice[n]
      BY <2>2
    <3>2. RecordedFrom(slice)
      BY DEF Traced
    <3> QED BY <1>2, <3>1, <3>2
  <2> QED BY <2>1, <2>2
<1>4. ASSUME NEW h \in DOMAIN handlers' PROVE RecordedFrom(handlers[h].header)'
  <2>1. CASE h \in DOMAIN handlers
    <3>1. handlers'[h].header \in {handlers[h].header, recordedRequests}
      BY <2>1 DEF Keeps
    <3>2. RecordedFrom(handlers'[h].header)
      BY <2>1, <3>1 DEF Traced
    <3> QED BY <1>2, <3>2 DEF RecordedFrom
  <2>2. CASE h \notin DOMAIN handlers
    BY <2>2 DEF RecordedFrom
  <2> QED BY <2>1, <2>2
<1> QED BY <1>3, <1>4 DEF Traced

\* What a handler writes or stores is the request of one that has started.
LEMMA TracedHandler ==
    ASSUME Inv, Traced, NEW h \in DOMAIN handlers,
           \/ LoadRecorded(h) \/ WriteElement(h) \/ StoreRecorded(h)
           \/ PickResponse(h) \/ LoadIdx(h) \/ StoreIdx(h) \/ Respond(h) \/ Panic(h)
    PROVE  Traced'
<1>1. /\ handlers \in Seq(RPCs) /\ recordedRequests \in Seq(Records)
      /\ \A g \in DOMAIN handlers : handlers[g] \in RPCs
  BY DEF Inv, Shape
<1>2. /\ DOMAIN handlers' = DOMAIN handlers
      /\ \A g \in DOMAIN handlers : Keeps(handlers[g], handlers'[g])
  BY HandlerKeeps
<1>3. UNCHANGED program
  BY DEF LoadRecorded, WriteElement, StoreRecorded, PickResponse, LoadIdx, StoreIdx,
         Respond, Panic
<1>4. ASSUME NEW n \in DOMAIN recordedRequests'
      PROVE  \/ \E slice \in {recordedRequests} \cup {handlers[g].header : g \in DOMAIN handlers} :
                    n \in DOMAIN slice /\ recordedRequests'[n] = slice[n]
             \/ \E g \in Started : recordedRequests'[n] = RecordOf(g)
  <2>1. CASE UNCHANGED recordedRequests
    BY <1>4, <2>1
  <2>2. CASE WriteElement(h) /\ ~ UNCHANGED recordedRequests
    <3>1. h \in Started
      BY <2>2 DEF WriteElement, Started
    <3>2. PICK m : recordedRequests' = [recordedRequests EXCEPT ![m] = RecordOf(h)]
      BY <2>2 DEF WriteElement
    <3>3. CASE n = m
      BY <1>4, <3>1, <3>2, <3>3
    <3>4. CASE n # m
      BY <1>4, <3>2, <3>4
    <3> QED BY <3>3, <3>4
  <2>3. CASE StoreRecorded(h)
    <3>1. PICK g \in DOMAIN handlers :
            /\ handlers[g].pc \notin {"sent", "append"}
            /\ recordedRequests' = Append(handlers[h].header, RecordOf(g))
      BY <2>3 DEF StoreRecorded
    <3>2. g \in Started
      BY <3>1 DEF Started
    <3> DEFINE slice == handlers[h].header
    <3>3. slice \in Seq(Records) /\ Len(slice) \in Nat
      BY <1>1 DEF RPCs
    <3>4. CASE n = Len(slice) + 1
      <4>1. recordedRequests'[n] = RecordOf(g)
        BY <3>1, <3>3, <3>4
      <4> QED BY <3>2, <4>1
    <3>5. CASE n # Len(slice) + 1
      <4>1. n \in DOMAIN slice /\ recordedRequests'[n] = slice[n]
        BY <1>4, <3>1, <3>3, <3>5
      <4> QED BY <4>1
    <3> QED BY <3>4, <3>5
  <2>4. \/ UNCHANGED recordedRequests
        \/ WriteElement(h) \/ StoreRecorded(h)
    BY DEF LoadRecorded, PickResponse, LoadIdx, StoreIdx, Respond, Panic
  <2> QED BY <2>1, <2>2, <2>3, <2>4
<1> QED BY <1>2, <1>3, <1>4, TracedAfter

\* Callers send requests and record none.
LEMMA TracedCaller ==
    ASSUME Inv, Traced, NEW c \in Callers,
           Call(c) \/ ReadStream(c) \/ Answered(c) \/ GiveUp(c)
    PROVE  Traced'
<1>1. handlers \in Seq(RPCs) /\ Len(handlers) \in Nat
  BY DEF Inv, Shape
<1>2. UNCHANGED <<program, recordedRequests>>
  BY DEF Call, ReadStream, Answered, GiveUp
<1>3. \A h \in DOMAIN handlers : Keeps(handlers[h], handlers[h])
  BY DEF Keeps
<1>4. \/ UNCHANGED handlers
      \/ \E r : r.header = <<>> /\ handlers' = Append(handlers, r)
  <2>1. \A i, a : NewRPC(c, i, a).header = <<>>
    BY DEF NewRPC
  <2> QED BY <2>1 DEF Call, ReadStream, Answered, GiveUp
<1>5. /\ \A h \in DOMAIN handlers : h \in DOMAIN handlers' /\ Keeps(handlers[h], handlers'[h])
      /\ \A h \in DOMAIN handlers' \ DOMAIN handlers : handlers'[h].header = <<>>
  <2>1. CASE UNCHANGED handlers
    BY <1>3, <2>1
  <2>2. CASE \E r : r.header = <<>> /\ handlers' = Append(handlers, r)
    <3>1. PICK r : r.header = <<>> /\ handlers' = Append(handlers, r)
      BY <2>2
    <3>2. /\ \A h \in DOMAIN handlers : h \in DOMAIN handlers' /\ handlers'[h] = handlers[h]
          /\ \A h \in DOMAIN handlers' \ DOMAIN handlers : handlers'[h] = r
      BY <1>1, <3>1
    <3> QED BY <1>3, <3>1, <3>2
  <2> QED BY <1>4, <2>1, <2>2
<1>6. \A n \in DOMAIN recordedRequests' :
        \E slice \in {recordedRequests} \cup {handlers[h].header : h \in DOMAIN handlers} :
            n \in DOMAIN slice /\ recordedRequests'[n] = slice[n]
  BY <1>2
<1> QED BY <1>2, <1>5, <1>6, TracedAfter

\* The callers stay within their programs.
WithinProgram == \A c \in Callers : made[c] <= Len(program[c])

LEMMA WithinProgramStep ==
    ASSUME Inv, TypeOK, WithinProgram, [Next]_vars
    PROVE  WithinProgram'
<1>1. /\ made \in [Callers -> Nat]
      /\ \A c \in Callers : Len(program[c]) \in Nat
  <2>1. [program |-> program, script |-> fakeResponses] \in Tests
    BY DEF TypeOK
  <2> QED BY <2>1, FakeAssumption DEF TypeOK
<1>2. UNCHANGED program
  BY DEF Next, vars, Call, ReadStream, Answered, GiveUp, LoadRecorded, WriteElement,
         StoreRecorded, PickResponse, LoadIdx, StoreIdx, Respond, Panic
<1>3. ASSUME NEW c \in Callers, Call(c) PROVE WithinProgram'
  <2>1. /\ made' = [made EXCEPT ![c] = made[c] + 1]
        /\ made[c] < Len(program[c])
    BY <1>3 DEF Call
  <2>2. \A d \in Callers \ {c} : made'[d] = made[d]
    BY <1>1, <2>1
  <2>3. made'[c] = made[c] + 1 /\ made[c] \in Nat
    BY <1>1, <2>1
  <2>4. made'[c] <= Len(program[c])
    BY <1>1, <2>1, <2>3
  <2> QED BY <1>2, <2>2, <2>4 DEF WithinProgram
<1>4. CASE UNCHANGED made
  BY <1>2, <1>4 DEF WithinProgram
<1>5. UNCHANGED made \/ \E c \in Callers : Call(c)
  BY DEF Next, vars, ReadStream, Answered, GiveUp, LoadRecorded, WriteElement,
         StoreRecorded, PickResponse, LoadIdx, StoreIdx, Respond, Panic
<1> QED BY <1>3, <1>4, <1>5

\* Traced and WithinProgram hold in every reachable state.
THEOREM Origin == Spec => [](Traced /\ WithinProgram)
<1>1. Init => Traced /\ WithinProgram
  <2> SUFFICES ASSUME Init PROVE Traced /\ WithinProgram
    OBVIOUS
  <2>1. recordedRequests = <<>> /\ handlers = <<>>
    BY DEF Init
  <2>2. Traced
    BY <2>1 DEF Traced, RecordedFrom
  <2>3. PICK test \in Tests : program = test.program
    BY DEF Init
  <2>4. \A c \in Callers : Len(program[c]) \in Nat /\ made[c] = 0
    BY <2>3, FakeAssumption DEF Init
  <2> QED BY <2>2, <2>4 DEF WithinProgram
<1>2. Inv /\ TypeOK /\ Traced /\ WithinProgram /\ [Next]_vars => (Traced /\ WithinProgram)'
  <2> SUFFICES ASSUME Inv, TypeOK, Traced, WithinProgram, [Next]_vars
               PROVE  Traced' /\ WithinProgram'
    OBVIOUS
  <2>1. CASE UNCHANGED vars
    BY <2>1, WithinProgramStep DEF vars, Traced, RecordedFrom, Started, RecordOf, OpOfRPC, CallOf
  <2>2. CASE Next
    BY <2>2, WithinProgramStep, TracedHandler, TracedCaller DEF Next
  <2> QED BY <2>1, <2>2
<1> QED BY <1>1, <1>2, Invariance, TypeCorrect, PTL DEF Spec

\* A handler's call is one of the program, which sends a request.
LEMMA CallsSend ==
    ASSUME TypeOK, WithinProgram, NEW h \in DOMAIN handlers
    PROVE  /\ IsCall(CallOf(h))
           /\ OpOfRPC(h) \in OpsOfCall(CallOf(h))
           /\ Sendable(OpOfRPC(h))
<1> DEFINE c == handlers[h].c
           i == handlers[h].i
<1>1. /\ c \in Callers /\ i \in 1..made[c] /\ made[c] \in Nat
      /\ [program |-> program, script |-> fakeResponses] \in Tests
  BY DEF TypeOK
<1>2. /\ Len(program[c]) \in Nat /\ DOMAIN program[c] = 1..Len(program[c])
      /\ \A j \in DOMAIN program[c] :
            /\ IsCall(program[c][j])
            /\ OpsOfCall(program[c][j]) # {}
            /\ Sendable(OpOfCall(program[c][j]))
  BY <1>1, FakeAssumption
<1>3. i \in DOMAIN program[c]
  BY <1>1, <1>2 DEF WithinProgram
<1> QED BY <1>2, <1>3 DEF CallOf, OpOfRPC, OpOfCall

\* A call with a prefix is recorded as a request for exactly the keys that start
\* with it, whatever other options it has (op.go: WithPrefix, getPrefix; fake.go:
\* the handlers).
THEOREM PrefixAlwaysCovers == Spec => []PrefixCovers
<1>1. TypeOK /\ WithinProgram => PrefixCovers
  <2> SUFFICES ASSUME TypeOK, WithinProgram, NEW h \in DOMAIN handlers,
                      AsksForPrefix(CallOf(h)), NEW k \in Keys \ {<<>>}
               PROVE  InRange(k, RecordOf(h)) <=> IsPrefix(CallOf(h).key, k)
    BY DEF PrefixCovers
  <2>1. IsCall(CallOf(h)) /\ OpOfRPC(h) \in OpsOfCall(CallOf(h))
    BY CallsSend
  <2> QED BY <2>1, PrefixOfCallIsExact DEF RecordOf
<1> QED BY <1>1, Origin, TypeCorrect, PTL

\* Also when appends overlap and overwrite each other, what the slice holds is
\* what the caller of a request expects to find: the record that
\* convRangeToRequest, convPutToRequest, convDeleteRangeToRequest and
\* convTxnToRequest (fake.go) make of it loses nothing but what toRangeRequest
\* and its siblings (op.go, kv.go) do not send.
THEOREM RecordsExpected == Spec => []RecordedIsExpected
<1>1. TypeOK /\ Traced /\ WithinProgram => RecordedIsExpected
  <2> SUFFICES ASSUME TypeOK, Traced, WithinProgram, NEW n \in DOMAIN recordedRequests
               PROVE  \E h \in Started : recordedRequests[n] = Expected(OpOfRPC(h))
    BY DEF RecordedIsExpected
  <2>1. PICK h \in Started : recordedRequests[n] = RecordOf(h)
    BY DEF Traced, RecordedFrom
  <2>2. h \in DOMAIN handlers
    BY DEF Started
  <2>3. IsCall(CallOf(h)) /\ OpOfRPC(h) \in OpsOfCall(CallOf(h)) /\ Sendable(OpOfRPC(h))
    BY <2>2, CallsSend
  <2>4. RecordOf(h) = Expected(OpOfRPC(h))
    BY <2>3, NothingElseIgnored DEF RecordOf
  <2> QED BY <2>1, <2>4
<1> QED BY <1>1, Origin, TypeCorrect, PTL
===============================================================================
