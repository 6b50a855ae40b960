---------------------------- MODULE KVCalls_proofs ----------------------------
(***************************************************************************)
(* Proofs about KVCalls, for every number of goroutines and calls and      *)
(* every list of hooks.  The lock of the Txn makes a builder call and a    *)
(* Commit atomic (LockInv); a goroutine in a chain of hooks has entered    *)
(* them from the outermost down (PathInv).                                 *)
(***************************************************************************)
EXTENDS KVCalls, FiniteSetTheorems, TLAPS

\* g has locked the Txn.
Holds(g) == call[g] \in Builders \cup {"Commit"} /\ pc[g] \notin {"idle", "lock"}

LockInv ==
    \A g \in Callers :
        /\ Holds(g) => mu = {g}
        /\ pc[g] = "lock" => call[g] \in Builders \cup {"Commit"}
        /\ pc[g] \in {"check", "fill"} => call[g] \in Builders
        /\ pc[g] = "commit" => call[g] = "Commit"
        /\ pc[g] \in {"do", "remote", "returned"} => call[g] \in Puts \cup {"Commit"}
        /\ pc[g] = "return" => call[g] \in Kinds

\* A clause is filled once; what Commit took is what the Txn still holds.
ContentInv ==
    /\ \A c \in Builders : c \notin given => content[c] = <<>>
    /\ promised \subseteq given
    /\ \A g \in Callers :
        /\ pc[g] = "fill" => given \cap Bars(call[g]) = {}
        /\ pc[g] \in {"do", "remote", "returned"} /\ call[g] = "Commit" => op[g] = content
        /\ pc[g] = "return" /\ call[g] \in Builders /\ res[g] = "ok" => call[g] \in given

\* The n outermost of t hooks.
Descent(t, n) == [i \in 1..n |-> t + 1 - i]

\* A goroutine that stands at p, in level l, has entered the hooks q.
PathOK(t, p, l, q) ==
    /\ q \in Seq(Nat)
    /\ Len(q) <= t
    /\ q = Descent(t, Len(q))
    /\ p = "do" => l = t - Len(q)
    /\ p = "remote" => Len(q) = t
    /\ p \notin {"do", "remote", "returned"} => q = <<>>

PathInv == \A g \in Callers : PathOK(Top, pc[g], level[g], path[g])

\* The calls that the outermost hook has seen end and the KV has not.
Inside == {g \in Callers : pc[g] = "returned" /\ path[g] = <<>>}
Failing == {g \in Inside : res[g] = "error"}

CountInv ==
    (Top > 0 /\ Chain[Top] = "plugin") =>
        /\ observed[Top] = done.all + Cardinality(Inside)
        /\ failed[Top] = done.errors + Cardinality(Failing)

Inv == TypeOK /\ LockInv /\ ContentInv /\ PathInv

\* The hooks that newKV finds do not change.
LEMMA ChainFacts ==
    ASSUME hooks \in HookLists
    PROVE  Top \in Nat /\ Chain \in Seq(HookKinds)
<1>1. getHooks(hooks) \in Seq(HookKinds)
  BY CallsAssumption
<1> QED
  BY <1>1 DEF Top, Chain

LEMMA DescentFacts ==
    ASSUME NEW t \in Nat, NEW n \in Nat, n <= t
    PROVE  /\ Descent(t, n) \in Seq(Nat) /\ Len(Descent(t, n)) = n
           /\ Descent(t, 0) = <<>>
           /\ n < t => Append(Descent(t, n), t - n) = Descent(t, n + 1)
           /\ n > 0 => Last(Descent(t, n)) = t + 1 - n
           /\ n > 0 => Front(Descent(t, n)) = Descent(t, n - 1)
<1>1. \A k \in 0..t : Descent(t, k) \in Seq(Nat) /\ Len(Descent(t, k)) = k
  BY DEF Descent
<1>2. Descent(t, 0) = <<>>
  BY DEF Descent
<1>3. ASSUME n < t
      PROVE  Append(Descent(t, n), t - n) = Descent(t, n + 1)
  BY <1>1, <1>3 DEF Descent
<1>4. ASSUME n > 0
      PROVE  Last(Descent(t, n)) = t + 1 - n
  BY <1>1, <1>4 DEF Descent, Last
<1>5. ASSUME n > 0
      PROVE  Front(Descent(t, n)) = Descent(t, n - 1)
  <2>1. Front(Descent(t, n)) = SubSeq(Descent(t, n), 1, n - 1)
    BY <1>1 DEF Front
  <2>2. n - 1 \in Nat
    BY <1>5
  <2>3. SubSeq(Descent(t, n), 1, n - 1) = [i \in 1..(n - 1) |-> Descent(t, n)[i]]
    BY <1>1, <2>2
  <2>4. \A i \in 1..(n - 1) : Descent(t, n)[i] = t + 1 - i
    BY DEF Descent
  <2>5. [i \in 1..(n - 1) |-> Descent(t, n)[i]] = [i \in 1..(n - 1) |-> t + 1 - i]
    BY <2>4
  <2>6. Descent(t, n - 1) = [i \in 1..(n - 1) |-> t + 1 - i]
    BY DEF Descent
  <2> QED
    BY <2>1, <2>3, <2>5, <2>6
<1> QED
  BY <1>1, <1>2, <1>3, <1>4, <1>5

LEMMA ContentFacts ==
    /\ Nothing \in Contents
    /\ \A c \in Builders : Nothing[c] = <<>>
    /\ \A o \in Contents, c \in Builders, s \in {<<>>} \cup {<<p>> : p \in Operands} :
        /\ [o EXCEPT ![c] = s] \in Contents
        /\ [o EXCEPT ![c] = s][c] = s
        /\ o[c] \in {<<>>} \cup {<<p>> : p \in Operands}
        /\ <<>> \o s = s
    /\ DOMAIN Nothing = Builders
<1>1. Nothing \in Contents
  BY DEF Nothing, Contents
<1>2. \A s \in {<<>>} \cup {<<p>> : p \in Operands} : <<>> \o s = s
  OBVIOUS
<1> QED
  BY <1>1, <1>2 DEF Nothing, Contents

LEMMA InitInv == Init => Inv
<1> SUFFICES ASSUME Init PROVE Inv
  OBVIOUS
<1>1. Top \in Nat /\ Chain \in Seq(HookKinds)
  BY ChainFacts DEF Init
<1>2. TypeOK
  BY <1>1, ContentFacts, CallsAssumption DEF Init, TypeOK, Results
<1>3. LockInv
  BY DEF Init, LockInv, Holds
<1>4. ContentInv
  BY ContentFacts DEF Init, ContentInv
<1>5. PathInv
  BY <1>1, DescentFacts DEF Init, PathInv, PathOK
<1> QED
  BY <1>2, <1>3, <1>4, <1>5 DEF Inv

-------------------------------------------------------------------------------
(* One lemma for each part of the invariant, with one step for each action *)

\* The case analysis of a step, by goroutine.
LEMMA StepCases ==
    ASSUME Next
    PROVE  \E g \in Callers :
              \/ CallBuilder(g) \/ CallCommit(g) \/ CallPut(g) \/ Lock(g) \/ Check(g)
              \/ Fill(g) \/ Commit(g) \/ EnterHook(g) \/ HookAnswers(g) \/ Send(g)
              \/ Answer(g) \/ LeaveHook(g) \/ LeaveDo(g) \/ Return(g)
BY DEF Next, Run

\* The hooks stay what they are.
LEMMA HooksFixed ==
    ASSUME Next
    PROVE  hooks' = hooks /\ Chain' = Chain /\ Top' = Top
<1>1. hooks' = hooks
  BY StepCases DEF CallBuilder, CallCommit, CallPut, Begin, Lock, Check, Fill, Commit, EnterHook,
     HookAnswers, Send, Answer, LeaveHook, LeaveDo, Return
<1> QED
  BY <1>1 DEF Chain, Top

LEMMA LockStep ==
    ASSUME Inv, [Next]_vars
    PROVE  LockInv'
<1>1. CASE UNCHANGED vars
  BY <1>1 DEF Inv, LockInv, Holds, vars
<1>2. ASSUME Next PROVE LockInv'
  <2>1. PICK g \in Callers :
          \/ CallBuilder(g) \/ CallCommit(g) \/ CallPut(g) \/ Lock(g) \/ Check(g)
          \/ Fill(g) \/ Commit(g) \/ EnterHook(g) \/ HookAnswers(g) \/ Send(g)
          \/ Answer(g) \/ LeaveHook(g) \/ LeaveDo(g) \/ Return(g)
    BY <1>2, StepCases
  <2> USE DEF Inv, LockInv, Holds, TypeOK
  <2>2. CASE CallBuilder(g)
    BY <2>2 DEF CallBuilder, Begin, Builders, Kinds
  <2>3. CASE CallCommit(g)
    BY <2>3 DEF CallCommit, Begin, Kinds
  <2>4. CASE CallPut(g)
    BY <2>4 DEF CallPut, Begin, Puts, Builders, Kinds
  <2>5. CASE Lock(g)
    BY <2>5 DEF Lock, Builders
  <2>6. CASE Check(g)
    <3>1. call[g] \in Builders /\ mu = {g} /\ mu' = mu /\ call' = call
      BY <2>6 DEF Check
    <3>2. pc' \in {[pc EXCEPT ![g] = "fill"], [pc EXCEPT ![g] = "return"]}
      BY <2>6 DEF Check
    <3>3. pc'[g] \in {"fill", "return"} /\ \A h \in Callers : h # g => pc'[h] = pc[h]
      BY <3>2
    <3> QED
      BY <3>1, <3>3 DEF Kinds
  <2>7. CASE Fill(g)
    BY <2>7 DEF Fill, Kinds
  <2>8. CASE Commit(g)
    BY <2>8 DEF Commit
  <2>9. CASE EnterHook(g) \/ HookAnswers(g) \/ Send(g) \/ Answer(g)
    BY <2>9 DEF EnterHook, HookAnswers, Send, Answer
  <2>10. CASE LeaveHook(g) \/ LeaveDo(g)
    BY <2>10 DEF LeaveHook, LeaveDo, Kinds
  <2>11. CASE Return(g)
    BY <2>11 DEF Return
  <2> QED
    BY <2>1, <2>2, <2>3, <2>4, <2>5, <2>6, <2>7, <2>8, <2>9, <2>10, <2>11
<1> QED
  BY <1>1, <1>2

LEMMA PathStep ==
    ASSUME Inv, [Next]_vars
    PROVE  PathInv'
<1>1. CASE UNCHANGED vars
  BY <1>1 DEF Inv, PathInv, Top, Chain, vars
<1>2. ASSUME Next PROVE PathInv'
  <2>1. PICK g \in Callers :
          \/ CallBuilder(g) \/ CallCommit(g) \/ CallPut(g) \/ Lock(g) \/ Check(g)
          \/ Fill(g) \/ Commit(g) \/ EnterHook(g) \/ HookAnswers(g) \/ Send(g)
          \/ Answer(g) \/ LeaveHook(g) \/ LeaveDo(g) \/ Return(g)
    BY <1>2, StepCases
  <2> DEFINE n == Len(path[g])
  <2>2. Top' = Top /\ Top \in Nat
    BY <1>2, HooksFixed, ChainFacts DEF Inv, TypeOK
  <2>3. \A h \in Callers : PathOK(Top, pc[h], level[h], path[h])
    BY DEF Inv, PathInv
  <2>4. /\ DOMAIN pc = Callers /\ DOMAIN level = Callers /\ DOMAIN path = Callers
        /\ level[g] \in Nat /\ n \in Nat /\ n <= Top /\ path[g] = Descent(Top, n)
    BY <2>3 DEF Inv, TypeOK, PathOK
  <2>5. \A h \in Callers \ {g} : pc'[h] = pc[h] /\ level'[h] = level[h] /\ path'[h] = path[h]
    BY <2>1, <2>4 DEF CallBuilder, CallCommit, CallPut, Begin, Lock, Check, Fill, Commit, EnterHook,
     HookAnswers, Send, Answer, LeaveHook, LeaveDo, Return
  <2>6. SUFFICES PathOK(Top, pc'[g], level'[g], path'[g])
    BY <2>2, <2>3, <2>5 DEF PathInv
  <2>7. <<>> = Descent(Top, 0) /\ Len(<<>>) = 0 /\ <<>> \in Seq(Nat)
    BY <2>2, DescentFacts
  <2>8. CASE CallBuilder(g) \/ CallCommit(g) \/ CallPut(g)
    BY <2>2, <2>3, <2>4, <2>7, <2>8 DEF CallBuilder, CallCommit, CallPut, Begin, TableKV, PathOK
  <2>9. CASE Lock(g) \/ Check(g) \/ Fill(g)
    BY <2>3, <2>4, <2>9 DEF Lock, Check, Fill, PathOK
  <2>10. CASE Commit(g)
    BY <2>2, <2>3, <2>4, <2>7, <2>10 DEF Commit, TxnKV, PathOK
  <2>11. CASE EnterHook(g)
    <3>1. level[g] = Top - n /\ level[g] > 0 /\ n < Top
      BY <2>2, <2>3, <2>4, <2>11 DEF EnterHook, PathOK
    <3>2. /\ Append(path[g], level[g]) = Descent(Top, n + 1)
          /\ Descent(Top, n + 1) \in Seq(Nat) /\ Len(Descent(Top, n + 1)) = n + 1
      <4>1. n + 1 \in Nat /\ n + 1 <= Top
        BY <2>2, <2>4, <3>1
      <4> QED
        BY <2>2, <2>4, <3>1, <4>1, DescentFacts
    <3>3. pc'[g] = "do" /\ path'[g] = Append(path[g], level[g]) /\ level'[g] = level[g] - 1
      BY <2>4, <2>11 DEF EnterHook
    <3> HIDE DEF n
    <3>4. path'[g] = Descent(Top, n + 1)
      BY <3>2, <3>3, Zenon
    <3>5. path'[g] \in Seq(Nat) /\ Len(path'[g]) = n + 1
      BY <3>2, <3>4, Zenon
    <3>6. n + 1 <= Top /\ level'[g] = Top - (n + 1)
      BY <2>2, <2>4, <3>1, <3>3
    <3> QED
      BY <3>3, <3>4, <3>5, <3>6 DEF PathOK
  <2>12. CASE HookAnswers(g) \/ Send(g) \/ Answer(g)
    BY <2>2, <2>3, <2>4, <2>12 DEF HookAnswers, Send, Answer, PathOK
  <2>13. CASE LeaveHook(g)
    <3>1. n > 0 /\ pc[g] = "returned"
      BY <2>3, <2>4, <2>13 DEF LeaveHook, PathOK
    <3>2. Last(path[g]) = Top + 1 - n /\ Front(path[g]) = Descent(Top, n - 1)
      BY <2>2, <2>4, <3>1, DescentFacts
    <3>3. Descent(Top, n - 1) \in Seq(Nat) /\ Len(Descent(Top, n - 1)) = n - 1
      <4>1. n - 1 \in Nat /\ n - 1 <= Top
        BY <2>2, <2>4, <3>1
      <4> QED
        BY <2>2, <4>1, DescentFacts
    <3>4. \/ path'[g] = path[g] /\ pc'[g] = "do" /\ level'[g] = Last(path[g]) - 1
          \/ path'[g] = Front(path[g]) /\ pc'[g] = pc[g] /\ level'[g] = level[g]
      BY <2>4, <2>13 DEF LeaveHook
    <3> QED
      BY <2>2, <2>3, <2>4, <3>1, <3>2, <3>3, <3>4 DEF PathOK
  <2>14. CASE LeaveDo(g) \/ Return(g)
    BY <2>2, <2>3, <2>4, <2>7, <2>14 DEF LeaveDo, Return, PathOK
  <2> QED
    BY <2>1, <2>8, <2>9, <2>10, <2>11, <2>12, <2>13, <2>14
<1> QED
  BY <1>1, <1>2
\* What a step of Fill does: the clause was empty.
LEMMA FillFacts ==
    ASSUME Inv, NEW g \in Callers, Fill(g)
    PROVE  /\ call[g] \in Builders \ given
           /\ op[g][call[g]] \in {<<>>} \cup {<<p>> : p \in Operands}
           /\ content' = [content EXCEPT ![call[g]] = op[g][call[g]]]
<1>1. call[g] \in Builders \ given
  BY DEF Inv, LockInv, ContentInv, Fill, Bars, Builders
<1>2. op[g] \in Contents
  BY DEF Inv, TypeOK
<1>3. op[g][call[g]] \in {<<>>} \cup {<<p>> : p \in Operands}
  BY <1>1, <1>2, ContentFacts
<1>4. content[call[g]] = <<>>
  BY <1>1 DEF Inv, ContentInv
<1>5. content' = [content EXCEPT ![call[g]] = content[call[g]] \o op[g][call[g]]]
  BY DEF Fill
<1>6. <<>> \o op[g][call[g]] = op[g][call[g]]
  BY <1>3
<1> QED
  BY <1>1, <1>3, <1>4, <1>5, <1>6

LEMMA ContentStep ==
    ASSUME Inv, [Next]_vars
    PROVE  ContentInv'
<1>1. CASE UNCHANGED vars
  BY <1>1 DEF Inv, ContentInv, vars
<1>2. ASSUME Next PROVE ContentInv'
  <2>1. PICK g \in Callers :
          \/ CallBuilder(g) \/ CallCommit(g) \/ CallPut(g) \/ Lock(g) \/ Check(g)
          \/ Fill(g) \/ Commit(g) \/ EnterHook(g) \/ HookAnswers(g) \/ Send(g)
          \/ Answer(g) \/ LeaveHook(g) \/ LeaveDo(g) \/ Return(g)
    BY <1>2, StepCases
  <2> USE DEF Inv, ContentInv
  <2>2. /\ DOMAIN pc = Callers /\ DOMAIN call = Callers /\ DOMAIN op = Callers
        /\ DOMAIN res = Callers /\ DOMAIN content = Builders
    BY DEF TypeOK, Contents
  <2>3. CASE CallBuilder(g) \/ CallCommit(g) \/ CallPut(g)
    BY <2>2, <2>3 DEF CallBuilder, CallCommit, CallPut, Begin, Puts, txnState
  <2>4. CASE Lock(g)
    BY <2>2, <2>4 DEF Lock, txnState
  <2>5. CASE Check(g)
    BY <2>2, <2>5 DEF Check, txnState
  <2>6. CASE Fill(g)
    <3>1. /\ call[g] \in Builders \ given
          /\ content' = [content EXCEPT ![call[g]] = op[g][call[g]]]
      BY <2>6, FillFacts
    <3>2. \A h \in Callers : h # g => ~ Holds(h)
      BY <2>6, <3>1 DEF Fill, LockInv, Holds
    <3>3. \A h \in Callers : h # g => pc[h] # "fill" /\ (pc[h] \in {"do", "remote", "returned"} => call[h] # "Commit")
      BY <3>2 DEF LockInv, Holds
    <3>4. given' = given \cup {call[g]} /\ promised' = promised /\ call' = call /\ op' = op
          /\ pc' = [pc EXCEPT ![g] = "return"] /\ res' = [res EXCEPT ![g] = "ok"]
      BY <2>6 DEF Fill
    <3>5. \A c \in Builders : c \notin given' => content'[c] = <<>>
      BY <2>2, <3>1, <3>4
    <3> QED
      BY <2>2, <3>1, <3>3, <3>4, <3>5
  <2>7. CASE Commit(g)
    BY <2>2, <2>7 DEF Commit, txnState
  <2>8. CASE EnterHook(g) \/ HookAnswers(g) \/ Send(g) \/ Answer(g)
    BY <2>2, <2>8 DEF EnterHook, HookAnswers, Send, Answer, txnState
  <2>9. CASE LeaveHook(g)
    BY <2>2, <2>9 DEF LeaveHook, txnState
  <2>10. CASE LeaveDo(g)
    <3>1. call[g] \notin Builders
      BY <2>10 DEF LeaveDo, LockInv, Builders, Puts
    <3> QED
      BY <2>2, <2>10, <3>1 DEF LeaveDo, txnState
  <2>11. CASE Return(g)
    BY <2>2, <2>11 DEF Return, Builders
  <2> QED
    BY <2>1, <2>3, <2>4, <2>5, <2>6, <2>7, <2>8, <2>9, <2>10, <2>11
<1> QED
  BY <1>1, <1>2

LEMMA TypeStep ==
    ASSUME Inv, [Next]_vars
    PROVE  TypeOK'
<1>1. CASE UNCHANGED vars
  BY <1>1 DEF Inv, TypeOK, Top, Chain, vars
<1>2. ASSUME Next PROVE TypeOK'
  <2>1. PICK g \in Callers :
          \/ CallBuilder(g) \/ CallCommit(g) \/ CallPut(g) \/ Lock(g) \/ Check(g)
          \/ Fill(g) \/ Commit(g) \/ EnterHook(g) \/ HookAnswers(g) \/ Send(g)
          \/ Answer(g) \/ LeaveHook(g) \/ LeaveDo(g) \/ Return(g)
    BY <1>2, StepCases
  <2>2. Top' = Top /\ Chain' = Chain /\ Top \in Nat /\ TypeOK
    BY <1>2, HooksFixed, ChainFacts DEF Inv, TypeOK
  <2> USE <2>2 DEF TypeOK, Results, counters, txnState
  <2>3. CASE CallBuilder(g)
    <3>1. PICK c \in Builders, o \in {<<>>} \cup {<<p>> : p \in [by : {g}, unsupported : BOOLEAN]} :
            call' = [call EXCEPT ![g] = c] /\ op' = [op EXCEPT ![g] = [Nothing EXCEPT ![c] = o]]
      BY <2>3 DEF CallBuilder
    <3>2. o \in {<<>>} \cup {<<p>> : p \in Operands}
      BY DEF Operands
    <3>3. [Nothing EXCEPT ![c] = o] \in Contents
      BY <3>2, ContentFacts
    <3> QED
      <4>1. calls' \in 0..MaxCalls
        BY <2>3, CallsAssumption DEF CallBuilder, Begin
      <4>2. call' \in [Callers -> Kinds \cup {"none"}] /\ op' \in [Callers -> Contents]
        BY <3>1, <3>3 DEF Kinds
      <4>3. pc' = [pc EXCEPT ![g] = "lock"] /\ UNCHANGED level
        BY <2>3 DEF CallBuilder
      <4>4. UNCHANGED <<hooks, mu, again, path, res, requests, counters, txnState>>
        BY <2>3 DEF CallBuilder, Begin
      <4> QED
        BY <4>1, <4>2, <4>3, <4>4
  <2>4. CASE CallCommit(g)
    <3>1. calls' \in 0..MaxCalls
      BY <2>4, CallsAssumption DEF CallCommit, Begin
    <3>2. call' = [call EXCEPT ![g] = "Commit"] /\ pc' = [pc EXCEPT ![g] = "lock"]
          /\ UNCHANGED <<op, level>>
      BY <2>4 DEF CallCommit
    <3>3. UNCHANGED <<hooks, mu, again, path, res, requests, counters, txnState>>
      BY <2>4 DEF CallCommit, Begin
    <3> QED
      BY <3>1, <3>2, <3>3 DEF Kinds
  <2>5. CASE CallPut(g)
    <3>1. calls' \in 0..MaxCalls
      BY <2>5, CallsAssumption DEF CallPut, Begin
    <3>2. PICK c \in Puts : call' = [call EXCEPT ![g] = c] /\ level' = [level EXCEPT ![g] = Top]
      BY <2>5 DEF CallPut, TableKV
    <3>3. pc' = [pc EXCEPT ![g] = "do"] /\ UNCHANGED op
      BY <2>5 DEF CallPut
    <3>4. UNCHANGED <<hooks, mu, again, path, res, requests, counters, txnState>>
      BY <2>5 DEF CallPut, Begin
    <3> QED
      BY <3>1, <3>2, <3>3, <3>4 DEF Kinds
  <2>6. CASE Lock(g)
    BY <2>6 DEF Lock
  <2>7. CASE Check(g)
    BY <2>7 DEF Check
  <2>8. CASE Fill(g)
    <3> DEFINE s == op[g][call[g]]
    <3>0. /\ call[g] \in Builders /\ s \in {<<>>} \cup {<<p>> : p \in Operands}
          /\ content' = [content EXCEPT ![call[g]] = s]
      BY <2>8, FillFacts
    <3> HIDE DEF s
    <3>1. content' \in Contents /\ call[g] \in Builders
      BY <3>0, ContentFacts
    <3> QED
      BY <2>8, <3>1 DEF Fill
  <2>9. CASE Commit(g)
    BY <2>9 DEF Commit, TxnKV
  <2>10. CASE EnterHook(g)
    <3>1. level[g] - 1 \in Nat /\ Append(path[g], level[g]) \in Seq(Nat)
      BY <2>10 DEF EnterHook
    <3> QED
      BY <2>10, <3>1 DEF EnterHook
  <2>11. CASE HookAnswers(g)
    BY <2>11 DEF HookAnswers
  <2>12. CASE Send(g)
    <3>1. Append(requests, op[g]) \in Seq(Contents)
      <4> HIDE DEF Results
      <4>1. op[g] \in Contents /\ requests \in Seq(Contents)
        OBVIOUS
      <4> QED
        BY <4>1
    <3>2. requests' \in Seq(Contents)
      BY <2>12, <3>1 DEF Send
    <3>3. pc' \in {[pc EXCEPT ![g] = "returned"], [pc EXCEPT ![g] = "remote"]}
          /\ res' \in {res, [res EXCEPT ![g] = "panic"]}
      BY <2>12 DEF Send
    <3>4. UNCHANGED <<hooks, mu, call, op, level, again, path, calls, counters, txnState>>
      BY <2>12 DEF Send
    <3> QED
      BY <3>2, <3>3, <3>4
  <2>13. CASE Answer(g)
    BY <2>13 DEF Answer
  <2>14. CASE LeaveHook(g)
    <3> DEFINE l == Last(path[g])
    <3>1. PathOK(Top, pc[g], level[g], path[g]) /\ path[g] # <<>>
      BY <2>14 DEF Inv, PathInv, LeaveHook
    <3>2. Len(path[g]) \in 1..Top
      BY <3>1 DEF PathOK
    <3>3. l \in 1..Top /\ Front(path[g]) \in Seq(Nat)
      <4>1. /\ Last(path[g]) = Top + 1 - Len(path[g])
            /\ Front(path[g]) = Descent(Top, Len(path[g]) - 1)
        BY <3>1, <3>2, DescentFacts DEF PathOK
      <4>2. Descent(Top, Len(path[g]) - 1) \in Seq(Nat)
        BY <3>2, DescentFacts
      <4> QED
        BY <3>2, <4>1, <4>2
    <3>4. /\ observed' \in {observed, [observed EXCEPT ![l] = observed[l] + 1]}
          /\ failed' \in {failed, [failed EXCEPT ![l] = failed[l] + 1], [failed EXCEPT ![l] = failed[l]]}
      BY <2>14 DEF LeaveHook, Count
    <3>5. observed' \in [1..Top -> Nat] /\ failed' \in [1..Top -> Nat]
      <4>1. l \in DOMAIN observed /\ l \in DOMAIN failed /\ observed[l] + 1 \in Nat /\ failed[l] + 1 \in Nat
        BY <3>3
      <4>2. observed \in [1..Top -> Nat] /\ failed \in [1..Top -> Nat]
        OBVIOUS
      <4>3. failed[l] \in Nat
        BY <4>2, <3>3
      <4> HIDE DEF l
      <4>4. observed' \in [1..Top -> Nat]
        BY ONLY <3>4, <4>1, <4>2
      <4>5. failed' \in [1..Top -> Nat]
        BY ONLY <3>4, <4>1, <4>2, <4>3
      <4> QED
        BY <4>4, <4>5
    <3>6. /\ again' \in {again, [again EXCEPT ![g] = again[g] \cup {l}]}
          /\ level' \in {level, [level EXCEPT ![g] = l - 1]}
          /\ path' \in {path, [path EXCEPT ![g] = Front(path[g])]}
          /\ pc' \in {pc, [pc EXCEPT ![g] = "do"]}
          /\ UNCHANGED <<hooks, mu, call, op, res, calls, requests, done, given, content, promised>>
      BY <2>14 DEF LeaveHook
    <3>7. l - 1 \in Nat /\ l \in Nat
      BY <3>3
    <3>8. again[g] \cup {l} \in SUBSET Nat
      BY <3>7
    <3> HIDE DEF l
    <3>9. again' \in [Callers -> SUBSET Nat] /\ level' \in [Callers -> Nat]
          /\ path' \in [Callers -> Seq(Nat)]
      <4>1. again' \in [Callers -> SUBSET Nat]
        <5>1. again \in [Callers -> SUBSET Nat]
          OBVIOUS
        <5>2. [again EXCEPT ![g] = again[g] \cup {l}] \in [Callers -> SUBSET Nat]
          BY <3>8, <5>1, Zenon
        <5> QED
          BY <3>6, <5>1, <5>2
      <4>2. level' \in [Callers -> Nat]
        BY <3>6, <3>7
      <4>3. path' \in [Callers -> Seq(Nat)]
        BY <3>3, <3>6
      <4> QED
        BY <4>1, <4>2, <4>3
    <3> QED
      BY <3>5, <3>6, <3>9
  <2>15. CASE LeaveDo(g)
    <3>1. done' \in [all : Nat, errors : Nat]
      BY <2>15 DEF LeaveDo
    <3>2. res' \in {res, [res EXCEPT ![g] = "panic"], [res EXCEPT ![g] = res[g]]}
      BY <2>15 DEF LeaveDo
    <3>3. /\ pc' = [pc EXCEPT ![g] = "return"]
          /\ UNCHANGED <<hooks, mu, call, op, level, again, path, calls, requests, observed,
                         failed, txnState>>
      BY <2>15 DEF LeaveDo
    <3> QED
      BY <3>1, <3>2, <3>3
  <2>16. CASE Return(g)
    BY <2>16, ContentFacts DEF Return, Builders
  <2> QED
    BY <2>1, <2>3, <2>4, <2>5, <2>6, <2>7, <2>8, <2>9, <2>10, <2>11, <2>12, <2>13, <2>14, <2>15, <2>16
<1> QED
  BY <1>1, <1>2
LEMMA Invariance == Spec => []Inv
<1>1. Inv /\ [Next]_vars => Inv'
  <2> SUFFICES ASSUME Inv, [Next]_vars PROVE Inv'
    OBVIOUS
  <2> QED
    BY TypeStep, LockStep, ContentStep, PathStep DEF Inv
<1> QED
  BY <1>1, InitInv, PTL DEF Spec

-------------------------------------------------------------------------------
(* The theorems *)

\* The calls, the Txn and the counters of KVCalls have their types; a clause of
\* the Txn is filled at most once.
THEOREM TypeCorrect == Spec => []TypeOK
<1>1. Inv => TypeOK
  BY DEF Inv
<1> QED
  BY <1>1, Invariance, PTL

\* newKV, hookedKV.Txn and hookedKV.Table leave no way around a hook.
THEOREM NoWayAround == Spec => []EveryHookSees
<1>1. ASSUME Inv PROVE EveryHookSees
  <2> SUFFICES ASSUME NEW g \in Callers, pc[g] = "remote"
               PROVE  path[g] = [i \in 1..Top |-> Top + 1 - i]
    BY DEF EveryHookSees
  <2>1. PathOK(Top, pc[g], level[g], path[g])
    BY <1>1 DEF Inv, PathInv
  <2> QED
    BY <2>1 DEF PathOK, Descent
<1> QED
  BY <1>1, Invariance, PTL

LEMMA CountInit == Init => CountInv
<1> SUFFICES ASSUME Init, Top > 0 PROVE observed[Top] = done.all + Cardinality(Inside)
                                     /\ failed[Top] = done.errors + Cardinality(Failing)
  BY DEF CountInv
<1>1. Inside = {} /\ Failing = {}
  BY DEF Init, Inside, Failing
<1>2. Top \in Nat
  BY ChainFacts DEF Init
<1>3. observed[Top] = 0 /\ failed[Top] = 0 /\ done.all = 0 /\ done.errors = 0
  BY <1>2 DEF Init
<1> QED
  BY <1>1, <1>3, FS_EmptySet

LEMMA CountStep ==
    ASSUME Inv, Inv', CountInv, [Next]_vars
    PROVE  CountInv'
<1>1. CASE UNCHANGED vars
  BY <1>1 DEF CountInv, Inside, Failing, Top, Chain, vars
<1>2. ASSUME Next PROVE CountInv'
  <2>1. PICK g \in Callers :
          \/ CallBuilder(g) \/ CallCommit(g) \/ CallPut(g) \/ Lock(g) \/ Check(g)
          \/ Fill(g) \/ Commit(g) \/ EnterHook(g) \/ HookAnswers(g) \/ Send(g)
          \/ Answer(g) \/ LeaveHook(g) \/ LeaveDo(g) \/ Return(g)
    BY <1>2, StepCases
  <2>2. Top' = Top /\ Chain' = Chain /\ Top \in Nat
    BY <1>2, HooksFixed, ChainFacts DEF Inv, TypeOK
  <2>3. SUFFICES ASSUME Top > 0, Chain[Top] = "plugin"
                 PROVE  /\ observed'[Top] = done'.all + Cardinality(Inside')
                        /\ failed'[Top] = done'.errors + Cardinality(Failing')
    BY <2>2 DEF CountInv
  <2>4. /\ observed[Top] = done.all + Cardinality(Inside)
        /\ failed[Top] = done.errors + Cardinality(Failing)
    BY <2>3 DEF CountInv
  <2>5. /\ IsFiniteSet(Inside) /\ IsFiniteSet(Failing)
        /\ Cardinality(Inside) \in Nat /\ Cardinality(Failing) \in Nat
    <3>1. Inside \subseteq Callers /\ Failing \subseteq Callers
      BY DEF Inside, Failing
    <3> QED
      BY <3>1, CallsAssumption, FS_Subset, FS_CardinalityType
  <2>6. /\ DOMAIN pc = Callers /\ DOMAIN path = Callers /\ DOMAIN res = Callers
        /\ DOMAIN observed = 1..Top /\ DOMAIN failed = 1..Top
        /\ observed[Top] \in Nat /\ failed[Top] \in Nat /\ done.all \in Nat /\ done.errors \in Nat
    BY <2>2, <2>3 DEF Inv, TypeOK
  <2>7. PathOK(Top, pc[g], level[g], path[g]) /\ PathOK(Top, pc'[g], level'[g], path'[g])
    BY <2>2 DEF Inv, PathInv
  <2>8. \A h \in Callers \ {g} : pc'[h] = pc[h] /\ path'[h] = path[h] /\ res'[h] = res[h]
    BY <2>1, <2>6 DEF CallBuilder, CallCommit, CallPut, Begin, Lock, Check, Fill, Commit, EnterHook,
     HookAnswers, Send, Answer, LeaveHook, LeaveDo, Return
  <2>9. ASSUME g \notin Inside, g \notin Inside', UNCHANGED done,
               observed'[Top] = observed[Top], failed'[Top] = failed[Top]
        PROVE  /\ observed'[Top] = done'.all + Cardinality(Inside')
               /\ failed'[Top] = done'.errors + Cardinality(Failing')
    <3>1. Inside' = Inside /\ Failing' = Failing
      BY <2>8, <2>9 DEF Inside, Failing
    <3> QED
      BY <2>4, <2>9, <3>1
  <2>10. CASE \/ CallBuilder(g) \/ CallCommit(g) \/ CallPut(g) \/ Lock(g) \/ Check(g)
              \/ Fill(g) \/ Commit(g) \/ EnterHook(g) \/ Return(g)
    <3>1. pc[g] # "returned" /\ pc'[g] # "returned" /\ UNCHANGED counters
      BY <2>6, <2>10 DEF CallBuilder, CallCommit, CallPut, Begin, Lock, Check, Fill, Commit,
         EnterHook, Return
    <3> QED
      BY <2>9, <3>1 DEF Inside, counters
  <2>11. CASE HookAnswers(g) \/ Send(g) \/ Answer(g)
    <3>1. pc[g] # "returned" /\ path' = path /\ UNCHANGED counters
      BY <2>11 DEF HookAnswers, Send, Answer
    <3>2. path[g] # <<>>
      BY <2>2, <2>3, <2>7, <2>11 DEF HookAnswers, Send, Answer, PathOK
    <3> QED
      BY <2>9, <3>1, <3>2 DEF Inside, counters
  <2>12. CASE LeaveHook(g)
    <3> DEFINE l == Last(path[g])
               n == Len(path[g])
    <3>1. pc[g] = "returned" /\ path[g] # <<>> /\ UNCHANGED <<done, res>>
      BY <2>12 DEF LeaveHook
    <3>2. n \in 1..Top /\ path[g] = Descent(Top, n)
      BY <2>7, <3>1 DEF PathOK
    <3>3. l = Top + 1 - n /\ Front(path[g]) = Descent(Top, n - 1)
      <4>1. n \in Nat /\ n <= Top /\ n > 0
        BY <2>2, <3>2
      <4> QED
        BY <2>2, <3>2, <4>1, DescentFacts
    <3>4. Len(Descent(Top, n - 1)) = n - 1
      <4>1. n - 1 \in Nat /\ n - 1 <= Top
        BY <2>2, <3>2
      <4> QED
        BY <2>2, <4>1, DescentFacts
    <3>5. CASE pc'[g] = "do"
      <4>1. UNCHANGED <<observed, failed>>
        BY <2>6, <2>12, <3>1, <3>5 DEF LeaveHook
      <4> QED
        BY <2>9, <3>1, <3>5, <4>1 DEF Inside
    <3>6. CASE pc'[g] # "do" /\ n # 1
      <4>1. path'[g] = Front(path[g]) /\ Front(path[g]) # <<>>
        BY <2>6, <2>12, <3>2, <3>3, <3>4, <3>6 DEF LeaveHook
      <4>2. observed'[Top] = observed[Top] /\ failed'[Top] = failed[Top]
        <5>1. l # Top
          <6>1. n \in Int /\ l = Top + 1 - n /\ n # 1
            BY <2>2, <3>2, <3>3, <3>6
          <6> HIDE DEF n, l
          <6> QED
            BY <2>2, <6>1
        <5>2. \/ UNCHANGED <<observed, failed>>
              \/ /\ observed' = [observed EXCEPT ![l] = observed[l] + 1]
                 /\ \E k : failed' = [failed EXCEPT ![l] = k]
          BY <2>12 DEF LeaveHook, Count
        <5> HIDE DEF l
        <5> QED
          BY <2>2, <2>3, <2>6, <5>1, <5>2
      <4> QED
        BY <2>9, <3>1, <4>1, <4>2 DEF Inside
    <3>7. CASE pc'[g] # "do" /\ n = 1
      <4>1. l = Top /\ Front(path[g]) = <<>>
        BY <2>2, <3>3, <3>7, DescentFacts
      <4>2. path'[g] = <<>> /\ pc'[g] = "returned" /\ Count(g, Top)
        BY <2>3, <2>6, <2>12, <3>1, <3>7, <4>1 DEF LeaveHook
      <4>3. /\ observed'[Top] = observed[Top] + 1
            /\ failed'[Top] = IF res[g] = "error" THEN failed[Top] + 1 ELSE failed[Top]
        BY <2>2, <2>3, <2>6, <4>2 DEF Count
      <4>4. Inside' = Inside \cup {g} /\ g \notin Inside /\ g \notin Failing
        BY <2>8, <3>1, <4>2 DEF Inside, Failing
      <4>5. Failing' = IF res[g] = "error" THEN Failing \cup {g} ELSE Failing
        BY <2>8, <3>1, <4>2, <4>4 DEF Failing, Inside
      <4>6. Cardinality(Inside') = Cardinality(Inside) + 1
        BY <2>5, <4>4, FS_AddElement
      <4>7. Cardinality(Failing') = IF res[g] = "error" THEN Cardinality(Failing) + 1
                                    ELSE Cardinality(Failing)
        BY <2>5, <4>4, <4>5, FS_AddElement
      <4>8. done'.all = done.all /\ done'.errors = done.errors
        BY <3>1
      <4>n. /\ observed[Top] = done.all + Cardinality(Inside)
            /\ failed[Top] = done.errors + Cardinality(Failing)
            /\ Cardinality(Inside) \in Nat /\ Cardinality(Failing) \in Nat
            /\ done.all \in Nat /\ done.errors \in Nat
        BY <2>4, <2>5, <2>6, FS_CardinalityType
      <4>9. observed'[Top] = done'.all + Cardinality(Inside')
        BY ONLY <4>3, <4>6, <4>8, <4>n
      <4>10. CASE res[g] = "error"
        <5>1. failed'[Top] = failed[Top] + 1 /\ Cardinality(Failing') = Cardinality(Failing) + 1
          BY <4>3, <4>7, <4>10
        <5>2. failed'[Top] = done'.errors + Cardinality(Failing')
          BY ONLY <4>8, <4>n, <5>1
        <5> QED
          BY <4>9, <5>2
      <4>11. CASE res[g] # "error"
        <5>1. failed'[Top] = failed[Top] /\ Cardinality(Failing') = Cardinality(Failing)
          BY <4>3, <4>7, <4>11
        <5>2. failed'[Top] = done'.errors + Cardinality(Failing')
          BY <2>4, <4>8, <5>1
        <5> QED
          BY <4>9, <5>2
      <4> QED
        BY <4>10, <4>11
    <3> QED
      BY <3>2, <3>5, <3>6, <3>7
  <2>13. CASE LeaveDo(g)
    <3>1. /\ pc[g] = "returned" /\ path[g] = <<>> /\ UNCHANGED <<observed, failed>>
          /\ pc'[g] = "return"
          /\ done'.all = done.all + 1
          /\ done'.errors = IF res[g] = "error" THEN done.errors + 1 ELSE done.errors
      BY <2>6, <2>13 DEF LeaveDo
    <3>2. g \in Inside /\ (g \in Failing <=> res[g] = "error")
      BY <3>1 DEF Inside, Failing
    <3>3. Inside' = Inside \ {g} /\ Failing' = Failing \ {g}
      BY <2>8, <3>1 DEF Inside, Failing
    <3>4. Cardinality(Inside') = Cardinality(Inside) - 1
      BY <2>5, <3>2, <3>3, FS_RemoveElement
    <3>5. Cardinality(Failing') = IF res[g] = "error" THEN Cardinality(Failing) - 1
                                  ELSE Cardinality(Failing)
      BY <2>5, <3>2, <3>3, FS_RemoveElement
    <3>6. observed'[Top] = done'.all + Cardinality(Inside')
      BY <2>4, <2>5, <2>6, <3>1, <3>4
    <3>7. CASE res[g] = "error"
      BY <2>4, <2>5, <2>6, <3>1, <3>5, <3>6, <3>7
    <3>8. CASE res[g] # "error"
      BY <2>4, <2>5, <2>6, <3>1, <3>5, <3>6, <3>8
    <3> QED
      BY <3>7, <3>8
  <2> QED
    BY <2>1, <2>10, <2>11, <2>12, <2>13
<1> QED
  BY <1>1, <1>2

\* A plugin that is the outermost hook counts each call that its KV was given
\* once, and an error where the caller got one.
THEOREM CountsAgree == Spec => []OutermostCounts
<1>1. CountInv => OutermostCounts
  BY DEF CountInv, OutermostCounts, Inside, Failing
<1>2. Inv /\ Inv' /\ CountInv /\ [Next]_vars => CountInv'
  BY CountStep
<1>3. Spec => []CountInv
  BY <1>2, CountInit, Invariance, PTL DEF Spec
<1> QED
  BY <1>1, <1>3, PTL

LEMMA TransactionInit == Init => T!Init
BY DEF Init, T!Init, Nothing, T!Clauses, Builders

LEMMA TransactionStep ==
    ASSUME Inv, [Next]_vars
    PROVE  [T!Next]_(T!txnVars)
<1>1. CASE UNCHANGED vars
  BY <1>1 DEF vars, T!txnVars
<1>2. ASSUME Next PROVE [T!Next]_(T!txnVars)
  <2>1. PICK g \in Callers :
          \/ CallBuilder(g) \/ CallCommit(g) \/ CallPut(g) \/ Lock(g) \/ Check(g)
          \/ Fill(g) \/ Commit(g) \/ EnterHook(g) \/ HookAnswers(g) \/ Send(g)
          \/ Answer(g) \/ LeaveHook(g) \/ LeaveDo(g) \/ Return(g)
    BY <1>2, StepCases
  <2>2. CASE \/ CallBuilder(g) \/ CallCommit(g) \/ CallPut(g) \/ Lock(g) \/ Check(g)
             \/ Commit(g) \/ EnterHook(g) \/ HookAnswers(g) \/ Answer(g) \/ LeaveHook(g)
             \/ LeaveDo(g)
    <3>1. UNCHANGED <<given, content, promised, requests>>
      BY <2>2 DEF CallBuilder, CallCommit, CallPut, Begin, Lock, Check, Commit, EnterHook,
         HookAnswers, Answer, LeaveHook, LeaveDo, txnState
    <3> QED
      BY <3>1 DEF T!txnVars
  <2>3. CASE Fill(g)
    <3> DEFINE c == call[g]
               s == op[g][c]
    <3>1. c \in Builders /\ c \in T!Clauses
      BY <2>3, FillFacts DEF Builders, T!Clauses
    <3>2. s \in {<<>>} \cup {<<o>> : o \in Operands} /\ content' = [content EXCEPT ![c] = s]
      BY <2>3, FillFacts
    <3>3. given' = given \cup {c} /\ UNCHANGED <<promised, requests>>
      BY <2>3 DEF Fill
    <3>4. given \cap Bars(c) = {} /\ given \subseteq Builders
      BY <2>3 DEF Fill, Inv, ContentInv, TypeOK
    <3>5. T!Open(c, given)
      <4>1. c = "If" => given = {}
        BY <3>4 DEF Bars, Builders
      <4>2. c = "Then" => given \subseteq {"If"}
        BY <3>4 DEF Bars, Builders
      <4>3. c = "Else" => given \subseteq {"If", "Then"}
        BY <3>4 DEF Bars, Builders
      <4> QED
        BY <3>1, <4>1, <4>2, <4>3 DEF T!Open, T!Rank, Builders
    <3> HIDE DEF c, s
    <3>6. T!Give(c)
      BY <3>2, <3>3, <3>5 DEF T!Give
    <3> QED
      BY <3>1, <3>6 DEF T!Next
  <2>4. CASE Send(g)
    <3>1. UNCHANGED <<given, content, promised>>
      BY <2>4 DEF Send, txnState
    <3>2. CASE requests' = requests
      BY <3>1, <3>2 DEF T!txnVars
    <3>3. CASE requests' # requests
      <4>1. call[g] = "Commit" /\ requests' = Append(requests, op[g]) /\ pc[g] = "do"
        BY <2>4, <3>3 DEF Send
      <4>2. op[g] = content
        BY <4>1 DEF Inv, ContentInv
      <4> QED
        BY <3>1, <4>1, <4>2 DEF T!Next, T!Request
    <3> QED
      BY <3>2, <3>3
  <2>5. CASE Return(g)
    <3>1. UNCHANGED <<given, content, requests>>
      BY <2>5 DEF Return
    <3>2. CASE call[g] \in Builders /\ res[g] = "ok"
      <4>1. promised' = promised \cup {call[g]} /\ call[g] \in given /\ call[g] \in T!Clauses
        BY <2>5, <3>2 DEF Return, Inv, ContentInv, Builders, T!Clauses
      <4> QED
        BY <3>1, <4>1 DEF T!Next, T!Promise
    <3>3. CASE ~ (call[g] \in Builders /\ res[g] = "ok")
      <4>1. promised' = promised
        BY <2>5, <3>3 DEF Return
      <4> QED
        BY <3>1, <4>1 DEF T!txnVars
    <3> QED
      BY <3>2, <3>3
  <2> QED
    BY <2>1, <2>2, <2>3, <2>4, <2>5
<1> QED
  BY <1>1, <1>2

\* A Txn shared by any number of goroutines, under any hooks, implements
\* Transaction: no clause is lost, doubled, out of order or half sent.
THEOREM TransactionRefinement == Spec => ImplementsTransaction
<1>1. Inv /\ [Next]_vars => [T!Next]_(T!txnVars)
  BY TransactionStep
<1> QED
  BY <1>1, TransactionInit, Invariance, PTL DEF Spec, ImplementsTransaction, T!Spec
===============================================================================
