-------------------------------- MODULE KVCalls --------------------------------
(***************************************************************************)
(* The calls of a KV on their way through the hooks of the configuration:  *)
(* Put of the KV and of a Table, and one Txn whose clauses are given and   *)
(* which is committed by several goroutines.                               *)
(*                                                                         *)
(* newKV wraps the plain KV (level 0) with one hookedKV for each hook that *)
(* has OnKVCall (level l with the l-th of them), so that the last hook is  *)
(* the outermost.  Get, Delete and Iterate go the way of Put.              *)
(***************************************************************************)
EXTENDS Naturals, Sequences, SequencesExt, FiniteSets

CONSTANTS
    Callers,    \* the goroutines
    HookLists,  \* the configurations: config.Hooks
    MaxCalls    \* bound: calls of all goroutines

\* plugin: rprom and rotel, which count the call in a defer; retry: calls next
\* once more after an error; cache: may answer without calling next; silent: a
\* hook without OnKVCall; list: a list of hooks.
HookKinds == {"plugin", "retry", "cache", "silent", "list"}

\* The hooks that have OnKVCall; a list is no HookKVOpDo.
getHooks(hs) == SelectSeq(hs, LAMBDA h : h \in {"plugin", "retry", "cache"})

ASSUME CallsAssumption ==
    /\ IsFiniteSet(Callers)
    /\ \A hs \in HookLists : hs \in Seq(HookKinds) /\ getHooks(hs) \in Seq(HookKinds)
    /\ MaxCalls \in Nat

Builders == {"If", "Then", "Else"}
Puts == {"Put", "TablePut"}
Kinds == Builders \cup Puts \cup {"Commit"}

\* Who gave it, and whether it is an operation that no transaction takes.
Operands == [by : Callers, unsupported : BOOLEAN]
Contents == [Builders -> {<<>>} \cup {<<o>> : o \in Operands}]

Results == {"none", "ok", "empty", "error", "panic"}

VARIABLES
    hooks,    \* config.Hooks
    mu,       \* txn.mu: the goroutine that holds it, in a set, or none
    given,    \* txn.cif, txn.cthen, txn.celse: those that are set
    content,  \* txn.cmps, txn.sus, txn.fas
    pc,       \* where each goroutine stands
    call,     \* its call
    op,       \* the operands of a builder call, the content of Commit's OpTxn
    level,    \* the hookedKV whose Do it is in, 0 for the plain KV
    again,    \* the levels whose retry hook has called next a second time
    path,     \* the OnKVCalls it is in, the innermost last (history)
    res,      \* what Do, then the call, has returned
    calls,    \* calls so far
    observed, \* calls that each plugin counted
    failed,   \* calls that each plugin counted as errors
    done,     \* calls of the outermost Do that ended, and those with an error (history)
    promised, \* the clauses whose builder call has returned (history)
    requests  \* the content of each TxnRequest that was sent (history)

txnState == <<given, content, promised>>
counters == <<observed, failed, done>>
vars == <<hooks, mu, given, content, pc, call, op, level, again, path, res, calls,
          observed, failed, done, promised, requests>>

\* newKV looks at the client's copy of the configuration, which has its lists as
\* they were given.
Chain == getHooks(hooks)
Top == Len(Chain)

\* Variant: Txn of a hookedKV is the one that it embeds.
TxnKV_promoted(l) == 0

\* The KV that a Txn or a Table of the KV at level l calls.
TxnKV(l) == l
TableKV(l) == l

TypeOK ==
    /\ hooks \in HookLists
    /\ mu \in SUBSET Callers
    /\ given \in SUBSET Builders
    /\ content \in Contents
    /\ pc \in [Callers -> {"idle", "lock", "check", "fill", "commit", "do", "remote",
                           "returned", "return"}]
    /\ call \in [Callers -> Kinds \cup {"none"}]
    /\ op \in [Callers -> Contents]
    /\ level \in [Callers -> Nat]
    /\ again \in [Callers -> SUBSET Nat]
    /\ path \in [Callers -> Seq(Nat)]
    /\ res \in [Callers -> Results]
    /\ calls \in 0..MaxCalls
    /\ observed \in [1..Top -> Nat]
    /\ failed \in [1..Top -> Nat]
    /\ done \in [all : Nat, errors : Nat]
    /\ promised \in SUBSET Builders
    /\ requests \in Seq(Contents)

Nothing == [c \in Builders |-> <<>>]

Init ==
    /\ hooks \in HookLists
    /\ mu = {}
    /\ given = {}
    /\ content = Nothing
    /\ pc = [g \in Callers |-> "idle"]
    /\ call = [g \in Callers |-> "none"]
    /\ op = [g \in Callers |-> Nothing]
    /\ level = [g \in Callers |-> 0]
    /\ again = [g \in Callers |-> {}]
    /\ path = [g \in Callers |-> <<>>]
    /\ res = [g \in Callers |-> "none"]
    /\ calls = 0
    /\ observed = [l \in 1..Top |-> 0]
    /\ failed = [l \in 1..Top |-> 0]
    /\ done = [all |-> 0, errors |-> 0]
    /\ promised = {}
    /\ requests = <<>>

-------------------------------------------------------------------------------
(* The calls of a goroutine *)

\* A builder call brings at most one operand.
Begin(g) ==
    /\ pc[g] = "idle"
    /\ calls < MaxCalls
    /\ calls' = calls + 1
    /\ UNCHANGED <<hooks, mu, again, path, res, requests, counters, txnState>>

CallBuilder(g) ==
    /\ Begin(g)
    /\ \E c \in Builders, o \in {<<>>} \cup {<<p>> : p \in [by : {g}, unsupported : BOOLEAN]} :
        /\ call' = [call EXCEPT ![g] = c]
        /\ op' = [op EXCEPT ![g] = [Nothing EXCEPT ![c] = o]]
    /\ pc' = [pc EXCEPT ![g] = "lock"]
    /\ UNCHANGED level

CallCommit(g) ==
    /\ Begin(g)
    /\ call' = [call EXCEPT ![g] = "Commit"]
    /\ pc' = [pc EXCEPT ![g] = "lock"]
    /\ UNCHANGED <<op, level>>

\* Put and table.Put go to Do at once.
CallPut(g) ==
    /\ Begin(g)
    /\ \E c \in Puts :
        /\ call' = [call EXCEPT ![g] = c]
        /\ level' = [level EXCEPT ![g] = IF c = "Put" THEN Top ELSE TableKV(Top)]
    /\ pc' = [pc EXCEPT ![g] = "do"]
    /\ UNCHANGED op

\* Variant: the methods of a Txn do not lock it.
Lock_missing(g) ==
    /\ pc[g] = "lock"
    /\ pc' = [pc EXCEPT ![g] = IF call[g] \in Builders THEN "check" ELSE "commit"]
    /\ UNCHANGED <<hooks, mu, call, op, level, again, path, res, calls, requests,
                   counters, txnState>>

Lock(g) ==
    /\ pc[g] = "lock"
    /\ mu = {}
    /\ mu' = {g}
    /\ pc' = [pc EXCEPT ![g] = IF call[g] \in Builders THEN "check" ELSE "commit"]
    /\ UNCHANGED <<hooks, call, op, level, again, path, res, calls, requests,
                   counters, txnState>>

\* Variant: a builder call does not ask whether it was made before.
Bars_twice(c) == CASE c = "If" -> {"Then", "Else"}
                   [] c = "Then" -> {"Else"}
                   [] c = "Else" -> {}

\* The flags with which a builder call panics.
Bars(c) == CASE c = "If" -> {"If", "Then", "Else"}
             [] c = "Then" -> {"Then", "Else"}
             [] c = "Else" -> {"Else"}

Check(g) ==
    /\ pc[g] = "check"
    /\ IF given \cap Bars(call[g]) = {}
       THEN pc' = [pc EXCEPT ![g] = "fill"] /\ UNCHANGED res
       ELSE /\ pc' = [pc EXCEPT ![g] = "return"]
            /\ res' = [res EXCEPT ![g] = "panic"]
    /\ UNCHANGED <<hooks, mu, call, op, level, again, path, calls, requests,
                   counters, txnState>>

Fill(g) ==
    /\ pc[g] = "fill"
    /\ given' = given \cup {call[g]}
    /\ content' = [content EXCEPT ![call[g]] = @ \o op[g][call[g]]]
    /\ pc' = [pc EXCEPT ![g] = "return"]
    /\ res' = [res EXCEPT ![g] = "ok"]
    /\ UNCHANGED <<hooks, mu, call, op, level, again, path, calls, promised, requests,
                   counters>>

\* Commit takes the content into an OpTxn and calls Do with the lock held.
Commit(g) ==
    /\ pc[g] = "commit"
    /\ op' = [op EXCEPT ![g] = content]
    /\ level' = [level EXCEPT ![g] = TxnKV(Top)]
    /\ pc' = [pc EXCEPT ![g] = "do"]
    /\ UNCHANGED <<hooks, mu, call, again, path, res, calls, requests, counters,
                   txnState>>

-------------------------------------------------------------------------------
(* Do *)

\* hookedKV.Do: OnKVCall calls next, which is the Do of the level below.
EnterHook(g) ==
    /\ pc[g] = "do"
    /\ level[g] > 0
    /\ path' = [path EXCEPT ![g] = Append(@, level[g])]
    /\ level' = [level EXCEPT ![g] = @ - 1]
    /\ again' = [again EXCEPT ![g] = @ \ {level[g]}]
    /\ UNCHANGED <<hooks, mu, pc, call, op, res, calls, requests, counters, txnState>>

\* A hook that answers by itself, with nothing in its answer or an error, too.
\* The call is then back in the Do that called the hook.
HookAnswers(g) ==
    /\ pc[g] = "do"
    /\ level[g] > 0
    /\ Chain[level[g]] = "cache"
    /\ \E r \in {"ok", "empty", "error"} : res' = [res EXCEPT ![g] = r]
    /\ pc' = [pc EXCEPT ![g] = "returned"]
    /\ UNCHANGED <<hooks, mu, call, op, level, again, path, calls, requests, counters,
                   txnState>>

Unsupported(o) == \E c \in {"Then", "Else"} : \E i \in DOMAIN o[c] : o[c][i].unsupported

\* kv.Do builds the request, which panics for an operation that no transaction
\* takes, and calls the generated client.
Send(g) ==
    /\ pc[g] = "do"
    /\ level[g] = 0
    /\ IF call[g] = "Commit" /\ Unsupported(op[g])
       THEN /\ pc' = [pc EXCEPT ![g] = "returned"]
            /\ res' = [res EXCEPT ![g] = "panic"]
            /\ UNCHANGED requests
       ELSE /\ pc' = [pc EXCEPT ![g] = "remote"]
            /\ requests' = IF call[g] = "Commit" THEN Append(requests, op[g]) ELSE requests
            /\ UNCHANGED res
    /\ UNCHANGED <<hooks, mu, call, op, level, again, path, calls, counters, txnState>>

\* The generated client returns: an answer or an error of the server, or that
\* its context is done.
Answer(g) ==
    /\ pc[g] = "remote"
    /\ \E r \in {"ok", "error"} : res' = [res EXCEPT ![g] = r]
    /\ pc' = [pc EXCEPT ![g] = "returned"]
    /\ UNCHANGED <<hooks, mu, call, op, level, again, path, calls, requests, counters,
                   txnState>>

\* Variant: a plugin counts after the call of next, not in a defer.
Count_notDeferred(g, l) ==
    /\ observed' = [observed EXCEPT ![l] = IF res[g] = "panic" THEN @ ELSE @ + 1]
    /\ failed' = [failed EXCEPT ![l] = IF res[g] = "error" THEN @ + 1 ELSE @]

\* The defer of rprom, and of rotel: a panic is counted, but as no error.
Count(g, l) ==
    /\ observed' = [observed EXCEPT ![l] = @ + 1]
    /\ failed' = [failed EXCEPT ![l] = IF res[g] = "error" THEN @ + 1 ELSE @]

\* next has returned to, or panicked in, the OnKVCall that g is in.
LeaveHook(g) ==
    /\ pc[g] = "returned"
    /\ path[g] # <<>>
    /\ LET l == Last(path[g]) IN
        IF Chain[l] = "retry" /\ res[g] = "error" /\ l \notin again[g]
        THEN /\ again' = [again EXCEPT ![g] = @ \cup {l}]
             /\ level' = [level EXCEPT ![g] = l - 1]
             /\ pc' = [pc EXCEPT ![g] = "do"]
             /\ UNCHANGED <<path, observed, failed>>
        ELSE /\ path' = [path EXCEPT ![g] = Front(@)]
             /\ IF Chain[l] = "plugin" THEN Count(g, l) ELSE UNCHANGED <<observed, failed>>
             /\ UNCHANGED <<again, pc, level>>
    /\ UNCHANGED <<hooks, mu, call, op, res, calls, requests, done, txnState>>

\* The outermost Do has returned.  Commit takes the parts of the answer, which
\* panics when there is none; Put returns nil without an error then.
LeaveDo(g) ==
    /\ pc[g] = "returned"
    /\ path[g] = <<>>
    /\ done' = [all |-> done.all + 1,
                errors |-> IF res[g] = "error" THEN done.errors + 1 ELSE done.errors]
    /\ res' = [res EXCEPT ![g] = IF call[g] = "Commit" /\ @ = "empty" THEN "panic" ELSE @]
    /\ pc' = [pc EXCEPT ![g] = "return"]
    /\ UNCHANGED <<hooks, mu, call, op, level, again, path, calls, requests, observed,
                   failed, txnState>>

\* Variant: a panic skips the unlock.
Return_notDeferred(g) ==
    /\ pc[g] = "return"
    /\ mu' = IF res[g] = "panic" THEN mu ELSE mu \ {g}
    /\ promised' = IF call[g] \in Builders /\ res[g] = "ok" THEN promised \cup {call[g]}
                   ELSE promised
    /\ pc' = [pc EXCEPT ![g] = "idle"]
    /\ call' = [call EXCEPT ![g] = "none"]
    /\ op' = [op EXCEPT ![g] = Nothing]
    /\ level' = [level EXCEPT ![g] = 0]
    /\ again' = [again EXCEPT ![g] = {}]
    /\ res' = [res EXCEPT ![g] = "none"]
    /\ UNCHANGED <<hooks, given, content, path, calls, requests, counters>>

\* The call returns, or panics through its caller: the deferred unlock runs
\* either way, and the call's local state is gone.
Return(g) ==
    /\ pc[g] = "return"
    /\ mu' = mu \ {g}
    /\ promised' = IF call[g] \in Builders /\ res[g] = "ok" THEN promised \cup {call[g]}
                   ELSE promised
    /\ pc' = [pc EXCEPT ![g] = "idle"]
    /\ call' = [call EXCEPT ![g] = "none"]
    /\ op' = [op EXCEPT ![g] = Nothing]
    /\ level' = [level EXCEPT ![g] = 0]
    /\ again' = [again EXCEPT ![g] = {}]
    /\ res' = [res EXCEPT ![g] = "none"]
    /\ UNCHANGED <<hooks, given, content, path, calls, requests, counters>>

-------------------------------------------------------------------------------
Run(g) ==
    \/ Check(g) \/ Fill(g) \/ Commit(g) \/ EnterHook(g) \/ HookAnswers(g) \/ Send(g)
    \/ LeaveHook(g) \/ LeaveDo(g) \/ Return(g)

Next ==
    \E g \in Callers :
        CallBuilder(g) \/ CallCommit(g) \/ CallPut(g) \/ Lock(g) \/ Run(g) \/ Answer(g)

Spec == Init /\ [][Next]_vars

\* Goroutines run, sync.Mutex starves nobody, and the generated client returns.
\* It does so at the latest when the context of the call is done (module
\* UnaryRetry), so that this is about calls whose contexts end.
Fairness ==
    \A g \in Callers :
        /\ WF_vars(Run(g))
        /\ SF_vars(Lock(g))
        /\ WF_vars(Answer(g))

FairSpec == Spec /\ Fairness

-------------------------------------------------------------------------------
(* Safety *)

\* The Txn implements Transaction: goroutines that share it, in any order of
\* their calls, with panics, repeated commits and hooks that repeat requests,
\* never get a clause lost, doubled, out of order or half sent.
T == INSTANCE Transaction WITH Operand <- Operands

ImplementsTransaction == T!Spec

\* No request goes around a hook, whether it comes from the KV, a Table or a
\* Txn, and the last configured hook sees it first.
EveryHookSees ==
    \A g \in Callers : pc[g] = "remote" => path[g] = [i \in 1..Top |-> Top + 1 - i]

\* What a plugin that is the outermost hook has counted is what callers were
\* told: each call once, retried or panicking, and an error where they got one.
OutermostCounts ==
    (Top > 0 /\ Chain[Top] = "plugin") =>
        LET inside == {g \in Callers : pc[g] = "returned" /\ path[g] = <<>>}
            failing == {g \in inside : res[g] = "error"}
        IN /\ observed[Top] = done.all + Cardinality(inside)
           /\ failed[Top] = done.errors + Cardinality(failing)

(* Liveness *)

\* Every call returns, whatever the other goroutines do with the Txn and whoever
\* panicked with it.
CallsReturn == \A g \in Callers : (pc[g] # "idle") ~> (pc[g] = "idle")
===============================================================================
