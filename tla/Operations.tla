------------------------------ MODULE Operations ------------------------------
(***************************************************************************)
(* The operations of the key-value API as values: how Get, Iterate, Put    *)
(* and Delete make an Op from a key and a list of options, which keys it   *)
(* ranges over, which request Do sends for it, and which Op the fake       *)
(* server records when it gets that request.                               *)
(*                                                                         *)
(* Keys are sequences of bytes, of which MaxByte is the largest.  A field  *)
(* of Op that is a flag or a number which 0 switches off is a member of    *)
(* "set" when it is on.  "end" is a set of at most one key: {} is nil.     *)
(***************************************************************************)
EXTENDS Integers, Sequences, SequencesExt

CONSTANTS
    MaxByte,  \* the byte 0xff
    Keys      \* the keys of a table and the arguments of the calls

ASSUME KeyAssumption ==
    /\ MaxByte \in Nat \ {0}
    /\ Keys \subseteq Seq(0..MaxByte)

-------------------------------------------------------------------------------
(* Ranges of keys *)

\* In a request, this end stands for all keys from the first one on.
noPrefixEnd == <<0>>

\* The last byte of key that can be incremented.
LastBelowMax(key) ==
    CHOOSE i \in DOMAIN key :
        key[i] < MaxByte /\ \A j \in (i+1)..Len(key) : key[j] = MaxByte

\* Variant: what follows the incremented byte stays.
getPrefix_uncut(key) ==
    IF \A i \in DOMAIN key : key[i] = MaxByte THEN noPrefixEnd
    ELSE [key EXCEPT ![LastBelowMax(key)] = @ + 1]

\* The end of the range of keys that start with key: the last byte that can be
\* is incremented and what follows it cut off.
getPrefix(key) ==
    IF \A i \in DOMAIN key : key[i] = MaxByte THEN noPrefixEnd
    ELSE LET last == LastBelowMax(key)
         IN  [i \in 1..last |-> IF i = last THEN key[i] + 1 ELSE key[i]]

\* The order of keys in a table: at the first difference, a ends or is smaller.
KeyLess(a, b) ==
    \E i \in 1..Len(b) :
        /\ i - 1 <= Len(a)
        /\ \A j \in 1..(i-1) : a[j] = b[j]
        /\ i \in DOMAIN a => a[i] < b[i]

\* Whether a server takes k to be meant by an operation.
InRange(k, op) ==
    \/ op.end = {} /\ k = op.key
    \/ \E end \in op.end :
        /\ ~ KeyLess(k, op.key)
        /\ end = noPrefixEnd \/ KeyLess(k, end)

-------------------------------------------------------------------------------
(* Options and the operations they make *)

Flags == {"limit", "rev", "serializable", "keysOnly", "countOnly", "prevKV", "count"}

\* The empty key stands for the least key there can be.
WithPrefix(op) ==
    IF op.key = <<>>
    THEN [op EXCEPT !.prefix = TRUE, !.key = <<0>>, !.end = {<<0>>}]
    ELSE [op EXCEPT !.prefix = TRUE, !.end = {getPrefix(op.key)}]

WithFromKey(op) ==
    [op EXCEPT !.fromKey = TRUE, !.end = {<<0>>},
               !.key = IF @ = <<>> THEN <<0>> ELSE @]

\* An option is a tuple of its name and, for WithRange, the key it is given;
\* "noLimit" is WithLimit(0).
ApplyOpt(op, opt) ==
    CASE opt[1] = "prefix" -> WithPrefix(op)
      [] opt[1] = "fromKey" -> WithFromKey(op)
      [] opt[1] = "range" -> [op EXCEPT !.end = {opt[2]}]
      [] opt[1] = "noLimit" -> [op EXCEPT !.set = @ \ {"limit"}]
      [] opt[1] \in Flags -> [op EXCEPT !.set = @ \cup {opt[1]}]

\* The options that a caller may give.
Options ==
    {<<f>> : f \in Flags \cup {"prefix", "fromKey", "noLimit"}}
      \cup {<<"range", key>> : key \in Keys}

OpOf(t, key, val) ==
    [t |-> t, key |-> key, end |-> {}, val |-> val, set |-> {},
     prefix |-> FALSE, fromKey |-> FALSE]

applyOpts(op, opts) == FoldLeft(ApplyOpt, op, opts)

\* IsOptsWithPrefix and IsOptsWithFromKey: the options are tried on an op of
\* their own.
BothRangeOptions(opts) ==
    LET tried == applyOpts(OpOf("new", <<>>, ""), opts)
    IN  tried.prefix /\ tried.fromKey

\* What an operation of each kind refuses with a panic.
Unexpected ==
    [range |-> {"count", "prevKV"},
     iterate |-> {"count", "prevKV"},
     delete |-> {"limit", "rev", "serializable", "countOnly"},
     put |-> {"limit", "rev", "serializable", "countOnly"}]

\* The operations that OpGet, OpIterate, OpDelete and OpPut return.
MakeOp(t, key, val, opts) ==
    LET op == applyOpts(OpOf(t, key, val), opts)
    IN  {o \in {op} :
            /\ t = "put" => o.end = {}
            /\ t # "put" => ~ BothRangeOptions(opts)
            /\ o.set \cap Unexpected[t] = {}}

OpGet(key, opts) == MakeOp("range", key, "", opts)
OpIterate(key, opts) == MakeOp("iterate", key, "", opts)
OpDelete(key, opts) == MakeOp("delete", key, "", opts)
OpPut(key, val, opts) == MakeOp("put", key, val, opts)

OpTxn(cmps, thenOps, elseOps) ==
    [t |-> "txn", cmps |-> cmps, then |-> thenOps, else |-> elseOps]

-------------------------------------------------------------------------------
(* Requests, and what the fake server records of them *)

\* On the wire a nil end and an empty one are the same.
Wire(end) == IF end = {} THEN <<>> ELSE CHOOSE e \in end : TRUE

\* Variant: Get sends the flags that a transaction's range sends.
toRangeRequest_asInTxn(op) ==
    [key |-> op.key, end |-> Wire(op.end),
     set |-> op.set \cap {"limit", "keysOnly", "countOnly"}]

toRangeRequest(op) ==
    [key |-> op.key, end |-> Wire(op.end),
     set |-> op.set \cap {"limit", "keysOnly", "countOnly", "serializable"}]

PutRequest(op) ==
    [key |-> op.key, val |-> op.val, set |-> op.set \cap {"prevKV"}]

DeleteRequest(op) ==
    [key |-> op.key, end |-> Wire(op.end), set |-> op.set \cap {"prevKV", "count"}]

\* The requests inside of a transaction, by kind of operation. toRequestOp
\* panics for an iteration and for a transaction.
toRequestOp(op) ==
    CASE op.t = "range" ->
           [t |-> "range",
            req |-> [key |-> op.key, end |-> Wire(op.end),
                     set |-> op.set \cap {"limit", "keysOnly", "countOnly"}]]
      [] op.t = "put" -> [t |-> "put", req |-> PutRequest(op)]
      [] op.t = "delete" -> [t |-> "delete", req |-> DeleteRequest(op)]

toTxnRequest(op) ==
    [cmps |-> op.cmps,
     then |-> [i \in DOMAIN op.then |-> toRequestOp(op.then[i])],
     else |-> [i \in DOMAIN op.else |-> toRequestOp(op.else[i])]]

\* Whether Do sends a request for op, or panics.
Sendable(op) ==
    op.t = "txn" =>
        \A x \in Range(op.then) \cup Range(op.else) : x.t \in {"range", "put", "delete"}

\* KV.Do: the RPC that an operation becomes.
Request(op) ==
    CASE op.t = "range" -> [rpc |-> "Range", req |-> toRangeRequest(op)]
      [] op.t = "iterate" -> [rpc |-> "IterateRange", req |-> toRangeRequest(op)]
      [] op.t = "put" -> [rpc |-> "Put", req |-> PutRequest(op)]
      [] op.t = "delete" -> [rpc |-> "DeleteRange", req |-> DeleteRequest(op)]
      [] op.t = "txn" -> [rpc |-> "Txn", req |-> toTxnRequest(op)]

FromWire(end) == IF end = <<>> THEN {} ELSE {end}

\* The Op with the fields of a request.
OpFields(t, req) ==
    [t |-> t, key |-> req.key, end |-> IF t = "put" THEN {} ELSE FromWire(req.end),
     val |-> IF t = "put" THEN req.val ELSE "", set |-> req.set,
     prefix |-> FALSE, fromKey |-> FALSE]

convToOp(r) == OpFields(r.t, r.req)

convTxnToRequest(req) ==
    OpTxn(req.cmps, [i \in DOMAIN req.then |-> convToOp(req.then[i])],
          [i \in DOMAIN req.else |-> convToOp(req.else[i])])

\* The Op that the fake server records, for both RPCs of a range the same.
Recorded(r) ==
    CASE r.rpc \in {"Range", "IterateRange"} -> OpFields("range", r.req)
      [] r.rpc = "Put" -> OpFields("put", r.req)
      [] r.rpc = "DeleteRange" -> OpFields("delete", r.req)
      [] r.rpc = "Txn" -> convTxnToRequest(r.req)

-------------------------------------------------------------------------------
(* What callers mean *)

\* A call of Get, Iterate, Put or Delete, or of Commit, and what it passes.
SingleCall(t, key, val, opts) == [t |-> t, key |-> key, val |-> val, opts |-> opts]
TxnCall(cmps, thenOps, elseOps) ==
    [t |-> "txn", cmps |-> cmps, then |-> thenOps, else |-> elseOps]

\* The call of a method of KV with what its signature allows.
IsSingleCall(call) ==
    /\ call = SingleCall(call.t, call.key, call.val, call.opts)
    /\ call.t \in DOMAIN Unexpected
    /\ call.key \in Keys
    /\ call.t # "put" => call.val = ""
    /\ call.opts \in Seq(Options)

\* What the constructors make sure of.
IsOp(op) ==
    /\ op = [t |-> op.t, key |-> op.key, end |-> op.end, val |-> op.val, set |-> op.set,
             prefix |-> op.prefix, fromKey |-> op.fromKey]
    /\ op.t \in DOMAIN Unexpected
    /\ op.end = {} \/ op.end = {Wire(op.end)}
    /\ op.t = "put" => op.end = {}
    /\ op.t # "put" => op.val = ""
    /\ op.set \subseteq Flags \ Unexpected[op.t]

\* The Commit of a transaction of operations that constructors have made.
IsTxnCall(call) ==
    /\ call = TxnCall(call.cmps, call.then, call.else)
    /\ \A ops \in {call.then, call.else} : \A i \in DOMAIN ops : IsOp(ops[i])

IsCall(call) == IF call.t = "txn" THEN IsTxnCall(call) ELSE IsSingleCall(call)

\* The operations that a call makes: none if it panics.
OpsOfCall(call) ==
    IF call.t = "txn"
    THEN {OpTxn(call.cmps, call.then, call.else)}
    ELSE MakeOp(call.t, call.key, call.val, call.opts)

OpOfCall(call) == CHOOSE op \in OpsOfCall(call) : TRUE

\* Whether a call asks for a prefix and for no other range.
AsksForPrefix(call) ==
    /\ call.t # "txn"
    /\ \E i \in DOMAIN call.opts :
        /\ call.opts[i] = <<"prefix">>
        /\ \A j \in DOMAIN call.opts \ {i} :
            call.opts[j][1] \notin {"prefix", "fromKey", "range"}

\* What an operation does not tell the server although it accepts it.
Ignored(t, inTxn) ==
    CASE t \in {"range", "iterate"} -> IF inTxn THEN {"rev", "serializable"} ELSE {"rev"}
      [] t = "put" -> {"count", "keysOnly"}
      [] t = "delete" -> {"keysOnly"}

\* An operation as its caller would expect to find it recorded.
ExpectedSingle(op, inTxn) ==
    [op EXCEPT !.t = IF @ = "iterate" THEN "range" ELSE @,
               !.end = @ \ {<<>>},
               !.set = @ \ Ignored(op.t, inTxn),
               !.prefix = FALSE, !.fromKey = FALSE]

Expected(op) ==
    IF op.t # "txn" THEN ExpectedSingle(op, FALSE)
    ELSE OpTxn(op.cmps, [i \in DOMAIN op.then |-> ExpectedSingle(op.then[i], TRUE)],
               [i \in DOMAIN op.else |-> ExpectedSingle(op.else[i], TRUE)])
===============================================================================
