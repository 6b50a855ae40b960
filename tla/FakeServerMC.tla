----------------------------- MODULE FakeServerMC -----------------------------
(* Values of the constants of FakeServer and Operations for TLC. *)
EXTENDS FakeServer, TLC

CONSTANTS c1, c2

\* All keys of at most two bytes; lists of at most two options.
ShortKeys == UNION {[1..n -> 0..MaxByte] : n \in 0..2}
SomeOptions == {<<f>> : f \in Flags \cup {"noLimit", "prefix", "fromKey"}}
             \cup {<<"range", <<>> >>, <<"range", <<1>> >>}
OptLists == UNION {[1..n -> SomeOptions] : n \in 0..2}

\* Tests of one goroutine with one call, of any kind, key and options; keys
\* that start with one byte and with two, and the empty key.
SingleCalls ==
    {call \in {SingleCall(t, key, IF t = "put" THEN "v" ELSE "", opts) :
                 t \in DOMAIN Unexpected, opts \in OptLists,
                 key \in {<<>>, <<1>>, <<1, 2>>, <<2, 2>>}} :
        OpsOfCall(call) # {}}

TxnsOfOne ==
    {TxnCall({}, <<op>>, <<op, op>>) :
        op \in UNION {OpsOfCall(call) : call \in {x \in SingleCalls : x.t # "iterate"}}}

OneCall == {[program |-> (c1 :> <<call>> @@ c2 :> <<>>), script |-> <<>>] :
                call \in SingleCalls \cup TxnsOfOne}

Get1 == SingleCall("range", <<1>>, "", << <<"serializable">> >>)
Iterate2 == SingleCall("iterate", <<2>>, "", << <<"prefix">> >>)
Put1 == SingleCall("put", <<1>>, "v", << <<"prevKV">> >>)
Delete2 == SingleCall("delete", <<2>>, "", << <<"fromKey">>, <<"count">> >>)
Txn1 == TxnCall({}, <<OpOfCall(Get1), OpOfCall(Put1)>>, <<>>)

\* One caller with two calls, or two callers with one call each.
SmallPrograms ==
    {c1 :> p @@ c2 :> <<>> : p \in {<<Get1, Put1>>, <<Iterate2, Put1>>,
                                    <<Txn1, Delete2>>}}
      \cup {c1 :> <<p>> @@ c2 :> <<Put1>> : p \in {Get1, Iterate2}}

Success(kind) == [kind |-> kind, err |-> OK]
Failure(code) == [kind |-> "get", err |-> [code |-> code, desc |-> "other"]]

\* Scripts that fit a program, that are too short so that they start over, and
\* that contain failures.
SmallScripts ==
    {<<>>,
     <<Success("put")>>,
     <<Success("get"), Success("put")>>,
     <<Success("iter"), Success("put")>>,
     <<Success("iterErr")>>,
     <<Success("txn"), Success("del")>>,
     <<Failure("Unavailable"), Success("get"), Success("put")>>,
     <<Failure("Canceled"), Failure("Internal")>>}

SmallTests == OneCall \cup [program : SmallPrograms, script : SmallScripts]
===============================================================================
