------------------------------ MODULE Transaction ------------------------------
(***************************************************************************)
(* What the callers of one Txn may rely on, however many of them there     *)
(* are: each clause is given once and in the order If, Then, Else; every   *)
(* request carries all that was given before it, whole, and so everything  *)
(* whose call has returned.                                                *)
(***************************************************************************)
EXTENDS Naturals, Sequences

CONSTANT Operand \* what a caller may put into a clause

Clauses == {"If", "Then", "Else"}
Rank == [If |-> 1, Then |-> 2, Else |-> 3]

\* A clause, and all clauses of its rank or a later one, are still to be given.
Open(c, given) == \A d \in given : Rank[d] < Rank[c]

VARIABLES
    given,    \* the clauses that were given
    content,  \* what is in each
    promised, \* the clauses whose call has returned
    requests  \* the contents that were sent

txnVars == <<given, content, promised, requests>>

Init ==
    /\ given = {}
    /\ content = [c \in Clauses |-> <<>>]
    /\ promised = {}
    /\ requests = <<>>

Give(c) ==
    /\ Open(c, given)
    /\ given' = given \cup {c}
    /\ \E operands \in {<<>>} \cup {<<o>> : o \in Operand} :
        content' = [content EXCEPT ![c] = operands]
    /\ UNCHANGED <<promised, requests>>

Promise(c) ==
    /\ c \in given
    /\ promised' = promised \cup {c}
    /\ UNCHANGED <<given, content, requests>>

Request ==
    /\ requests' = Append(requests, content)
    /\ UNCHANGED <<given, content, promised>>

Next ==
    \/ \E c \in Clauses : Give(c) \/ Promise(c)
    \/ Request

Spec == Init /\ [][Next]_txnVars
===============================================================================
