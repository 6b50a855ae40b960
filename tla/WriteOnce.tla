------------------------------- MODULE WriteOnce -------------------------------
(***************************************************************************)
(* What a client promises about its mutations (Put, DeleteRange, Txn,      *)
(* table create and delete): each takes effect at most once; the answer    *)
(* "ok" says it did, the answer "unsent" says it did not and never will,   *)
(* and after "unknown" it may still take effect once.  A mutation may be   *)
(* excused while it is pending; of an excused one only "ok" says anything. *)
(***************************************************************************)
CONSTANTS
    Writes, \* the mutations of an application
    Tries   \* what may make a mutation take effect

VARIABLES
    status,  \* what the application knows of a mutation
    effects, \* effects[w]: the tries of w that took effect
    excused  \* the mutations that may take effect more than once

Init ==
    /\ status = [w \in Writes |-> "idle"]
    /\ effects = [w \in Writes |-> {}]
    /\ excused = {}

Issue(w) ==
    /\ status[w] = "idle"
    /\ status' = [status EXCEPT ![w] = "pending"]
    /\ UNCHANGED <<effects, excused>>

Excuse(w) ==
    /\ status[w] = "pending"
    /\ excused' = excused \cup {w}
    /\ UNCHANGED <<status, effects>>

Apply(w) ==
    /\ \/ status[w] \in {"pending", "unknown"} /\ effects[w] = {}
       \/ w \in excused
    /\ \E t \in Tries : effects' = [effects EXCEPT ![w] = @ \cup {t}]
    /\ UNCHANGED <<status, excused>>

Reply(w, s) ==
    /\ status[w] = "pending"
    /\ s = "ok" => effects[w] # {}
    /\ s = "unsent" => effects[w] = {} \/ w \in excused
    /\ status' = [status EXCEPT ![w] = s]
    /\ UNCHANGED <<effects, excused>>

Next ==
    \E w \in Writes :
        \/ Issue(w) \/ Excuse(w) \/ Apply(w)
        \/ \E s \in {"ok", "unsent", "unknown"} : Reply(w, s)

Spec == Init /\ [][Next]_<<status, effects, excused>>
===============================================================================
