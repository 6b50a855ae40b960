--------------------------------- MODULE Scan ---------------------------------
(***************************************************************************)
(* What a consumer may rely on when it iterates over a table: it gets the  *)
(* pages of one scan in order; the iteration ends as complete after the    *)
(* last page only; once the scan broke after a page, no further page of it *)
(* or of another one follows.                                              *)
(***************************************************************************)
EXTENDS Naturals, Sequences

CONSTANT MaxPages \* the largest number of pages

VARIABLES
    scan,   \* which scan the consumer is given
    total,  \* how many pages it has
    seen,   \* the pages the consumer got
    broken, \* the scan cannot be read further
    view    \* what the consumer last got, or that it waits

scanVars == <<scan, total, seen, broken, view>>

Init ==
    /\ scan = 0
    /\ total = 0
    /\ seen = <<>>
    /\ broken = FALSE
    /\ view = "before"

\* The first scan, and another one while no page was seen.
Begin ==
    /\ view \in {"before", "waiting"}
    /\ seen = <<>>
    /\ scan' = scan + 1
    /\ total' \in 0..MaxPages
    /\ broken' = FALSE
    /\ view' = "waiting"
    /\ UNCHANGED seen

Refuse ==
    /\ view = "before"
    /\ view' = "refused"
    /\ UNCHANGED <<scan, total, seen, broken>>

Page ==
    /\ view = "waiting"
    /\ ~ broken
    /\ Len(seen) < total
    /\ seen' = Append(seen, <<scan, Len(seen) + 1>>)
    /\ view' = "page"
    /\ UNCHANGED <<scan, total, broken>>

\* The scan breaks, an error is reported, or both.
Fail ==
    /\ view = "waiting"
    /\ broken' \in BOOLEAN
    /\ broken => broken'
    /\ view' \in {"waiting", "error"}
    /\ UNCHANGED <<scan, total, seen>>

End ==
    /\ view = "waiting"
    /\ ~ broken
    /\ Len(seen) = total
    /\ view' = "end"
    /\ UNCHANGED <<scan, total, seen, broken>>

Leave ==
    /\ view \in {"page", "error"}
    /\ view' = "left"
    /\ UNCHANGED <<scan, total, seen, broken>>

\* The consumer goes on or comes back.
Ask ==
    /\ view \in {"page", "error", "left", "end"}
    /\ view' = "waiting"
    /\ UNCHANGED <<scan, total, seen, broken>>

Next == Begin \/ Refuse \/ Page \/ Fail \/ End \/ Leave \/ Ask

Spec == Init /\ [][Next]_scanVars
===============================================================================
