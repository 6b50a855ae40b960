---------------------------- MODULE EndpointSyncMC ----------------------------
(* Values of the constants of EndpointSync for TLC. *)
EXTENDS EndpointSync, TLC

CONSTANTS n1, n2, u1, u2, auto

\* n1 stays a named member; n2 joins, gets its name, and leaves.
GrowingMemberships ==
    {(n1 :> "named") @@ (n2 :> s) : s \in {"absent", "unnamed", "named"}}

\* The only member may still be without a name.
NamelessMemberships == {n1 :> s @@ n2 :> "absent" : s \in {"unnamed", "named"}}

ListsWithSeed == {{n1}, {n1, n2}}
===============================================================================
