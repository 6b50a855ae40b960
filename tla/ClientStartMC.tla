---------------------------- MODULE ClientStartMC ----------------------------
(* Values of the constants of ClientStart for TLC. *)
EXTENDS ClientStart

CONSTANTS e1, e2

V(p, n, maj, minor) == [parts |-> p, numeric |-> n, maj |-> maj, minor |-> minor]

\* The boundary 0.4 / 0.5, a short version and one that is no number.
SomeVersions == {V(3, TRUE, 0, 5), V(3, TRUE, 0, 4), V(1, TRUE, 1, 5), V(3, FALSE, 0, 5)}
OldAndCurrent == {V(3, TRUE, 0, 5), V(3, TRUE, 0, 4)}
===============================================================================
