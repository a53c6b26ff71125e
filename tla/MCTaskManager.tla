--------------------------- MODULE MCTaskManager ---------------------------
(* Instances of TaskManager for TLC.                                       *)
EXTENDS TaskManager, TLC

CONSTANTS t1, t2, k1, k2, g0, g1, p1, p2, r1, r2, r3

Homes == [r \in Resources |-> IF r = r2 THEN p2 ELSE p1]

\* What callers ask for: to inherit, or to be moved to the second pool.
Inherits == {[pool |-> Inherit, pin |-> None]}
Moves == Inherits \cup {[pool |-> p2, pin |-> None]}

\* A group leases from the first pool.
FirstPool == {[k \in Kinds |-> p1]}

Symmetric == Permutations(Tasks)
=============================================================================
