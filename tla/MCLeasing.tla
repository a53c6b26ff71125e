----------------------------- MODULE MCLeasing -----------------------------
(* Instances of Leasing for TLC.                                           *)
EXTENDS Leasing, TLC

CONSTANTS r1, r2, g0, g1, t1, t2, c1, c2

Ask(t, g, p, l) == [task |-> t, group |-> g, pin |-> p, lock |-> l]

\* Two tasks that rotate, pin and lock; t1 also in another group than its lock.
MixedRequests ==
  {Ask(t1, g0, None, FALSE), Ask(t1, g0, r1, TRUE), Ask(t1, g1, None, TRUE),
   Ask(t2, g0, None, TRUE), Ask(t2, g0, r1, FALSE)}

OnePolicy == {0}
Sharing == {-2, -1, 0, 2}
=============================================================================
