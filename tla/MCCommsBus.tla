----------------------------- MODULE MCCommsBus -----------------------------
(* Instances of CommsBus for TLC.                                          *)
EXTENDS CommsBus, TLC

CONSTANTS u1, u2, p1, p2, a, b

=============================================================================
