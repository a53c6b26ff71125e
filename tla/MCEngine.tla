----------------------------- MODULE MCEngine -----------------------------
(* Instances of Engine for TLC.                                            *)
EXTENDS Engine, TLC

CONSTANTS t1, h1, h2, s1, s2

OneTask == [h \in Handles |-> t1]
=============================================================================
