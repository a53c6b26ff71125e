------------------------------ MODULE MCHosts ------------------------------
(* Instances of Hosts for TLC.                                             *)
EXTENDS Hosts, TLC

CONSTANTS t1, t2, c1, c2, e1, e2

HostSymmetry == Permutations(Tasks) \cup Permutations(Callers) \cup Permutations(Emails)
=============================================================================
