--------------------------- MODULE MCEmailListener ---------------------------
(* Instances of EmailListener for TLC.                                     *)
EXTENDS EmailListener, TLC

CONSTANTS s1, s2

SubSymmetry == Permutations(Subs)
=============================================================================
