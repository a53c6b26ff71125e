---------------------------- MODULE MCMigrations ----------------------------
(* Instances of Migrations for TLC.                                        *)
EXTENDS Migrations, TLC

CONSTANTS p1, p2, p3, s1, s2

\* An old release, and two processes of the next one.
Rolling ==
  (p1 :> (s1 :> 1 @@ s2 :> 1)) @@ (p2 :> (s1 :> 3 @@ s2 :> 1))
    @@ (p3 :> (s1 :> 3 @@ s2 :> 2))
=============================================================================
