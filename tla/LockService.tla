---------------------------- MODULE LockService ----------------------------
(***************************************************************************)
(* What the leasing manager promises its callers (the contracts of         *)
(* Acquire, Lock, Unlock, Delete and Release in leasing/manager.go),       *)
(* without groups, pools, stores or waiting: resources are shared until    *)
(* they are locked to one task; a lock is durable, excludes every other    *)
(* task, lets its owner in once at a time, and is only ever given up, never *)
(* taken over; and a resource in use is not removed.                       *)
(***************************************************************************)
CONSTANTS Resources, Tasks, Callers, None

VARIABLES
  lockedBy,  \* resource -> the task it is locked to, or None
  uses       \* call -> [task, resource] while it uses a resource, or None

vars == <<lockedBy, uses>>

Using(r) == {c \in Callers : uses[c] # None /\ uses[c].resource = r}
Use(c, t, r) == uses' = [uses EXCEPT ![c] = [task |-> t, resource |-> r]]

Init ==
  /\ lockedBy \in [Resources -> Tasks \cup {None}]
  /\ uses = [c \in Callers |-> None]

Share(c, t, r) ==
  /\ uses[c] = None
  /\ lockedBy[r] = None
  /\ \A s \in Resources : lockedBy[s] # t
  /\ Use(c, t, r)
  /\ UNCHANGED lockedBy

Lock(c, t, r) ==
  /\ uses[c] = None
  /\ lockedBy[r] = None /\ Using(r) = {}
  /\ \A s \in Resources : lockedBy[s] # t
  /\ lockedBy' = [lockedBy EXCEPT ![r] = t]
  /\ Use(c, t, r)

UseOwn(c, t, r) ==
  /\ uses[c] = None
  /\ lockedBy[r] = t /\ Using(r) = {}
  /\ Use(c, t, r)
  /\ UNCHANGED lockedBy

Return(c) ==
  /\ uses' = [uses EXCEPT ![c] = None]
  /\ UNCHANGED lockedBy

\* A live use outlives the lock it came with.
GiveUp(r) ==
  /\ lockedBy' = [lockedBy EXCEPT ![r] = None]
  /\ UNCHANGED uses

Remove(gone) ==
  /\ \A r \in gone : Using(r) = {}
  /\ lockedBy' = [r \in Resources |-> IF r \in gone THEN None ELSE lockedBy[r]]
  /\ UNCHANGED uses

\* The process dies: uses are lost, locks are not.
Lose ==
  /\ uses' = [c \in Callers |-> None]
  /\ UNCHANGED lockedBy

Next ==
  \/ \E c \in Callers, t \in Tasks, r \in Resources :
       Share(c, t, r) \/ Lock(c, t, r) \/ UseOwn(c, t, r)
  \/ \E c \in Callers : Return(c)
  \/ \E r \in Resources : GiveUp(r)
  \/ \E gone \in SUBSET Resources : Remove(gone)
  \/ Lose

Spec == Init /\ [][Next]_vars

\* The manager's invariant LockExclusive, in the service's own terms: a locked
\* resource has at most one user, and that user works for its owner.
OwnerAlone ==
  \A r \in Resources : lockedBy[r] # None =>
    \A c, d \in Using(r) : c = d /\ uses[c].task = lockedBy[r]

=============================================================================
