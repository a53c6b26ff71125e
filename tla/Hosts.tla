------------------------------- MODULE Hosts -------------------------------
(***************************************************************************)
(* One leasing manager as the packages built on it use it: proxies         *)
(* (proxies/manager.go), whose leases report outcomes that are tallied in   *)
(* the rows, rotated by a strategy (leasing/roundrobin.go,                  *)
(* proxies/bayesian.go); accounts (accounts/manager.go), whose rows and     *)
(* group name a forwarding inbox, and the email manager that asks about     *)
(* them before it deletes one (email/manager.go); or payments, which add    *)
(* nothing.  Leases and locks are those of LockService, which the manager   *)
(* implements; all members are of one group and take any number of holders. *)
(* Each action that reads or writes rows is one section under the manager's *)
(* mutex; a deletion of an email holds the email manager's throughout.      *)
(***************************************************************************)
EXTENDS Naturals, Sequences, SequencesExt, FiniteSets

CONSTANTS
  Resources,  \* ids, numbered in the order the store lists them
  Tasks,
  Callers,    \* the leases that may be live at once
  Emails,
  Kinds,      \* which of "proxy", "account", "payment" to consider
  MaxTally,   \* bound: outcomes tallied on a row
  MaxPicks,   \* bound: selections a strategy instance makes
  None

ASSUME ResourcesAssumption == Resources \subseteq Nat
ASSUME BoundsAssumption == {MaxTally, MaxPicks} \subseteq Nat
ASSUME NoneAssumption ==
  None \notin Resources \cup Tasks \cup Emails \cup [task: Tasks, resource: Resources]
ASSUME NoneRowAssumption == None \notin [tally: 0 .. MaxTally, ref: Emails \cup {None}]

VARIABLES
  kind,       \* what the resources are
  lockedBy, uses,  \* the leasing manager, as LockService has it
  order,      \* Manager.order: the pool, in the order candidates are offered
  tally,      \* resource -> outcomes counted in the pool's row
  ref,        \* resource -> the inbox its own row names, or None
  groupRef,   \* the inbox the group names, or None
  strategy,   \* the group's strategy
  cursor,     \* the strategy instance's rotation
  rows,       \* the store: resource -> [tally, ref], or None
  lease,      \* call -> the resource of the Lease it was given, or None
  once,       \* the Lease: "unused", "reporting" an outcome, or "told"
  inventory,  \* the email manager's emails
  stored,     \* the email store
  guarded,    \* accounts.NewManager has installed its guard
  del,        \* the deletion of an email in progress
  picks,      \* history: the list last rotated over, and how often each was picked
  since       \* history: who used or locked referencing accounts during the deletion

locks == <<lockedBy, uses>>
pool == <<order, tally, ref, groupRef, strategy, cursor, rows>>
emails == <<inventory, stored, guarded, del>>
vars == <<kind, locks, pool, lease, once, emails, picks, since>>

Service == INSTANCE LockService
  WITH Resources <- Resources, Tasks <- Tasks, Callers <- Callers, None <- None,
       lockedBy <- lockedBy, uses <- uses

Pooled(r) == r \in ToSet(order)
Row(r) == [tally |-> tally[r], ref |-> ref[r]]
Strategies == {"roundRobin", "bayesian"}
NoDeletion == [pc |-> "idle", email |-> None, guard |-> FALSE, stranded |-> {}]
NoPicks == [list |-> <<>>, count |-> [r \in Resources |-> 0]]
NoSince == [held |-> {}, locked |-> {}, ever |-> {}]

Init ==
  /\ kind \in Kinds
  /\ Service!Init /\ \A r \in Resources : lockedBy[r] = None
  /\ order = <<>>
  /\ tally = [r \in Resources |-> 0] /\ ref = [r \in Resources |-> None]
  /\ groupRef = None /\ strategy = "roundRobin" /\ cursor = 0
  /\ rows = [r \in Resources |-> None]
  /\ lease = [c \in Callers |-> None] /\ once = [c \in Callers |-> "unused"]
  /\ inventory = Emails /\ stored = Emails /\ guarded = FALSE /\ del = NoDeletion
  /\ picks = NoPicks /\ since = NoSince

-----------------------------------------------------------------------------
(* Selection.                                                              *)

\* A set of numbers, as the one sequence that lists it upwards.
Ascending(S) ==
  {s \in [1 .. Cardinality(S) -> S] :
     ToSet(s) = S /\ \A i, j \in DOMAIN s : i < j => s[i] < s[j]}

\* The unlocked members, in the pool's order; a lock wants an idle one.
Candidate(r, lock) ==
  Pooled(r) /\ lockedBy[r] = None /\ (lock => Service!Using(r) = {})
Candidates(lock) ==
  {[k \in DOMAIN f |-> order[f[k]]] :
     f \in Ascending({i \in DOMAIN order : Candidate(order[i], lock)})}

RoundRobin(list) == list[(cursor % Len(list)) + 1]

Picked(list, r) ==
  picks' = [list |-> list,
            count |-> [IF picks.list = list THEN picks.count ELSE NoPicks.count EXCEPT ![r] = @ + 1]]

\* Slip: the cursor stays within the list it was taken from.
RotateWithin(list, r) ==
  /\ kind = "proxy" => cursor < MaxPicks /\ (strategy = "roundRobin" => r = RoundRobin(list))
  /\ IF kind = "proxy" THEN cursor' = (cursor + 1) % (Len(list) + 1) /\ Picked(list, r)
     ELSE UNCHANGED <<cursor, picks>>

\* The instance picks r: the candidate at the cursor, or any the sampling may
\* prefer.  Only proxies have a choice of strategies; for the others any
\* candidate will do.
Rotate(list, r) ==
  /\ kind = "proxy" => cursor < MaxPicks /\ (strategy = "roundRobin" => r = RoundRobin(list))
  /\ IF kind = "proxy" THEN cursor' = cursor + 1 /\ Picked(list, r)
     ELSE UNCHANGED <<cursor, picks>>

\* A pin leaves no choice, and the rotation as it was.
Pinned == UNCHANGED <<cursor, picks>>

\* The task's own resource, the pinned one, or one the strategy picks.
Acquire(c, t, r, pinned, lock) ==
  /\ \/ Service!UseOwn(c, t, r) /\ UNCHANGED <<cursor, picks>>
     \/ /\ Candidate(r, lock)
        /\ IF lock THEN Service!Lock(c, t, r) ELSE Service!Share(c, t, r)
        /\ IF pinned THEN Pinned ELSE \E list \in Candidates(lock) : Rotate(list, r)
  /\ lease' = [lease EXCEPT ![c] = r]
  /\ once' = [once EXCEPT ![c] = "unused"]
  /\ UNCHANGED <<order, tally, ref, groupRef, strategy, rows, emails>>

\* The lock cannot be persisted: no lease, but the rotation has moved.
LockFails(c, t, r) ==
  /\ uses[c] = None /\ \A s \in Resources : lockedBy[s] # t
  /\ Candidate(r, TRUE) /\ \E list \in Candidates(TRUE) : Rotate(list, r)
  /\ UNCHANGED <<locks, order, tally, ref, groupRef, strategy, rows, lease, once, emails>>

Unlock(r) ==
  /\ lockedBy[r] # None
  /\ Service!GiveUp(r)
  /\ UNCHANGED <<pool, lease, once, emails, picks>>

-----------------------------------------------------------------------------
(* The pool and the group.                                                 *)

\* The store.
SaveRow(r, row) == rows' = [rows EXCEPT ![r] = row]
DropRow(r) == rows' = [rows EXCEPT ![r] = None]
List == Ascending({r \in Resources : rows[r] # None})

\* Update: the row is saved, then installed.
Save(r, row) ==
  /\ SaveRow(r, row)
  /\ tally' = [tally EXCEPT ![r] = row.tally]
  /\ ref' = [ref EXCEPT ![r] = row.ref]

\* Slip: an id that is in the pool is taken again.
AddAgain(r, e) ==
  /\ Len(order) <= Cardinality(Resources)
  /\ e # None => kind = "account"
  /\ Save(r, [tally |-> 0, ref |-> e])
  /\ order' = Append(order, r)
  /\ UNCHANGED <<locks, groupRef, strategy, cursor, lease, once, emails, picks>>

Add(r, e) ==
  /\ ~Pooled(r)
  /\ e # None => kind = "account"
  /\ Save(r, [tally |-> 0, ref |-> e])
  /\ order' = Append(order, r)
  /\ UNCHANGED <<locks, groupRef, strategy, cursor, lease, once, emails, picks>>

Delete(r) ==
  /\ Pooled(r)
  /\ Service!Remove({r})
  /\ DropRow(r)
  /\ \E i \in DOMAIN order : order[i] = r /\ order' = RemoveAt(order, i)
  /\ tally' = [tally EXCEPT ![r] = 0] /\ ref' = [ref EXCEPT ![r] = None]
  /\ UNCHANGED <<groupRef, strategy, cursor, lease, once, emails, picks>>

\* Update, as a consumer links an account to another inbox.
Relink(r, e) ==
  /\ kind = "account" /\ Pooled(r)
  /\ Save(r, [tally |-> tally[r], ref |-> e])
  /\ UNCHANGED <<locks, order, groupRef, strategy, cursor, lease, once, emails, picks>>

\* A strategy of another name is a fresh instance; the same one goes on.
UpdateGroup(e, s) ==
  /\ IF kind = "proxy" THEN e = groupRef ELSE s = strategy
  /\ kind # "payment"
  /\ groupRef' = e
  /\ strategy' = s
  /\ IF s = strategy THEN UNCHANGED <<cursor, picks>> ELSE cursor' = 0 /\ picks' = NoPicks
  /\ UNCHANGED <<locks, order, tally, ref, rows, lease, once, emails>>

-----------------------------------------------------------------------------
(* Releasing a proxy with an outcome.                                      *)

\* Slip: the hold is freed first.
ReportFreed(c) ==
  /\ kind = "proxy" /\ uses[c] # None /\ once[c] = "unused"
  /\ once' = [once EXCEPT ![c] = "reporting"]
  /\ Service!Return(c)
  /\ UNCHANGED <<pool, lease, emails, picks>>

\* The first of ReleaseOutcome and Release on a Lease acts; the others wait for
\* it and do nothing.
Report(c) ==
  /\ kind = "proxy" /\ uses[c] # None /\ once[c] = "unused"
  /\ once' = [once EXCEPT ![c] = "reporting"]
  /\ UNCHANGED <<locks, pool, lease, emails, picks>>

\* Update tallies the outcome on the row of the Lease's proxy; it fails with the
\* store, or if the proxy is not in the pool.
Tally(c) ==
  LET r == lease[c] IN
    /\ once[c] = "reporting" /\ tally[r] < MaxTally
    /\ \/ Pooled(r) /\ Save(r, [tally |-> tally[r] + 1, ref |-> ref[r]])
       \/ UNCHANGED <<rows, tally, ref>>
    /\ once' = [once EXCEPT ![c] = "told"]
    /\ UNCHANGED <<locks, order, groupRef, strategy, cursor, lease, emails, picks>>

\* Release, or the end of ReleaseOutcome: the hold is freed either way.
Release(c) ==
  /\ lease[c] # None /\ once[c] # "reporting"
  /\ Service!Return(c)
  /\ lease' = [lease EXCEPT ![c] = None]
  /\ once' = [once EXCEPT ![c] = "unused"]
  /\ UNCHANGED <<pool, emails, picks>>

-----------------------------------------------------------------------------
(* Deleting a forwarding inbox.                                            *)

\* Slip: only the account's own row is read.
OwnEmail(r) == ref[r]

\* An account's inbox: its own, or its group's.
ForwardingEmail(r) == IF ref[r] # None THEN ref[r] ELSE groupRef

Referencing(e) == {r \in Resources : Pooled(r) /\ ForwardingEmail(r) = e}
Held(e) == {uses[c].task : c \in {d \in Callers :
              uses[d] # None /\ uses[d].resource \in Referencing(e)}}
Locked(e) == {lockedBy[r] : r \in Referencing(e)} \ {None}

\* accounts.NewManager, given the email manager.
GuardDeletes ==
  /\ kind = "account" /\ ~guarded /\ del.pc = "idle"
  /\ guarded' = TRUE
  /\ UNCHANGED <<locks, pool, lease, once, inventory, stored, del, picks>>

AddEmail(e) ==
  /\ kind = "account" /\ del.pc = "idle"
  /\ e \notin inventory
  /\ inventory' = inventory \cup {e} /\ stored' = stored \cup {e}
  /\ UNCHANGED <<locks, pool, lease, once, guarded, del, picks>>

\* A subscription covering the email refuses the deletion at once: no step.
DeleteEmail(e) ==
  /\ kind = "account" /\ del.pc = "idle"
  /\ e \in inventory
  /\ del' = [pc |-> IF guarded THEN "held" ELSE "deleting", email |-> e,
             guard |-> guarded, stranded |-> {}]
  /\ UNCHANGED <<locks, pool, lease, once, inventory, stored, guarded, picks>>

\* The guard's first question, one section of the leasing manager.
AskHeld ==
  /\ del.pc = "held"
  /\ del' = IF Held(del.email) # {} THEN NoDeletion ELSE [del EXCEPT !.pc = "locked"]
  /\ UNCHANGED <<locks, pool, lease, once, inventory, stored, guarded, picks>>

\* The second, another section.
AskLocked ==
  /\ del.pc = "locked"
  /\ del' = [del EXCEPT !.pc = "deleting", !.stranded = Locked(del.email)]
  /\ UNCHANGED <<locks, pool, lease, once, inventory, stored, guarded, picks>>

\* The row goes, then the inventory's copy; a failing store keeps both.
DropEmail ==
  /\ del.pc = "deleting"
  /\ del' = NoDeletion
  /\ \/ inventory' = inventory \ {del.email} /\ stored' = stored \ {del.email}
     \/ UNCHANGED <<inventory, stored>>
  /\ UNCHANGED <<locks, pool, lease, once, guarded, picks>>

-----------------------------------------------------------------------------
\* The process dies and starts again from the stores: uses, strategy instances,
\* the guard and a deletion in progress are gone, rows and locks are not.
Restart ==
  /\ Service!Lose
  /\ order' \in List
  /\ tally' = [r \in Resources |-> IF rows[r] = None THEN 0 ELSE rows[r].tally]
  /\ ref' = [r \in Resources |-> IF rows[r] = None THEN None ELSE rows[r].ref]
  /\ cursor' = 0 /\ picks' = NoPicks
  /\ lease' = [c \in Callers |-> None] /\ once' = [c \in Callers |-> "unused"]
  /\ inventory' = stored /\ guarded' = FALSE /\ del' = NoDeletion
  /\ UNCHANGED <<groupRef, strategy, rows, stored>>

\* History: which tasks use, and which have locked, an account whose mail comes to
\* the inbox being deleted; since its deletion began, or at some time in it.
Concerned == {r \in Resources : /\ del.pc # "idle" /\ Pooled(r)
                                /\ \/ ref[r] = del.email
                                   \/ ref[r] = None /\ groupRef = del.email}
HeldNow == {t \in Tasks : \E c \in Callers, r \in Concerned : uses[c] = [task |-> t, resource |-> r]}
LockedNow == {t \in Tasks : \E r \in Concerned : lockedBy[r] = t}
Track ==
  since' = IF del'.pc = "idle" THEN NoSince
           ELSE IF del.pc = "idle"
           THEN [held |-> HeldNow', locked |-> LockedNow', ever |-> LockedNow']
           ELSE [held |-> since.held \cap HeldNow', locked |-> since.locked \cap LockedNow',
                 ever |-> since.ever \cup LockedNow']

LeaseStep(c) ==
  \/ \E t \in Tasks, r \in Resources, pinned, lock \in BOOLEAN : Acquire(c, t, r, pinned, lock)
  \/ \E t \in Tasks, r \in Resources : LockFails(c, t, r)
  \/ Report(c) \/ Tally(c) \/ Release(c)

PoolStep ==
  \/ \E r \in Resources : Delete(r) \/ Unlock(r)
  \/ \E r \in Resources, e \in Emails \cup {None} : Add(r, e) \/ Relink(r, e)
  \/ \E e \in Emails \cup {None}, s \in Strategies : UpdateGroup(e, s)

EmailStep ==
  \/ \E e \in Emails : AddEmail(e) \/ DeleteEmail(e)
  \/ GuardDeletes \/ AskHeld \/ AskLocked \/ DropEmail

Next ==
  /\ \/ \E c \in Callers : LeaseStep(c)
     \/ PoolStep
     \/ EmailStep
     \/ Restart
  /\ Track
  /\ UNCHANGED kind

Spec == Init /\ [][Next]_vars

-----------------------------------------------------------------------------
(* Properties.                                                             *)

TypeOK ==
  /\ kind \in Kinds
  /\ lockedBy \in [Resources -> Tasks \cup {None}]
  /\ uses \in [Callers -> [task: Tasks, resource: Resources] \cup {None}]
  /\ order \in Seq(Resources) /\ Len(order) = Cardinality(ToSet(order))
  /\ tally \in [Resources -> 0 .. MaxTally] /\ ref \in [Resources -> Emails \cup {None}]
  /\ groupRef \in Emails \cup {None} /\ strategy \in Strategies /\ cursor \in 0 .. MaxPicks
  /\ rows \in [Resources -> [tally: 0 .. MaxTally, ref: Emails \cup {None}] \cup {None}]
  /\ lease \in [Callers -> Resources \cup {None}]
  /\ once \in [Callers -> {"unused", "reporting", "told"}]
  /\ inventory \subseteq Emails /\ stored = inventory /\ guarded \in BOOLEAN
  /\ del.pc \in {"idle", "held", "locked", "deleting"} /\ del.stranded \subseteq Tasks

\* What was tallied survives: the pool's rows are the store's, and an outcome is
\* only ever reported on a proxy the lease still keeps from deletion ("the tally
\* goes first", proxies/manager.go:84), so it is lost to the store alone.
OutcomesKept ==
  /\ \A r \in Resources : rows[r] = IF Pooled(r) THEN Row(r) ELSE None
  /\ \A c \in Callers : once[c] = "reporting" => Pooled(lease[c]) /\ uses[c] # None

\* "Spreading load evenly" (leasing/roundrobin.go:8): while the candidates and
\* the instance stay the same, no member is picked twice more than another,
\* whatever was picked before, pinned between, or failed to persist.
EvenRotation ==
  strategy = "roundRobin" =>
    \A a, b \in ToSet(picks.list) : picks.count[a] <= picks.count[b] + 1

\* A guarded deletion that goes through met no task that used a referencing
\* account throughout, and reports every task such an account was locked to
\* throughout, and none it never was (email/manager.go:154), although leases,
\* locks and links change between its two questions.
DeletionGuarded ==
  [][inventory' # inventory /\ del.pc = "deleting" /\ del.guard =>
       /\ since.held = {}
       /\ since.locked \subseteq del.stranded
       /\ del.stranded \subseteq since.ever]_vars

=============================================================================
