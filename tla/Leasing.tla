------------------------------ MODULE Leasing ------------------------------
(***************************************************************************)
(* The leasing manager (leasing/manager.go): it allocates the resources of *)
(* a pool (proxies, accounts, payment profiles) to tasks.  A resource is   *)
(* either rotating, leased to several tasks at once under its holder cap,  *)
(* or durably locked to one task, its owner, who leases it alone.          *)
(*                                                                         *)
(* Every method of the manager runs under one mutex, so each is one        *)
(* action.  The exception is acquire, the loop behind Acquire and Lock:    *)
(* between two passes it waits on a condition variable that releases,      *)
(* unlocks, additions, removals and cancellations broadcast.  A call is    *)
(* therefore a small process: it is requested, makes passes, parks between *)
(* them, and ends with an error or a lease that its holder releases.       *)
(*                                                                         *)
(* The repository is the durable part: a crash loses everything but it,    *)
(* and NewManager rebuilds the pool and the bindings from it.  A repository *)
(* write that fails changes nothing; the operation then reports the error  *)
(* and leaves the manager's maps as they were, so it is modelled only      *)
(* where something else happens too (a call that ends, a cascade that      *)
(* stops half way).                                                        *)
(*                                                                         *)
(* Update and UpdateGroup edit the model's own fields only: they undo what *)
(* their callback does to a record's id, group, owner or holder policy, so *)
(* they change nothing modelled here, and a policy is fixed once added.    *)
(***************************************************************************)
EXTENDS Integers, FiniteSets

CONSTANTS
  Resources,  \* resource ids
  Groups,     \* group ids
  Global,     \* the group every manager has, leasing.GlobalGroup
  Tasks,      \* task ids
  Callers,    \* concurrent calls of Acquire and Lock, and the leases they return
  Policies,   \* the MaxHolders values resources are added with
  Requests,   \* what calls ask for: an Assignment and whether the call is Lock
  None        \* "": no resource, no task, no group, no record

Unlimited == -1  \* leasing.UnlimitedHolders

Pins == Resources \cup {None}
Owners == Tasks \cup {None}
Rows == [group: Groups, owner: Owners, policy: Policies]

ASSUME GlobalAssumption == Global \in Groups
ASSUME PoliciesAssumption == Policies \subseteq Int
ASSUME RequestsAssumption ==
  Requests \subseteq [task: Tasks, group: Groups, pin: Pins, lock: BOOLEAN]
ASSUME FiniteAssumption == IsFiniteSet(Tasks) /\ IsFiniteSet(Callers)
ASSUME NoneAssumption ==
  None \notin Resources \cup Tasks \cup Groups \cup Rows \cup Requests

VARIABLES
  up,           \* a manager is running
  groups,       \* the manager's groups
  pool,         \* the manager's records, None where the id is not pooled
  bindings,     \* task -> the resource durably locked to it
  holders,      \* resource -> task -> its live leases
  storeGroups,  \* the group rows of the repository
  storeRows,    \* the resource rows of the repository
  pc,           \* where each call is
  req,          \* what each call asked for
  lease,        \* the resource of the lease each call returned
  ctx           \* each call's context: "live", "done", or "seen" by its watcher

memory == <<groups, pool, bindings, holders>>
store == <<storeGroups, storeRows>>
calls == <<pc, req, lease, ctx>>
vars == <<up, memory, store, calls>>

TablesOK ==
  /\ up \in BOOLEAN
  /\ groups \in SUBSET Groups
  /\ pool \in [Resources -> Rows \cup {None}]
  /\ bindings \in [Tasks -> Pins]
  /\ holders \in [Resources -> [Tasks -> Nat]]
  /\ storeGroups \in SUBSET Groups
  /\ storeRows \in [Resources -> Rows \cup {None}]

CallsOK ==
  /\ pc \in [Callers -> {"idle", "ready", "parked", "holding", "spent"}]
  /\ req \in [Callers -> Requests \cup {None}]
  /\ lease \in [Callers -> Pins]
  /\ ctx \in [Callers -> {"live", "done", "seen"}]
  /\ \A c \in Callers :
       /\ req[c] = None <=> pc[c] = "idle"
       /\ lease[c] = None <=> pc[c] \in {"idle", "ready", "parked"}

TypeOK == TablesOK /\ CallsOK

-----------------------------------------------------------------------------
(* The repository: one statement each.  Saving is an upsert, and deleting   *)
(* what is not there is no error.                                           *)

SaveRow(r, row) == storeRows' = [storeRows EXCEPT ![r] = row]
DeleteRows(gone) ==
  storeRows' = [r \in Resources |-> IF r \in gone THEN None ELSE storeRows[r]]
SaveGroup(g) == storeGroups' = storeGroups \cup {g}
\* The members are the manager's to delete: nothing cascades in the store.
DeleteGroupRow(g) == storeGroups' = storeGroups \ {g}

-----------------------------------------------------------------------------
(* Reading the pool.                                                       *)

Pooled(r) == pool[r] # None
Members(g) == {r \in Resources : Pooled(r) /\ pool[r].group = g}

\* The bag of live leases of r, as a set of numbered slots.
Slots(r) == UNION {{t} \X (1 .. holders[r][t]) : t \in Tasks}
heldCount(r) == Cardinality(Slots(r))
holderIDs(r) == {t \in Tasks : holders[r][t] > 0}

effectiveCap(row) == IF row.policy # 0 THEN row.policy ELSE 1
\* Slip: the cap admits one lease too many.
UnderCapInclusive(r) ==
  effectiveCap(pool[r]) = Unlimited \/ heldCount(r) <= effectiveCap(pool[r])
UnderCap(r) == effectiveCap(pool[r]) = Unlimited \/ heldCount(r) < effectiveCap(pool[r])
validHolderPolicy(n) == n >= Unlimited

\* The resource t is bound to; a binding whose resource is gone counts for nothing.
Bound(t) ==
  IF bindings[t] # None /\ Pooled(bindings[t]) THEN bindings[t] ELSE None

checkPin(q) ==
  q.pin # None =>
    /\ Pooled(q.pin)
    /\ pool[q.pin].group = q.group
    /\ pool[q.pin].owner \in {None, q.task}

\* Slips: a lock over live leases; a pick that ignores the pin; one that
\* ignores the durable owner.
CandidatesInUse(q) ==
  {r \in Members(q.group) :
     pool[r].owner = None /\ q.pin \in {None, r} /\ UnderCap(r)}
CandidatesBesidePin(q) ==
  {r \in Members(q.group) :
     pool[r].owner = None /\ (q.lock => holderIDs(r) = {}) /\ UnderCap(r)}
CandidatesOwned(q) ==
  {r \in Members(q.group) :
     q.pin \in {None, r} /\ (q.lock => holderIDs(r) = {}) /\ UnderCap(r)}

\* The unlocked resources an unbound call may be given, idle ones only for a lock.
Candidates(q) ==
  {r \in Members(q.group) :
     /\ pool[r].owner = None
     /\ q.pin \in {None, r}
     /\ q.lock => holderIDs(r) = {}
     /\ UnderCap(r)}

-----------------------------------------------------------------------------
(* The condition variable.                                                 *)

Waiting(c) == pc[c] \in {"ready", "parked"}
Broadcast(p) == [c \in Callers |-> IF p[c] = "parked" THEN "ready" ELSE p[c]]

-----------------------------------------------------------------------------
(* One pass of the acquire loop.                                           *)

Request(c, q) ==
  /\ up
  /\ pc[c] \in {"idle", "spent"}
  /\ pc' = [pc EXCEPT ![c] = "ready"]
  /\ req' = [req EXCEPT ![c] = q]
  /\ lease' = [lease EXCEPT ![c] = None]
  /\ ctx' = [ctx EXCEPT ![c] = "live"]
  /\ UNCHANGED <<up, memory, store>>

\* The call returns without a lease; its watcher stops.
EndCall(c) ==
  /\ pc' = [pc EXCEPT ![c] = "idle"]
  /\ req' = [req EXCEPT ![c] = None]
  /\ ctx' = [ctx EXCEPT ![c] = "live"]
  /\ UNCHANGED lease

\* The call returns a lease of r.
GrantLease(c, r) ==
  /\ holders' = [holders EXCEPT ![r][req[c].task] = @ + 1]
  /\ pc' = [pc EXCEPT ![c] = "holding"]
  /\ lease' = [lease EXCEPT ![c] = r]
  /\ ctx' = [ctx EXCEPT ![c] = "live"]
  /\ UNCHANGED req

\* What every pass settles before it looks for a resource.
PassBegins(c) == up /\ pc[c] = "ready"
PassProceeds(c) == PassBegins(c) /\ ctx[c] = "live" /\ checkPin(req[c])

PinConflict(q) == Bound(q.task) # None /\ q.pin \notin {None, Bound(q.task)}
NothingToWaitFor(q) ==
  Bound(q.task) = None /\ (q.group \notin groups \/ Members(q.group) = {})

PassCancelled(c) ==
  /\ PassBegins(c)
  /\ ctx[c] # "live"
  /\ EndCall(c)
  /\ UNCHANGED <<up, memory, store>>

PassPinUnresolved(c) ==
  /\ PassBegins(c)
  /\ ctx[c] = "live" /\ ~checkPin(req[c])
  /\ EndCall(c)
  /\ UNCHANGED <<up, memory, store>>

\* Slip: a pin conflict is resolved by giving up the lock.
PassRefusedUnlocks(c) ==
  LET own == Bound(req[c].task) IN
    /\ PassProceeds(c) /\ PinConflict(req[c])
    /\ SaveRow(own, [pool[own] EXCEPT !.owner = None])
    /\ pool' = [pool EXCEPT ![own].owner = None]
    /\ bindings' = [bindings EXCEPT ![req[c].task] = None]
    /\ EndCall(c)
    /\ UNCHANGED <<up, groups, holders, storeGroups>>

\* ErrPinConflict, ErrGroupNotFound or ErrNoResources.
PassRefused(c) ==
  /\ PassProceeds(c)
  /\ PinConflict(req[c]) \/ NothingToWaitFor(req[c])
  /\ bindings' = [bindings EXCEPT ![req[c].task] = Bound(req[c].task)]
  /\ EndCall(c)
  /\ UNCHANGED <<up, groups, pool, holders, store>>

\* The group's strategy fails or picks outside the candidates, or the lock
\* cannot be persisted.
PassFails(c) ==
  /\ PassProceeds(c)
  /\ Bound(req[c].task) = None
  /\ req[c].group \in groups /\ Candidates(req[c]) # {}
  /\ req[c].pin = None \/ req[c].lock
  /\ bindings' = [bindings EXCEPT ![req[c].task] = None]
  /\ EndCall(c)
  /\ UNCHANGED <<up, groups, pool, holders, store>>

\* A bound task only ever leases its own resource, one lease at a time.
PassOwnResource(c) ==
  LET r == Bound(req[c].task) IN
    /\ PassProceeds(c)
    /\ r # None
    /\ ~PinConflict(req[c])
    /\ holderIDs(r) = {}
    /\ GrantLease(c, r)
    /\ UNCHANGED <<up, groups, pool, bindings, store>>

\* An unbound task takes any candidate the strategy may pick.
PassRotates(c, r) ==
  /\ PassProceeds(c)
  /\ ~req[c].lock
  /\ Bound(req[c].task) = None
  /\ req[c].group \in groups /\ r \in Candidates(req[c])
  /\ bindings' = [bindings EXCEPT ![req[c].task] = None]
  /\ GrantLease(c, r)
  /\ UNCHANGED <<up, groups, pool, store>>

\* A lock is written to the store, then to the pool and the bindings, then leased.
PassLocks(c, r) ==
  LET row == [pool[r] EXCEPT !.owner = req[c].task] IN
    /\ PassProceeds(c)
    /\ req[c].lock
    /\ Bound(req[c].task) = None
    /\ req[c].group \in groups /\ r \in Candidates(req[c])
    /\ SaveRow(r, row)
    /\ pool' = [pool EXCEPT ![r] = row]
    /\ bindings' = [bindings EXCEPT ![req[c].task] = r]
    /\ GrantLease(c, r)
    /\ UNCHANGED <<up, groups, storeGroups>>

\* Nothing is free, but a release or an unlock can still free it.
WouldPark(q) ==
  IF Bound(q.task) # None
  THEN ~PinConflict(q) /\ holderIDs(Bound(q.task)) # {}
  ELSE ~NothingToWaitFor(q) /\ Candidates(q) = {}

PassParks(c) ==
  /\ PassProceeds(c)
  /\ WouldPark(req[c])
  /\ bindings' = [bindings EXCEPT ![req[c].task] = Bound(req[c].task)]
  /\ pc' = [pc EXCEPT ![c] = "parked"]
  /\ UNCHANGED <<up, groups, pool, holders, store, req, lease, ctx>>

Pass(c) ==
  \/ PassCancelled(c)
  \/ PassPinUnresolved(c)
  \/ PassRefused(c)
  \/ PassFails(c)
  \/ PassOwnResource(c)
  \/ \E r \in Resources : PassRotates(c, r) \/ PassLocks(c, r)
  \/ PassParks(c)

\* The caller's context ends while the call is in flight.
Cancel(c) ==
  /\ up
  /\ Waiting(c) /\ ctx[c] = "live"
  /\ ctx' = [ctx EXCEPT ![c] = "done"]
  /\ UNCHANGED <<up, memory, store, pc, req, lease>>

\* Slip: the watcher does not broadcast.
WatchQuietly(c) ==
  /\ up /\ Waiting(c) /\ ctx[c] = "done"
  /\ ctx' = [ctx EXCEPT ![c] = "seen"]
  /\ UNCHANGED <<up, memory, store, pc, req, lease>>

\* cond.Wait cannot watch a context: the call's watcher broadcasts for it.
Watch(c) ==
  /\ up
  /\ Waiting(c) /\ ctx[c] = "done"
  /\ ctx' = [ctx EXCEPT ![c] = "seen"]
  /\ pc' = Broadcast(pc)
  /\ UNCHANGED <<up, memory, store, req, lease>>

-----------------------------------------------------------------------------
(* Leases.                                                                 *)

unhold(r, t) ==
  [holders EXCEPT ![r][t] = IF @ > 0 THEN @ - 1 ELSE @]

\* Slip: a release wakes nobody.
ReleaseQuietly(c) ==
  /\ up /\ pc[c] = "holding"
  /\ holders' = unhold(lease[c], req[c].task)
  /\ pc' = [pc EXCEPT ![c] = "spent"]
  /\ UNCHANGED <<up, groups, pool, bindings, store, req, lease, ctx>>

Release(c) ==
  /\ up
  /\ pc[c] = "holding"
  /\ holders' = unhold(lease[c], req[c].task)
  /\ pc' = Broadcast([pc EXCEPT ![c] = "spent"])
  /\ UNCHANGED <<up, groups, pool, bindings, store, req, lease, ctx>>

\* Slip: every call of Release gives a lease back.
ReleaseAgainCounts(c) ==
  /\ up /\ pc[c] = "spent"
  /\ holders' = [holders EXCEPT ![lease[c]][req[c].task] = @ - 1]
  /\ pc' = [pc EXCEPT ![c] = "idle"]
  /\ req' = [req EXCEPT ![c] = None]
  /\ lease' = [lease EXCEPT ![c] = None]
  /\ UNCHANGED <<up, groups, pool, bindings, store, ctx>>

\* Only the first call of Release acts; the lease is not used again.
ReleaseAgain(c) ==
  /\ up
  /\ pc[c] = "spent"
  /\ pc' = [pc EXCEPT ![c] = "idle"]
  /\ req' = [req EXCEPT ![c] = None]
  /\ lease' = [lease EXCEPT ![c] = None]
  /\ UNCHANGED <<up, memory, store, ctx>>

-----------------------------------------------------------------------------
(* Durable locks.                                                          *)

unlock(t) ==
  /\ bindings' = [bindings EXCEPT ![t] = None]
  /\ IF Bound(t) = None
     THEN UNCHANGED <<up, groups, pool, holders, store, calls>>
     ELSE LET row == [pool[Bound(t)] EXCEPT !.owner = None] IN
            /\ SaveRow(Bound(t), row)
            /\ pool' = [pool EXCEPT ![Bound(t)] = row]
            /\ pc' = Broadcast(pc)
            /\ UNCHANGED <<up, groups, holders, storeGroups, req, lease, ctx>>

Unlock(t) == up /\ bindings[t] # None /\ unlock(t)

\* A placement names a pin, or a group, or (None for both) nothing at all.
fits(group, pin, r) ==
  IF pin # None THEN pin = r ELSE group # None /\ pool[r].group = group

ReleaseStaleLock(t, group, pin) ==
  /\ up
  /\ bindings[t] # None
  /\ Bound(t) # None => ~fits(group, pin, Bound(t))
  /\ unlock(t)

-----------------------------------------------------------------------------
(* Groups and the inventory.                                               *)

CreateGroup(g) ==
  /\ up
  /\ g \notin groups
  /\ SaveGroup(g)
  /\ groups' = groups \cup {g}
  /\ UNCHANGED <<up, pool, bindings, holders, storeRows, calls>>

Add(r, g, n) ==
  LET row == [group |-> g, owner |-> None, policy |-> n] IN
    /\ up
    /\ ~Pooled(r)
    /\ validHolderPolicy(n)
    /\ g \in groups
    /\ SaveRow(r, row)
    /\ pool' = [pool EXCEPT ![r] = row]
    /\ pc' = Broadcast(pc)
    /\ UNCHANGED <<up, groups, bindings, holders, storeGroups, req, lease, ctx>>

\* The rows leave the store, the pool and the live leases, then the bindings
\* of their owners.
RemoveRows(gone) ==
  /\ DeleteRows(gone)
  /\ pool' = [r \in Resources |-> IF r \in gone THEN None ELSE pool[r]]
  /\ holders' = [r \in Resources |->
                   IF r \in gone THEN [t \in Tasks |-> 0] ELSE holders[r]]
  /\ bindings' = [t \in Tasks |->
                    IF \E r \in gone : Pooled(r) /\ pool[r].owner = t
                    THEN None ELSE bindings[t]]

\* ErrResourceInUse while a lease is live; a row the manager never loaded is
\* only deleted from the store.
Delete(r) ==
  /\ up
  /\ holderIDs(r) = {}
  /\ RemoveRows({r})
  /\ pc' = IF Pooled(r) THEN Broadcast(pc) ELSE pc
  /\ UNCHANGED <<up, groups, storeGroups, req, lease, ctx>>

\* Slip: a group is deleted whatever is leased of it.
DeleteGroupAdmitsInUse(g) == up /\ g # Global /\ g \in groups

DeleteGroupAdmits(g) ==
  /\ up
  /\ g # Global /\ g \in groups
  /\ \A r \in Members(g) : holderIDs(r) = {}

DeleteGroup(g) ==
  /\ DeleteGroupAdmits(g)
  /\ RemoveRows(Members(g))
  /\ DeleteGroupRow(g)
  /\ groups' = groups \ {g}
  /\ pc' = Broadcast(pc)
  /\ UNCHANGED <<up, req, lease, ctx>>

\* Slip: the cascade deletes the group row before its members.
DeleteGroupRowFirst(g, gone) ==
  /\ DeleteGroupAdmits(g)
  /\ RemoveRows(gone)
  /\ DeleteGroupRow(g)
  /\ groups' = groups \ {g}
  /\ pc' = Broadcast(pc)
  /\ UNCHANGED <<up, req, lease, ctx>>

\* A write of the cascade fails after some of the rows are gone.
DeleteGroupStops(g, gone) ==
  /\ DeleteGroupAdmits(g)
  /\ gone # {}
  /\ RemoveRows(gone)
  /\ pc' = Broadcast(pc)
  /\ UNCHANGED <<up, groups, storeGroups, req, lease, ctx>>

-----------------------------------------------------------------------------
(* The process.                                                            *)

\* What NewManager accepts: the rows name stored groups (the global one is
\* created when missing), have valid policies, and lock no task twice.
Loads(gs, rows) ==
  /\ \A r \in Resources : rows[r] # None =>
       /\ rows[r].group \in gs \cup {Global}
       /\ validHolderPolicy(rows[r].policy)
  /\ \A r, s \in Resources :
       (rows[r] # None /\ rows[s] # None /\ rows[r].owner = rows[s].owner)
         => r = s \/ rows[r].owner = None

LockedTo(rows, t) == {r \in Resources : rows[r] # None /\ rows[r].owner = t}

NoManager ==
  /\ up' = FALSE
  /\ groups' = {}
  /\ pool' = [r \in Resources |-> None]
  /\ bindings' = [t \in Tasks |-> None]
  /\ holders' = [r \in Resources |-> [t \in Tasks |-> 0]]
  /\ pc' = [c \in Callers |-> "idle"]
  /\ req' = [c \in Callers |-> None]
  /\ lease' = [c \in Callers |-> None]
  /\ ctx' = [c \in Callers |-> "live"]

Crash == up /\ NoManager /\ UNCHANGED store

\* NewManager over the stored rows.
Restart ==
  /\ ~up
  /\ Loads(storeGroups, storeRows)
  /\ up' = TRUE
  /\ SaveGroup(Global)
  /\ groups' = storeGroups \cup {Global}
  /\ pool' = storeRows
  /\ bindings' = [t \in Tasks |->
                    IF LockedTo(storeRows, t) = {} THEN None
                    ELSE CHOOSE r \in Resources : r \in LockedTo(storeRows, t)]
  /\ UNCHANGED <<holders, storeRows, calls>>

\* NewManager persists the missing global group and fails on a later read.
RestartStops ==
  /\ ~up
  /\ Global \notin storeGroups
  /\ SaveGroup(Global)
  /\ UNCHANGED <<up, memory, storeRows, calls>>

-----------------------------------------------------------------------------
\* The process has not started; the repository is empty or seeded with rows
\* NewManager accepts.
Init ==
  /\ up = FALSE
  /\ groups = {}
  /\ pool = [r \in Resources |-> None]
  /\ bindings = [t \in Tasks |-> None]
  /\ holders = [r \in Resources |-> [t \in Tasks |-> 0]]
  /\ storeGroups \in SUBSET Groups
  /\ storeRows \in [Resources -> Rows \cup {None}]
  /\ Loads(storeGroups, storeRows)
  /\ pc = [c \in Callers |-> "idle"]
  /\ req = [c \in Callers |-> None]
  /\ lease = [c \in Callers |-> None]
  /\ ctx = [c \in Callers |-> "live"]

CallStep(c) ==
  \/ \E q \in Requests : Request(c, q)
  \/ Pass(c)
  \/ Cancel(c)
  \/ Watch(c)
  \/ Release(c)
  \/ ReleaseAgain(c)

LockStep(t) ==
  \/ Unlock(t)
  \/ \E group \in Groups \cup {None}, pin \in Pins : ReleaseStaleLock(t, group, pin)

InventoryStep ==
  \/ \E g \in Groups : CreateGroup(g) \/ DeleteGroup(g)
  \/ \E g \in Groups : \E gone \in SUBSET Members(g) : DeleteGroupStops(g, gone)
  \/ \E r \in Resources, g \in Groups, n \in Policies : Add(r, g, n)
  \/ \E r \in Resources : Delete(r)

Next ==
  \/ \E c \in Callers : CallStep(c)
  \/ \E t \in Tasks : LockStep(t)
  \/ InventoryStep
  \/ Crash
  \/ Restart
  \/ RestartStops

Spec == Init /\ [][Next]_vars

\* A woken call gets the mutex, and the watcher of a cancelled call runs: the
\* Go scheduler starves no goroutine and sync.Mutex no waiter.
Fairness == \A c \in Callers : WF_vars(Pass(c)) /\ WF_vars(Watch(c))

FairSpec == Spec /\ Fairness

-----------------------------------------------------------------------------
(* Safety.                                                                 *)

\* The manager's groups and pool are the repository's rows: "the manager
\* treats the store as a mirror everywhere".  Every operation writes the store
\* first and its maps only when the write went through, cascades included.
StoreAgrees == up => groups = storeGroups /\ pool = storeRows

\* The bindings are exactly the owners written on the pooled records, so the
\* branches of acquire and unlock that drop a binding to a missing resource
\* are defences only.
BindingsMatchOwners ==
  up => \A t \in Tasks, r \in Resources :
          bindings[t] = r <=> Pooled(r) /\ pool[r].owner = t

\* A manager can always be rebuilt from what is stored, whatever failed or
\* crashed before: no row names a group that is gone, no task owns two rows.
StoreLoads == Loads(storeGroups, storeRows)

\* The calls that hold a lease of r for t.
Leases(r, t) ==
  {c \in Callers : pc[c] = "holding" /\ lease[c] = r /\ req[c].task = t}

\* The holder table counts, for each resource and task, exactly the leases
\* granted and not yet released: no release is lost or applied twice.
LeasesCounted ==
  \A r \in Resources, t \in Tasks : holders[r][t] = Cardinality(Leases(r, t))

\* No resource has more live leases than its policy admits.
HolderCap ==
  \A r \in Resources : Pooled(r) =>
    effectiveCap(pool[r]) = Unlimited \/ heldCount(r) <= effectiveCap(pool[r])

\* A durably locked resource is leased to its owner only, one lease at a time,
\* whatever leases were live when the lock was taken or the process restarted.
LockExclusive ==
  \A r \in Resources : (Pooled(r) /\ pool[r].owner # None) =>
    holderIDs(r) \subseteq {pool[r].owner} /\ heldCount(r) <= 1

\* A resource is never deleted, alone or with its group, under a live lease.
LeasedStaysPooled ==
  \A c \in Callers : pc[c] = "holding" => Pooled(lease[c])

\* Every change that could let a parked call end has woken it: what a parked
\* call would find on another pass is that it must wait.  A call whose task was
\* meanwhile locked elsewhere by another call is the one exception: it learns of
\* its pin conflict at the next broadcast.
NoLostWakeup ==
  \A c \in Callers : pc[c] = "parked" =>
    /\ ctx[c] # "seen"
    /\ checkPin(req[c])
    /\ WouldPark(req[c]) \/ PinConflict(req[c])

(* The inductive invariant the safety theorems rest on.                    *)

\* Without a process there are no tables and no calls.
NothingWhenDown ==
  ~up =>
    /\ groups = {} /\ pool = [r \in Resources |-> None]
    /\ bindings = [t \in Tasks |-> None]
    /\ holders = [r \in Resources |-> [t \in Tasks |-> 0]]
    /\ pc = [c \in Callers |-> "idle"]

\* LockExclusive on the counts themselves: at most one lease for the owner of a
\* locked resource, none for anybody else.
OwnersUse ==
  \A r \in Resources, t \in Tasks :
    (Pooled(r) /\ pool[r].owner # None) =>
      holders[r][t] <= (IF t = pool[r].owner THEN 1 ELSE 0)

Consistent ==
  /\ TypeOK
  /\ NothingWhenDown
  /\ StoreAgrees
  /\ BindingsMatchOwners
  /\ StoreLoads
  /\ OwnersUse

-----------------------------------------------------------------------------
(* Action properties.                                                      *)

Owner(rows, r) == IF rows[r] = None THEN None ELSE rows[r].owner

\* "A lease must never drop a durable lock as a side effect" (ErrPinConflict):
\* the pass that ends or parks a call leaves every locked row as it was.
AcquireKeepsLocks ==
  [][(\E c \in Callers : pc[c] = "ready" /\ pc'[c] # "ready") =>
       \A r \in Resources :
         Owner(storeRows, r) # None => storeRows'[r] = storeRows[r]]_vars

\* A call is given what it asked for: its pin; the resource its task is locked
\* to if there is one, and else an unlocked member of its group; and Lock
\* returns only once the lock is in the store.
GrantHonoursRequest ==
  [][\A c \in Callers : (pc[c] = "ready" /\ pc'[c] = "holding") =>
       LET q == req[c]
           r == lease'[c]
           own == LockedTo(storeRows, q.task)
       IN  /\ q.pin \in {None, r}
           /\ IF own # {} THEN r \in own
              ELSE storeRows[r].owner = None /\ storeRows[r].group = q.group
           /\ q.lock => storeRows'[r].owner = q.task]_vars

-----------------------------------------------------------------------------
(* Liveness.                                                               *)

\* A call whose context ends returns, parked or not.
CancelledReturns ==
  \A c \in Callers : Waiting(c) /\ ctx[c] # "live" ~> ~Waiting(c)

CanEnd(c) ==
  /\ Waiting(c)
  /\ checkPin(req[c]) => ~WouldPark(req[c]) /\ ~PinConflict(req[c])

\* A waiting call that a pass would end, with a lease or an error, ends, unless
\* other calls take what it waits for first.
WaitersServed == \A c \in Callers : CanEnd(c) ~> ~CanEnd(c)

-----------------------------------------------------------------------------
(* What the manager promises: LockService, of which it is an implementation. *)

lockedBy == [r \in Resources |-> Owner(storeRows, r)]
uses == [c \in Callers |->
           IF pc[c] = "holding"
           THEN [task |-> req[c].task, resource |-> lease[c]] ELSE None]

Promise == INSTANCE LockService
  WITH Resources <- Resources, Tasks <- Tasks, Callers <- Callers, None <- None,
       lockedBy <- lockedBy, uses <- uses

\* Every step of the manager is a step of the lock service or changes neither
\* a lock nor a use.
ImplementsLockService == Promise!Spec

=============================================================================
