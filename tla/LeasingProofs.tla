--------------------------- MODULE LeasingProofs ---------------------------
(***************************************************************************)
(* Theorems about Leasing, for every choice of its constants: what its     *)
(* tables say of each other, that no wake-up is lost, what the leases come *)
(* to, and that it implements the lock service it promises, every step     *)
(* being a step of LockService or one that changes neither a lock nor a use. *)
(***************************************************************************)
EXTENDS Leasing, FiniteSetTheorems, TLAPS

\* The statements of the repository are their effects on its tables.
USE DEF SaveRow, DeleteRows, SaveGroup, DeleteGroupRow

-----------------------------------------------------------------------------
(* Values.                                                                 *)

\* None is not among the things it stands for the lack of.
LEMMA NoneIsNothing ==
  /\ None \notin Resources /\ None \notin Tasks /\ None \notin Groups
  /\ None \notin Rows /\ None \notin Requests
  BY NoneAssumption

\* A request names a task, a group and a pin.
LEMMA RequestFields ==
  ASSUME NEW q \in Requests
  PROVE  q.task \in Tasks /\ q.group \in Groups /\ q.pin \in Pins /\ q.lock \in BOOLEAN
  BY RequestsAssumption

\* What a task is bound to is a resource in the pool, or nothing.
LEMMA BoundIsPooled ==
  ASSUME NEW t \in Tasks, TablesOK
  PROVE  /\ Bound(t) \in Pins
         /\ Bound(t) # None => /\ Bound(t) \in Resources /\ Pooled(Bound(t))
                               /\ Bound(t) = bindings[t]
  BY DEF Bound, Pins, TablesOK

\* Changing the owner of a pooled record leaves a record.
LEMMA RowWithOwner ==
  ASSUME NEW r \in Resources, NEW o \in Owners, TablesOK, Pooled(r)
  PROVE  [pool[r] EXCEPT !.owner = o] \in Rows
  BY DEF TablesOK, Pooled, Rows

-----------------------------------------------------------------------------
(* Types: what the parts of a step keep.                                   *)

\* A broadcast keeps the calls well formed.
LEMMA BroadcastCalls ==
  ASSUME CallsOK, pc' = Broadcast(pc), UNCHANGED <<req, lease>>,
         ctx' \in [Callers -> {"live", "done", "seen"}]
  PROVE  CallsOK'
  BY DEF CallsOK, Broadcast

\* So does a call that ends without a lease.
LEMMA EndCallCalls ==
  ASSUME NEW c \in Callers, CallsOK, pc[c] = "ready", EndCall(c)
  PROVE  CallsOK'
  BY DEF CallsOK, EndCall

\* So does a call that is given a lease, which the holder table counts.
LEMMA GrantLeaseTypes ==
  ASSUME NEW c \in Callers, NEW r \in Resources, CallsOK, TablesOK,
         pc[c] = "ready", GrantLease(c, r)
  PROVE  CallsOK' /\ holders' \in [Resources -> [Tasks -> Nat]]
<1>1. req[c] \in Requests
  BY DEF CallsOK
<1>2. req[c].task \in Tasks
  BY <1>1, RequestFields
<1>3. CallsOK'
  BY NoneIsNothing DEF CallsOK, GrantLease, Pins
<1>4. holders' \in [Resources -> [Tasks -> Nat]]
  BY <1>2 DEF GrantLease, TablesOK
<1> QED BY <1>3, <1>4

\* Dropping a lease leaves a table of counts.
LEMMA UnholdType ==
  ASSUME NEW r \in Resources, NEW t \in Tasks, TablesOK
  PROVE  unhold(r, t) \in [Resources -> [Tasks -> Nat]]
<1>1. holders[r] \in [Tasks -> Nat] /\ holders[r][t] \in Nat
  BY DEF TablesOK
<1>2. (IF holders[r][t] > 0 THEN holders[r][t] - 1 ELSE holders[r][t]) \in Nat
  BY <1>1
<1>3. [holders[r] EXCEPT ![t] = IF @ > 0 THEN @ - 1 ELSE @] \in [Tasks -> Nat]
  BY <1>1, <1>2
<1> QED BY <1>3 DEF unhold, TablesOK

\* The steps of one call keep the types.
LEMMA CallStepTypes ==
  ASSUME NEW c \in Callers, TypeOK, CallStep(c)
  PROVE  TypeOK'
<1> USE DEF TypeOK, memory, store, calls
<1>0. /\ CallsOK /\ TablesOK
      /\ pc[c] # "idle" => req[c] \in Requests /\ req[c].task \in Tasks
  BY RequestFields DEF CallsOK
<1>1. ASSUME NEW q \in Requests, Request(c, q) PROVE TypeOK'
  BY <1>1, NoneIsNothing DEF Request, CallsOK, TablesOK, Pins
<1>2. ASSUME Pass(c) PROVE TypeOK'
  <2>1. CASE PassCancelled(c)
    BY <2>1, EndCallCalls DEF PassCancelled, PassBegins, TablesOK
  <2>2. CASE PassPinUnresolved(c)
    BY <2>2, EndCallCalls DEF PassPinUnresolved, PassBegins, TablesOK
  <2>3. CASE PassRefused(c)
    <3>1. Bound(req[c].task) \in Pins
      BY <1>0, <2>3, BoundIsPooled DEF PassRefused, PassProceeds, PassBegins
    <3>2. CallsOK'
      BY <2>3, EndCallCalls DEF PassRefused, PassProceeds, PassBegins
    <3> QED BY <2>3, <3>1, <3>2 DEF PassRefused, TablesOK
  <2>4. CASE PassFails(c)
    <3>1. CallsOK'
      BY <2>4, EndCallCalls DEF PassFails, PassProceeds, PassBegins
    <3> QED BY <2>4, <3>1 DEF PassFails, TablesOK, Pins
  <2>5. CASE PassOwnResource(c)
    <3>1. pc[c] = "ready" /\ Bound(req[c].task) \in Resources
      BY <1>0, <2>5, BoundIsPooled DEF PassOwnResource, PassProceeds, PassBegins
    <3>2. CallsOK' /\ holders' \in [Resources -> [Tasks -> Nat]]
      BY <2>5, <3>1, GrantLeaseTypes DEF PassOwnResource
    <3> QED BY <2>5, <3>2 DEF PassOwnResource, TablesOK
  <2>6. ASSUME NEW r \in Resources, PassRotates(c, r) PROVE TypeOK'
    <3>1. CallsOK' /\ holders' \in [Resources -> [Tasks -> Nat]]
      BY <2>6, GrantLeaseTypes DEF PassRotates, PassProceeds, PassBegins
    <3> QED BY <2>6, <3>1 DEF PassRotates, TablesOK, Pins
  <2>7. ASSUME NEW r \in Resources, PassLocks(c, r) PROVE TypeOK'
    <3>1. Pooled(r) /\ pc[c] = "ready"
      BY <2>7 DEF PassLocks, PassProceeds, PassBegins, Candidates, Members
    <3>2. [pool[r] EXCEPT !.owner = req[c].task] \in Rows
      BY <1>0, <3>1, RowWithOwner DEF Owners
    <3>3. CallsOK' /\ holders' \in [Resources -> [Tasks -> Nat]]
      BY <2>7, <3>1, GrantLeaseTypes DEF PassLocks
    <3> QED BY <2>7, <3>2, <3>3 DEF PassLocks, TablesOK, Pins
  <2>8. CASE PassParks(c)
    <3>1. pc[c] = "ready" /\ Bound(req[c].task) \in Pins
      BY <1>0, <2>8, BoundIsPooled DEF PassParks, PassProceeds, PassBegins
    <3>2. CallsOK'
      BY <2>8, <3>1 DEF PassParks, CallsOK
    <3> QED BY <2>8, <3>1, <3>2 DEF PassParks, TablesOK
  <2> QED BY <1>2, <2>1, <2>2, <2>3, <2>4, <2>5, <2>6, <2>7, <2>8 DEF Pass
<1>3. ASSUME Cancel(c) PROVE TypeOK'
  BY <1>3 DEF Cancel, CallsOK, TablesOK
<1>4. ASSUME Watch(c) PROVE TypeOK'
  <2>1. ctx' \in [Callers -> {"live", "done", "seen"}]
    BY <1>0, <1>4 DEF Watch, CallsOK
  <2> QED BY <1>4, <2>1, BroadcastCalls DEF Watch, TablesOK
<1>5. ASSUME Release(c) PROVE TypeOK'
  <2>1. CallsOK'
    BY <1>0, <1>5 DEF Release, CallsOK, Broadcast
  <2>2. holders' \in [Resources -> [Tasks -> Nat]]
    <3>1. lease[c] \in Resources /\ req[c].task \in Tasks
      BY <1>0, <1>5 DEF Release, CallsOK, Pins
    <3>2. unhold(lease[c], req[c].task) \in [Resources -> [Tasks -> Nat]]
      BY <3>1, UnholdType
    <3> QED BY <1>5, <3>2 DEF Release
  <2> QED BY <1>5, <2>1, <2>2 DEF Release, TablesOK
<1>6. ASSUME ReleaseAgain(c) PROVE TypeOK'
  BY <1>6 DEF ReleaseAgain, CallsOK, TablesOK, Pins
<1> QED BY <1>1, <1>2, <1>3, <1>4, <1>5, <1>6 DEF CallStep

\* Releasing a durable lock keeps the types.
LEMMA LockStepTypes ==
  ASSUME NEW t \in Tasks, TypeOK, unlock(t)
  PROVE  TypeOK'
<1> USE DEF TypeOK, memory, store, calls
<1>1. CASE Bound(t) = None
  BY <1>1 DEF unlock, TablesOK, CallsOK, Pins
<1>2. CASE Bound(t) # None
  <2>1. Bound(t) \in Resources /\ Pooled(Bound(t))
    BY <1>2, BoundIsPooled
  <2>2. [pool[Bound(t)] EXCEPT !.owner = None] \in Rows
    BY <2>1, RowWithOwner DEF Owners
  <2>3. CallsOK'
    BY <1>2, BroadcastCalls DEF unlock, CallsOK
  <2> QED BY <1>2, <2>2, <2>3 DEF unlock, TablesOK, Pins
<1> QED BY <1>1, <1>2

\* So does removing rows.
LEMMA RemoveRowsTypes ==
  ASSUME NEW gone, TablesOK, RemoveRows(gone)
  PROVE  /\ pool' \in [Resources -> Rows \cup {None}]
         /\ storeRows' \in [Resources -> Rows \cup {None}]
         /\ holders' \in [Resources -> [Tasks -> Nat]]
         /\ bindings' \in [Tasks -> Pins]
<1>1. pool' \in [Resources -> Rows \cup {None}] /\ storeRows' \in [Resources -> Rows \cup {None}]
  BY DEF RemoveRows, TablesOK
<1>2. holders' \in [Resources -> [Tasks -> Nat]]
  <2>1. [t \in Tasks |-> 0] \in [Tasks -> Nat]
    OBVIOUS
  <2> QED BY <2>1 DEF RemoveRows, TablesOK
<1>3. bindings' \in [Tasks -> Pins]
  BY DEF RemoveRows, TablesOK, Pins
<1> QED BY <1>1, <1>2, <1>3

\* So does every change of the inventory.
LEMMA InventoryStepTypes ==
  ASSUME TypeOK, InventoryStep
  PROVE  TypeOK'
<1> USE DEF TypeOK, memory, store, calls
<1>1. ASSUME NEW g \in Groups, CreateGroup(g) PROVE TypeOK'
  BY <1>1 DEF CreateGroup, TablesOK, CallsOK
<1>2. ASSUME NEW g \in Groups, DeleteGroup(g) PROVE TypeOK'
  <2>1. CallsOK'
    BY <1>2, BroadcastCalls DEF DeleteGroup, CallsOK
  <2> QED BY <1>2, <2>1, RemoveRowsTypes DEF DeleteGroup, TablesOK
<1>3. ASSUME NEW g \in Groups, NEW gone \in SUBSET Members(g), DeleteGroupStops(g, gone)
      PROVE  TypeOK'
  <2>1. CallsOK'
    BY <1>3, BroadcastCalls DEF DeleteGroupStops, CallsOK
  <2> QED BY <1>3, <2>1, RemoveRowsTypes DEF DeleteGroupStops, DeleteGroupAdmits, TablesOK
<1>4. ASSUME NEW r \in Resources, NEW g \in Groups, NEW n \in Policies, Add(r, g, n)
      PROVE  TypeOK'
  <2>1. CallsOK'
    BY <1>4, BroadcastCalls DEF Add, CallsOK
  <2>2. [group |-> g, owner |-> None, policy |-> n] \in Rows
    BY DEF Rows, Owners
  <2> QED BY <1>4, <2>1, <2>2 DEF Add, TablesOK
<1>5. ASSUME NEW r \in Resources, Delete(r) PROVE TypeOK'
  <2>1. CallsOK'
    <3>1. CASE Pooled(r)
      BY <1>5, <3>1, BroadcastCalls DEF Delete, CallsOK
    <3>2. CASE ~Pooled(r)
      BY <1>5, <3>2 DEF Delete, CallsOK
    <3> QED BY <3>1, <3>2
  <2> QED BY <1>5, <2>1, RemoveRowsTypes DEF Delete, TablesOK
<1> QED BY <1>1, <1>2, <1>3, <1>4, <1>5 DEF InventoryStep

\* So do a crash and a restart.
LEMMA ProcessStepTypes ==
  ASSUME TypeOK, Crash \/ Restart \/ RestartStops
  PROVE  TypeOK'
<1> USE DEF TypeOK, memory, store, calls
<1>1. CASE Crash
  <2>1. [t \in Tasks |-> 0] \in [Tasks -> Nat]
    OBVIOUS
  <2> QED BY <1>1, <2>1 DEF Crash, NoManager, TablesOK, CallsOK, Pins
<1>2. CASE Restart
  <2>1. ASSUME NEW t \in Tasks
        PROVE  (IF LockedTo(storeRows, t) = {} THEN None
                ELSE CHOOSE r \in Resources : r \in LockedTo(storeRows, t)) \in Pins
    <3>1. CASE LockedTo(storeRows, t) = {}
      BY <3>1 DEF Pins
    <3>2. CASE LockedTo(storeRows, t) # {}
      <4>1. \E r \in Resources : r \in LockedTo(storeRows, t)
        BY <3>2 DEF LockedTo
      <4>2. (CHOOSE r \in Resources : r \in LockedTo(storeRows, t)) \in Resources
        BY <4>1
      <4> QED BY <3>2, <4>2 DEF Pins
    <3> QED BY <3>1, <3>2
  <2>2. bindings' \in [Tasks -> Pins]
    BY <1>2, <2>1 DEF Restart
  <2> QED BY <1>2, <2>2, GlobalAssumption DEF Restart, TablesOK, CallsOK
<1>3. CASE RestartStops
  BY <1>3, GlobalAssumption DEF RestartStops, TablesOK, CallsOK
<1> QED BY <1>1, <1>2, <1>3

\* Every step keeps the types.
LEMMA NextTypes == TypeOK /\ [Next]_vars => TypeOK'
<1> SUFFICES ASSUME TypeOK, [Next]_vars PROVE TypeOK'
  OBVIOUS
<1>1. CASE UNCHANGED vars
  BY <1>1 DEF TypeOK, TablesOK, CallsOK, vars, memory, store, calls
<1>2. ASSUME NEW t \in Tasks, LockStep(t) PROVE TypeOK'
  BY <1>2, LockStepTypes DEF LockStep, Unlock, ReleaseStaleLock
<1> QED
  BY <1>1, <1>2, CallStepTypes, InventoryStepTypes, ProcessStepTypes DEF Next

\* The program starts with well-formed tables and no calls.
LEMMA InitTypes == Init => TypeOK
<1> SUFFICES ASSUME Init PROVE TypeOK
  OBVIOUS
<1>1. [t \in Tasks |-> 0] \in [Tasks -> Nat]
  OBVIOUS
<1>2. TablesOK
  BY <1>1 DEF Init, TablesOK, Pins
<1>3. CallsOK
  BY DEF Init, CallsOK, Pins
<1> QED BY <1>2, <1>3 DEF TypeOK

\* The tables and the calls keep their types, whatever fails or crashes.
THEOREM TypeCorrect == Spec => []TypeOK
  BY InitTypes, NextTypes, PTL DEF Spec

-----------------------------------------------------------------------------
(* The tables agree: the proof that Consistent is inductive.               *)

\* The binding of a task is always to a pooled resource, so a pass never drops
\* one: rebinding the task to what it is bound to changes nothing.
LEMMA BoundIsBinding ==
  ASSUME NEW t \in Tasks, TablesOK, up, BindingsMatchOwners
  PROVE  /\ Bound(t) = bindings[t]
         /\ [bindings EXCEPT ![t] = Bound(t)] = bindings
<1>1. CASE bindings[t] = None
  BY <1>1 DEF Bound, TablesOK
<1>2. CASE bindings[t] # None
  <2>1. bindings[t] \in Resources
    BY <1>2 DEF TablesOK, Pins
  <2>2. Pooled(bindings[t])
    BY <2>1 DEF BindingsMatchOwners
  <2> QED BY <1>2, <2>2 DEF Bound, TablesOK
<1> QED BY <1>1, <1>2

\* What Consistent says beyond the types.
Agreement == NothingWhenDown /\ StoreAgrees /\ BindingsMatchOwners /\ StoreLoads

\* A pass that locks nothing leaves the pool, the bindings and the store alone.
LEMMA PassWithoutLock ==
  ASSUME NEW c \in Callers, Consistent, Pass(c),
         ~ \E r \in Resources : PassLocks(c, r)
  PROVE  UNCHANGED <<up, groups, pool, bindings, store>>
<1> USE DEF Consistent, TypeOK
<1>1. PassBegins(c) => up /\ req[c].task \in Tasks
  BY RequestFields DEF PassBegins, CallsOK
<1>2. CASE PassCancelled(c) \/ PassPinUnresolved(c)
  BY <1>2 DEF PassCancelled, PassPinUnresolved, memory
<1>3. CASE PassRefused(c)
  BY <1>1, <1>3, BoundIsBinding DEF PassRefused, PassProceeds
<1>4. CASE PassFails(c)
  BY <1>1, <1>4, BoundIsBinding DEF PassFails, PassProceeds
<1>5. CASE PassOwnResource(c)
  BY <1>5 DEF PassOwnResource
<1>6. ASSUME NEW r \in Resources, PassRotates(c, r)
      PROVE  UNCHANGED <<up, groups, pool, bindings, store>>
  BY <1>1, <1>6, BoundIsBinding DEF PassRotates, PassProceeds
<1>7. CASE PassParks(c)
  BY <1>1, <1>7, BoundIsBinding DEF PassParks, PassProceeds
<1> QED BY <1>2, <1>3, <1>4, <1>5, <1>6, <1>7 DEF Pass

\* An up manager whose tables and store do not change stays in agreement.
LEMMA AgreementUnchanged ==
  ASSUME Agreement, up, UNCHANGED <<up, groups, pool, bindings, store>>
  PROVE  Agreement'
  BY DEF Agreement, NothingWhenDown, StoreAgrees, BindingsMatchOwners, StoreLoads,
         Pooled, store

\* Writing an owner on one row, in the store, the pool and the bindings.
LEMMA AgreementLock ==
  ASSUME NEW c \in Callers, NEW r \in Resources, Consistent, PassLocks(c, r)
  PROVE  Agreement'
<1> DEFINE q == req[c]
<1> USE DEF Consistent, TypeOK
<1>1. /\ up /\ up' /\ q.task \in Tasks /\ Pooled(r) /\ pool[r].owner = None
      /\ pool[r] \in Rows
  BY RequestFields DEF PassLocks, PassProceeds, PassBegins, CallsOK, Candidates,
                       Members, TablesOK, Pooled
<1>2. bindings[q.task] = None
  BY <1>1, BoundIsBinding DEF PassLocks
<1>3. \A s \in Resources : Pooled(s) => pool[s].owner # q.task
  BY <1>1, <1>2, NoneIsNothing DEF BindingsMatchOwners
<1> DEFINE row == [pool[r] EXCEPT !.owner = q.task]
<1>4. /\ row.owner = q.task /\ row.group = pool[r].group /\ row.policy = pool[r].policy
      /\ row # None
  BY <1>1, NoneIsNothing, RowWithOwner DEF Rows, Owners
<1>5. /\ pool' = [pool EXCEPT ![r] = row] /\ storeRows' = [storeRows EXCEPT ![r] = row]
      /\ bindings' = [bindings EXCEPT ![q.task] = r]
      /\ UNCHANGED <<groups, storeGroups>>
  BY DEF PassLocks
<1>6. StoreAgrees'
  BY <1>1, <1>5 DEF StoreAgrees
<1>7. BindingsMatchOwners'
  <2> SUFFICES ASSUME NEW t \in Tasks, NEW s \in Resources
               PROVE  bindings'[t] = s <=> Pooled(s)' /\ pool'[s].owner = t
    BY DEF BindingsMatchOwners
  <2>1. CASE s = r
    BY <1>1, <1>2, <1>3, <1>4, <1>5, <2>1, NoneIsNothing
       DEF BindingsMatchOwners, TablesOK, Pooled
  <2>2. CASE s # r
    BY <1>1, <1>2, <1>3, <1>4, <1>5, <2>2 DEF BindingsMatchOwners, TablesOK, Pooled
  <2> QED BY <2>1, <2>2
<1>8. StoreLoads'
  BY <1>1, <1>3, <1>4, <1>5 DEF StoreLoads, StoreAgrees, Loads, TablesOK, Pooled
<1> QED BY <1>1, <1>6, <1>7, <1>8 DEF Agreement, NothingWhenDown

\* Clearing the owner of the row a task is bound to.
LEMMA AgreementUnlock ==
  ASSUME NEW t \in Tasks, Consistent, up, bindings[t] # None, unlock(t)
  PROVE  Agreement'
<1> DEFINE b == Bound(t)
           row == [pool[b] EXCEPT !.owner = None]
<1> USE DEF Consistent, TypeOK
<1>1. /\ b = bindings[t] /\ b \in Resources /\ Pooled(b)
      /\ pool[b].owner = t /\ pool[b] \in Rows
  BY BoundIsBinding, BoundIsPooled DEF BindingsMatchOwners, TablesOK, Pooled
<1>2. /\ row.owner = None /\ row.group = pool[b].group /\ row.policy = pool[b].policy
      /\ row # None
  BY <1>1, NoneIsNothing, RowWithOwner DEF Rows, Owners
<1>3. /\ pool' = [pool EXCEPT ![b] = row] /\ storeRows' = [storeRows EXCEPT ![b] = row]
      /\ bindings' = [bindings EXCEPT ![t] = None]
      /\ UNCHANGED <<up, groups, storeGroups>>
  BY <1>1, NoneIsNothing DEF unlock
<1>4. StoreAgrees'
  BY <1>3 DEF StoreAgrees
<1>5. BindingsMatchOwners'
  <2> SUFFICES ASSUME NEW u \in Tasks, NEW s \in Resources
               PROVE  bindings'[u] = s <=> Pooled(s)' /\ pool'[s].owner = u
    BY DEF BindingsMatchOwners
  <2>1. CASE s = b
    BY <1>1, <1>2, <1>3, <2>1, NoneIsNothing DEF BindingsMatchOwners, TablesOK, Pooled
  <2>2. CASE s # b
    BY <1>1, <1>2, <1>3, <2>2, NoneIsNothing DEF BindingsMatchOwners, TablesOK, Pooled
  <2> QED BY <2>1, <2>2
<1>6. StoreLoads'
  BY <1>1, <1>2, <1>3 DEF StoreLoads, StoreAgrees, Loads, TablesOK, Pooled
<1> QED BY <1>3, <1>4, <1>5, <1>6 DEF Agreement, NothingWhenDown

\* Adding an unlocked row to a group that exists.
LEMMA AgreementAdd ==
  ASSUME NEW r \in Resources, NEW g \in Groups, NEW n \in Policies, Consistent,
         Add(r, g, n)
  PROVE  Agreement'
<1> DEFINE row == [group |-> g, owner |-> None, policy |-> n]
<1> USE DEF Consistent, TypeOK
<1>1. row \in Rows /\ row # None /\ row.owner = None /\ row.group = g /\ row.policy = n
  BY NoneIsNothing DEF Rows, Owners
<1>2. /\ up /\ ~Pooled(r) /\ g \in groups /\ validHolderPolicy(n)
      /\ pool' = [pool EXCEPT ![r] = row] /\ storeRows' = [storeRows EXCEPT ![r] = row]
      /\ UNCHANGED <<up, groups, bindings, storeGroups>>
  BY DEF Add
<1>3. StoreAgrees'
  BY <1>2 DEF StoreAgrees
<1>4. BindingsMatchOwners'
  BY <1>1, <1>2, NoneIsNothing DEF BindingsMatchOwners, TablesOK, Pooled
<1>5. StoreLoads'
  BY <1>1, <1>2 DEF StoreLoads, StoreAgrees, Loads, TablesOK, Pooled
<1> QED BY <1>2, <1>3, <1>4, <1>5 DEF Agreement, NothingWhenDown

\* Removing rows, and with them possibly a group none of the others is in.
LEMMA AgreementRemove ==
  ASSUME NEW gone \in SUBSET Resources, NEW g, Consistent, up, RemoveRows(gone),
         UNCHANGED up,
         \/ UNCHANGED <<groups, storeGroups>>
         \/ /\ g # Global /\ Members(g) \subseteq gone
            /\ storeGroups' = storeGroups \ {g} /\ groups' = groups \ {g}
  PROVE  Agreement'
<1> USE DEF Consistent, TypeOK
<1>1. StoreAgrees'
  BY DEF StoreAgrees, RemoveRows
<1>2. BindingsMatchOwners'
  <2> SUFFICES ASSUME NEW t \in Tasks, NEW s \in Resources
               PROVE  bindings'[t] = s <=> Pooled(s)' /\ pool'[s].owner = t
    BY DEF BindingsMatchOwners
  <2>1. bindings[t] = s <=> Pooled(s) /\ pool[s].owner = t
    BY DEF BindingsMatchOwners
  <2>2. CASE s \in gone
    <3>1. ~Pooled(s)'
      BY <2>2 DEF RemoveRows, Pooled
    <3>2. bindings'[t] # s
      BY <2>1, <2>2, NoneIsNothing DEF RemoveRows
    <3> QED BY <3>1, <3>2
  <2>3. CASE s \notin gone
    <3>1. pool'[s] = pool[s]
      BY <2>3 DEF RemoveRows
    <3>2. ASSUME bindings[t] = s PROVE bindings'[t] = s
      <4>1. ~ \E r \in gone : Pooled(r) /\ pool[r].owner = t
        BY <2>3, <3>2 DEF BindingsMatchOwners
      <4> QED BY <3>2, <4>1 DEF RemoveRows
    <3>3. ASSUME bindings'[t] = s PROVE bindings[t] = s
      BY <3>3, NoneIsNothing DEF RemoveRows
    <3> QED BY <2>1, <3>1, <3>2, <3>3 DEF Pooled
  <2> QED BY <2>2, <2>3
<1>3. StoreLoads'
  <2>1. \A r \in Resources : storeRows'[r] # None =>
          r \notin gone /\ storeRows'[r] = storeRows[r] /\ storeRows[r] = pool[r]
    BY DEF RemoveRows, StoreAgrees
  <2>2. \A r \in Resources : storeRows'[r] # None =>
          storeRows'[r].group \in storeGroups' \cup {Global}
    BY <2>1 DEF StoreLoads, Loads, Members, Pooled
  <2> QED BY <2>1, <2>2 DEF StoreLoads, Loads
<1> QED BY <1>1, <1>2, <1>3 DEF Agreement, NothingWhenDown

\* The manager NewManager builds agrees with the rows it was built from.
LEMMA AgreementRestart ==
  ASSUME Consistent, Restart
  PROVE  Agreement'
<1> USE DEF Consistent, TypeOK
<1>1. StoreAgrees' /\ up'
  BY DEF Restart, StoreAgrees
<1>2. BindingsMatchOwners'
  <2> SUFFICES ASSUME NEW t \in Tasks, NEW s \in Resources
               PROVE  bindings'[t] = s <=> storeRows[s] # None /\ storeRows[s].owner = t
    BY DEF BindingsMatchOwners, Restart, Pooled
  <2>1. CASE LockedTo(storeRows, t) = {}
    BY <2>1, NoneIsNothing DEF Restart, LockedTo
  <2>2. CASE LockedTo(storeRows, t) # {}
    <3>1. \E r \in Resources : r \in LockedTo(storeRows, t)
      BY <2>2 DEF LockedTo
    <3>2. bindings'[t] \in Resources /\ bindings'[t] \in LockedTo(storeRows, t)
      BY <2>2, <3>1 DEF Restart
    <3>3. ASSUME s \in LockedTo(storeRows, t) PROVE s = bindings'[t]
      BY <3>2, <3>3, NoneIsNothing DEF StoreLoads, Loads, LockedTo
    <3> QED BY <3>2, <3>3 DEF LockedTo
  <2> QED BY <2>1, <2>2
<1>3. StoreLoads'
  BY DEF Restart, StoreLoads, Loads
<1> QED BY <1>1, <1>2, <1>3 DEF Agreement, NothingWhenDown

\* Every step keeps the agreement.
LEMMA NextAgreement == Consistent /\ [Next]_vars => Agreement'
<1> SUFFICES ASSUME Consistent, [Next]_vars PROVE Agreement'
  OBVIOUS
<1>1. Agreement /\ TypeOK /\ TablesOK
  BY DEF Consistent, Agreement, TypeOK
<1>2. CASE UNCHANGED vars
  BY <1>1, <1>2 DEF Agreement, NothingWhenDown, StoreAgrees, BindingsMatchOwners,
                    StoreLoads, Pooled, vars, memory, store, calls
<1>3. ASSUME NEW c \in Callers, CallStep(c) PROVE Agreement'
  <2>1. CASE Pass(c)
    <3>1. CASE \E r \in Resources : PassLocks(c, r)
      BY <3>1, AgreementLock
    <3>2. CASE ~ \E r \in Resources : PassLocks(c, r)
      <4>1. up
        BY <2>1 DEF Pass, PassCancelled, PassPinUnresolved, PassRefused, PassFails,
                    PassOwnResource, PassRotates, PassLocks, PassParks, PassProceeds,
                    PassBegins
      <4> QED BY <1>1, <2>1, <3>2, <4>1, PassWithoutLock, AgreementUnchanged
    <3> QED BY <3>1, <3>2
  <2>2. CASE ~Pass(c)
    <3>1. up /\ UNCHANGED <<up, groups, pool, bindings, store>>
      BY <1>3, <2>2 DEF CallStep, Request, Cancel, Watch, Release, ReleaseAgain, memory
    <3> QED BY <1>1, <3>1, AgreementUnchanged
  <2> QED BY <2>1, <2>2
<1>4. ASSUME NEW t \in Tasks, LockStep(t) PROVE Agreement'
  BY <1>4, AgreementUnlock DEF LockStep, Unlock, ReleaseStaleLock
<1>5. CASE InventoryStep
  <2>1. ASSUME NEW g \in Groups, CreateGroup(g) PROVE Agreement'
    BY <1>1, <2>1 DEF CreateGroup, Agreement, NothingWhenDown, StoreAgrees,
                      BindingsMatchOwners, StoreLoads, Loads, Pooled
  <2>2. ASSUME NEW g \in Groups, DeleteGroup(g) PROVE Agreement'
    BY <2>2, AgreementRemove DEF DeleteGroup, DeleteGroupAdmits, Members
  <2>3. ASSUME NEW g \in Groups, NEW gone \in SUBSET Members(g), DeleteGroupStops(g, gone)
        PROVE  Agreement'
    BY <2>3, AgreementRemove DEF DeleteGroupStops, DeleteGroupAdmits, Members
  <2>4. ASSUME NEW r \in Resources, NEW g \in Groups, NEW n \in Policies, Add(r, g, n)
        PROVE  Agreement'
    BY <2>4, AgreementAdd
  <2>5. ASSUME NEW r \in Resources, Delete(r) PROVE Agreement'
    BY <2>5, AgreementRemove DEF Delete
  <2> QED BY <1>5, <2>1, <2>2, <2>3, <2>4, <2>5 DEF InventoryStep
<1>6. CASE Crash
  BY <1>1, <1>6 DEF Crash, NoManager, Agreement, NothingWhenDown, StoreAgrees,
                    BindingsMatchOwners, StoreLoads, store
<1>7. CASE Restart
  BY <1>7, AgreementRestart
<1>8. CASE RestartStops
  BY <1>1, <1>8 DEF RestartStops, Agreement, NothingWhenDown, StoreAgrees,
                    BindingsMatchOwners, StoreLoads, Loads, memory, calls
<1> QED BY <1>2, <1>3, <1>4, <1>5, <1>6, <1>7, <1>8 DEF Next

-----------------------------------------------------------------------------
(* Locked resources are leased to their owner alone.                       *)

\* What is idle has no lease of any task.
LEMMA IdleHasNoLeases ==
  ASSUME NEW r \in Resources, TablesOK, holderIDs(r) = {}
  PROVE  \A t \in Tasks : holders[r][t] = 0
  BY DEF holderIDs, TablesOK

\* A pass that grants a lease either rotates an unlocked resource or gives an
\* idle one to its owner.
LEMMA PassOwnersUse ==
  ASSUME NEW c \in Callers, Consistent, Pass(c)
  PROVE  OwnersUse'
<1> DEFINE t == req[c].task
<1> USE DEF Consistent, TypeOK
<1>1. /\ up /\ t \in Tasks
  BY RequestFields DEF Pass, PassCancelled, PassPinUnresolved, PassRefused, PassFails,
                       PassOwnResource, PassRotates, PassLocks, PassParks, PassProceeds,
                       PassBegins, CallsOK
<1>2. CASE UNCHANGED <<pool, holders>>
  BY <1>2 DEF OwnersUse, Pooled
<1>3. CASE PassOwnResource(c)
  <2> DEFINE r == Bound(t)
  <2>1. /\ r \in Resources /\ Pooled(r) /\ r = bindings[t] /\ holderIDs(r) = {}
    BY <1>1, <1>3, BoundIsPooled DEF PassOwnResource
  <2>2. pool[r].owner = t
    BY <1>1, <2>1 DEF BindingsMatchOwners
  <2>3. \A u \in Tasks : holders[r][u] = 0
    BY <2>1, IdleHasNoLeases
  <2>4. pool' = pool /\ holders' = [holders EXCEPT ![r][t] = @ + 1]
    BY <1>3 DEF PassOwnResource, GrantLease
  <2>5. ASSUME NEW s \in Resources, NEW u \in Tasks, Pooled(s), pool[s].owner # None
        PROVE  holders'[s][u] <= (IF u = pool[s].owner THEN 1 ELSE 0)
    <3>1. CASE s = r
      <4>1. holders[r] \in [Tasks -> Nat] /\ holders \in [Resources -> [Tasks -> Nat]]
        BY <2>1 DEF TablesOK
      <4>2. holders'[r][u] = IF u = t THEN holders[r][u] + 1 ELSE holders[r][u]
        BY <2>1, <2>4, <4>1
      <4>3. holders'[r][u] <= (IF u = t THEN 1 ELSE 0)
        BY <2>3, <4>2
      <4> QED BY <2>2, <3>1, <4>3
    <3>2. CASE s # r
      BY <2>4, <2>5, <3>2 DEF TablesOK, OwnersUse
    <3> QED BY <3>1, <3>2
  <2> QED BY <2>4, <2>5 DEF OwnersUse, Pooled
<1>4. ASSUME NEW r \in Resources, PassRotates(c, r) PROVE OwnersUse'
  <2>1. /\ pool[r].owner = None /\ pool' = pool
        /\ holders' = [holders EXCEPT ![r][t] = @ + 1]
    BY <1>4 DEF PassRotates, Candidates, GrantLease
  <2> QED BY <2>1 DEF OwnersUse, Pooled, TablesOK
<1>5. ASSUME NEW r \in Resources, PassLocks(c, r) PROVE OwnersUse'
  <2>1. /\ Pooled(r) /\ holderIDs(r) = {}
        /\ pool' = [pool EXCEPT ![r] = [pool[r] EXCEPT !.owner = t]]
        /\ holders' = [holders EXCEPT ![r][t] = @ + 1]
    BY <1>5 DEF PassLocks, Candidates, Members, GrantLease
  <2>2. \A u \in Tasks : holders[r][u] = 0
    BY <2>1, IdleHasNoLeases
  <2>3. pool'[r].owner = t
    BY <2>1 DEF TablesOK, Pooled, Rows
  <2>4. ASSUME NEW s \in Resources, NEW u \in Tasks, Pooled(s)', pool'[s].owner # None
        PROVE  holders'[s][u] <= (IF u = pool'[s].owner THEN 1 ELSE 0)
    <3>1. CASE s = r
      BY <1>1, <2>1, <2>2, <2>3, <3>1 DEF TablesOK
    <3>2. CASE s # r
      BY <2>1, <2>4, <3>2 DEF TablesOK, OwnersUse, Pooled
    <3> QED BY <3>1, <3>2
  <2> QED BY <2>4 DEF OwnersUse
<1> QED
  BY <1>2, <1>3, <1>4, <1>5 DEF Pass, PassCancelled, PassPinUnresolved, PassRefused,
     PassFails, PassParks, memory

\* Every step keeps the leases of locked resources to their owners.
LEMMA NextOwnersUse == Consistent /\ [Next]_vars => OwnersUse'
<1> SUFFICES ASSUME Consistent, [Next]_vars PROVE OwnersUse'
  OBVIOUS
<1> USE DEF Consistent, TypeOK
<1>1. CASE UNCHANGED <<pool, holders>>
  BY <1>1 DEF OwnersUse, Pooled
<1>2. ASSUME NEW c \in Callers, Release(c) PROVE OwnersUse'
  <2>1. lease[c] \in Resources /\ req[c].task \in Tasks
    BY <1>2, RequestFields DEF Release, CallsOK, Pins
  <2>2. pool' = pool /\ holders' = unhold(lease[c], req[c].task)
    BY <1>2 DEF Release
  <2>3. \A r \in Resources, t \in Tasks : holders'[r][t] <= holders[r][t]
                                           /\ holders'[r][t] \in Nat /\ holders[r][t] \in Nat
    BY <2>1, <2>2, UnholdType DEF unhold, TablesOK
  <2> QED BY <2>2, <2>3 DEF OwnersUse, Pooled
<1>3. ASSUME NEW t \in Tasks, LockStep(t) PROVE OwnersUse'
  <2>1. unlock(t)
    BY <1>3 DEF LockStep, Unlock, ReleaseStaleLock
  <2>2. CASE Bound(t) = None
    BY <1>1, <2>1, <2>2 DEF unlock
  <2>3. CASE Bound(t) # None
    <3>1. /\ Bound(t) \in Resources /\ Pooled(Bound(t)) /\ pool[Bound(t)] \in Rows
      BY <2>3, BoundIsPooled DEF TablesOK, Pooled
    <3>2. /\ holders' = holders
          /\ pool' = [pool EXCEPT ![Bound(t)] = [pool[Bound(t)] EXCEPT !.owner = None]]
      BY <2>1, <2>3 DEF unlock
    <3> QED BY <3>1, <3>2 DEF OwnersUse, TablesOK, Pooled, Rows
  <2> QED BY <2>2, <2>3
<1>4. ASSUME NEW gone \in SUBSET Resources, RemoveRows(gone) PROVE OwnersUse'
  BY <1>4 DEF RemoveRows, OwnersUse, Pooled
<1>5. ASSUME NEW r \in Resources, NEW g \in Groups, NEW n \in Policies, Add(r, g, n)
      PROVE  OwnersUse'
  BY <1>5 DEF Add, OwnersUse, TablesOK, Pooled
<1>6. CASE InventoryStep
  BY <1>1, <1>4, <1>5, <1>6 DEF InventoryStep, CreateGroup, DeleteGroup, DeleteGroupStops,
     Delete, Members
<1>7. CASE Crash
  BY <1>7 DEF Crash, NoManager, OwnersUse, Pooled
<1>8. CASE Restart
  BY <1>8 DEF Restart, NothingWhenDown, OwnersUse
<1> QED
  BY <1>1, <1>2, <1>3, <1>6, <1>7, <1>8, PassOwnersUse DEF Next, CallStep, Request, Cancel,
     Watch, ReleaseAgain, RestartStops, vars, memory, store, calls

-----------------------------------------------------------------------------
(* The safety theorems.                                                    *)

\* The initial state, a process not yet started over any acceptable store.
LEMMA InitConsistent == Init => Consistent
<1> SUFFICES ASSUME Init PROVE Consistent
  OBVIOUS
<1>1. NothingWhenDown /\ StoreAgrees /\ BindingsMatchOwners /\ StoreLoads
  BY DEF Init, NothingWhenDown, StoreAgrees, BindingsMatchOwners, StoreLoads
<1>2. OwnersUse
  BY DEF Init, OwnersUse, Pooled
<1> QED BY <1>1, <1>2, InitTypes DEF Consistent

\* Consistent is an inductive invariant of the manager.
THEOREM AlwaysConsistent == Spec => []Consistent
<1>1. Consistent /\ [Next]_vars => Consistent'
  BY NextTypes, NextAgreement, NextOwnersUse DEF Consistent, Agreement
<1> QED BY InitConsistent, <1>1, PTL DEF Spec

\* The manager's maps mirror the repository at every point between operations,
\* whatever write of whatever cascade failed (manager.go: "The manager treats the
\* store as a mirror everywhere").
THEOREM StoreMirrored == Spec => []StoreAgrees
<1>1. Consistent => StoreAgrees
  BY DEF Consistent
<1> QED BY AlwaysConsistent, <1>1, PTL

\* The bindings are the owners on the pooled records, so the branches that
\* handle a binding to a missing resource are never taken.
THEOREM BindingsAreOwners == Spec => []BindingsMatchOwners
<1>1. Consistent => BindingsMatchOwners
  BY DEF Consistent
<1> QED BY AlwaysConsistent, <1>1, PTL

\* NewManager never refuses what an earlier manager left in the repository.
THEOREM AlwaysLoads == Spec => []StoreLoads
<1>1. Consistent => StoreLoads
  BY DEF Consistent
<1> QED BY AlwaysConsistent, <1>1, PTL

\* A durably locked resource is leased to its owner alone, once at a time.
THEOREM LocksAreExclusive == Spec => []LockExclusive
<1>1. Consistent => LockExclusive
  <2> SUFFICES ASSUME Consistent, NEW r \in Resources, Pooled(r), pool[r].owner # None
               PROVE  holderIDs(r) \subseteq {pool[r].owner} /\ heldCount(r) <= 1
    BY DEF LockExclusive
  <2> DEFINE o == pool[r].owner
  <2>1. \A t \in Tasks : holders[r][t] \in Nat /\ holders[r][t] <= (IF t = o THEN 1 ELSE 0)
    BY DEF Consistent, TypeOK, TablesOK, OwnersUse
  <2>2. holderIDs(r) \subseteq {o}
    BY <2>1 DEF holderIDs
  <2>3. Slots(r) \subseteq {<<o, 1>>}
    BY <2>1 DEF Slots
  <2>4. IsFiniteSet({<<o, 1>>}) /\ Cardinality({<<o, 1>>}) = 1
    BY FS_Singleton
  <2>5. Cardinality(Slots(r)) <= 1
    BY <2>3, <2>4, FS_Subset
  <2> QED BY <2>2, <2>5 DEF heldCount
<1> QED BY AlwaysConsistent, <1>1, PTL

-----------------------------------------------------------------------------
(* Acquire and Lock never drop a lock.                                     *)

KeepsLocks == \A r \in Resources : Owner(storeRows, r) # None => storeRows'[r] = storeRows[r]

\* The only row a pass may write is an unlocked one.
LEMMA PassKeepsLocks ==
  ASSUME Consistent, NEW c \in Callers, Pass(c)
  PROVE  KeepsLocks
<1>1. CASE UNCHANGED storeRows
  BY <1>1 DEF KeepsLocks
<1>2. ASSUME NEW r \in Resources, PassLocks(c, r) PROVE KeepsLocks
  <2>1. Owner(storeRows, r) = None
    BY <1>2 DEF PassLocks, PassProceeds, PassBegins, Candidates, Owner, Consistent, StoreAgrees
  <2>2. \A s \in Resources : s # r => storeRows'[s] = storeRows[s]
    BY <1>2 DEF PassLocks, Consistent, TypeOK, TablesOK
  <2> QED BY <2>1, <2>2 DEF KeepsLocks
<1> QED BY <1>1, <1>2, PassWithoutLock DEF store

\* No lease drops a durable lock as a side effect: the step on which a call ends
\* or parks leaves every locked row as it was (ErrPinConflict).
THEOREM LocksSurviveAcquire == Spec => AcquireKeepsLocks
<1> DEFINE ends == \E c \in Callers : pc[c] = "ready" /\ pc'[c] # "ready"
<1>1. Consistent /\ [Next]_vars => [ends => KeepsLocks]_vars
  <2> SUFFICES ASSUME Consistent, Next, NEW c \in Callers, pc[c] = "ready", pc'[c] # "ready"
               PROVE  KeepsLocks
    OBVIOUS
  <2>1. CASE UNCHANGED storeRows
    BY <2>1 DEF KeepsLocks
  <2>2. ~(pc' \in {pc, Broadcast(pc)})
    BY DEF Broadcast
  <2>3. ASSUME NEW d \in Callers, CallStep(d) PROVE KeepsLocks
    BY <2>1, <2>3, PassKeepsLocks DEF CallStep, Request, Cancel, Watch, Release,
       ReleaseAgain, store
  <2>4. ~ \E t \in Tasks : LockStep(t)
    BY <2>2 DEF LockStep, Unlock, ReleaseStaleLock, unlock, calls
  <2>5. ~InventoryStep
    BY <2>2 DEF InventoryStep, CreateGroup, DeleteGroup, DeleteGroupStops, Add, Delete, calls
  <2> QED BY <2>1, <2>3, <2>4, <2>5 DEF Next, Crash, Restart, RestartStops, store
<1>2. [ends => KeepsLocks]_vars =>
        [(\E c \in Callers : pc[c] = "ready" /\ pc'[c] # "ready") =>
           \A r \in Resources :
             Owner(storeRows, r) # None => storeRows'[r] = storeRows[r]]_vars
  BY DEF KeepsLocks
<1> QED BY <1>1, <1>2, AlwaysConsistent, PTL DEF Spec, AcquireKeepsLocks

-----------------------------------------------------------------------------
(* A lease is what was asked for.                                          *)

GrantIsHonoured(c) ==
  LET q == req[c]
      r == lease'[c]
      own == LockedTo(storeRows, q.task)
  IN  /\ q.pin \in {None, r}
      /\ IF own # {} THEN r \in own
         ELSE storeRows[r].owner = None /\ storeRows[r].group = q.group
      /\ q.lock => storeRows'[r].owner = q.task

\* What a task is bound to is what the store has locked to it.
LEMMA BoundIsLocked ==
  ASSUME Consistent, up, NEW t \in Tasks
  PROVE  \A r \in Resources : r \in LockedTo(storeRows, t) <=> Bound(t) = r
<1>1. Bound(t) = bindings[t]
  BY BoundIsBinding DEF Consistent, TypeOK
<1> QED BY <1>1 DEF Consistent, BindingsMatchOwners, StoreAgrees, LockedTo, Pooled

\* A pass that grants a lease honours its request.
LEMMA PassHonours ==
  ASSUME Consistent, NEW c \in Callers, Pass(c), pc'[c] = "holding"
  PROVE  GrantIsHonoured(c)
<1> DEFINE q == req[c]
<1>0. /\ up /\ pc[c] = "ready" /\ q \in Requests /\ q.task \in Tasks /\ q.pin \in Pins
      /\ TablesOK /\ CallsOK /\ StoreAgrees
      /\ pc \in [Callers -> {"idle", "ready", "parked", "holding", "spent"}]
      /\ lease \in [Callers -> Pins]
  BY RequestFields DEF Pass, PassCancelled, PassPinUnresolved, PassRefused, PassFails,
     PassOwnResource, PassRotates, PassLocks, PassParks, PassProceeds, PassBegins,
     Consistent, TypeOK, CallsOK
<1>1. CASE PassOwnResource(c)
  <2> DEFINE r == Bound(q.task)
  <2>1. /\ r \in Resources /\ Pooled(r) /\ q.pin \in {None, r}
        /\ lease'[c] = r /\ storeRows' = storeRows
    BY <1>0, <1>1, BoundIsPooled DEF PassOwnResource, PinConflict, GrantLease, store
  <2>2. r \in LockedTo(storeRows, q.task)
    BY <1>0, <2>1, BoundIsLocked
  <2> HIDE DEF r
  <2> QED BY <2>1, <2>2 DEF GrantIsHonoured, LockedTo
<1>2. ASSUME Bound(q.task) = None
      PROVE  LockedTo(storeRows, q.task) = {}
  <2>1. \A r \in Resources : r \notin LockedTo(storeRows, q.task)
    BY <1>0, <1>2, BoundIsLocked, NoneIsNothing
  <2> QED BY <2>1 DEF LockedTo
<1>3. ASSUME NEW r \in Candidates(q)
      PROVE  /\ r \in Resources /\ storeRows[r].owner = None /\ storeRows[r].group = q.group
             /\ q.pin \in {None, r} /\ pool[r] \in Rows /\ storeRows[r] = pool[r]
  BY <1>0, <1>3 DEF Candidates, Members, StoreAgrees, TablesOK, Pooled
<1>4. ASSUME NEW r \in Resources, PassRotates(c, r) PROVE GrantIsHonoured(c)
  <2>1. lease'[c] = r /\ r \in Candidates(q) /\ ~q.lock /\ Bound(q.task) = None
    BY <1>0, <1>4 DEF PassRotates, GrantLease
  <2> QED BY <1>2, <1>3, <2>1 DEF GrantIsHonoured
<1>5. ASSUME NEW r \in Resources, PassLocks(c, r) PROVE GrantIsHonoured(c)
  <2>1. /\ lease'[c] = r /\ r \in Candidates(q) /\ Bound(q.task) = None
        /\ storeRows' = [storeRows EXCEPT ![r] = [pool[r] EXCEPT !.owner = q.task]]
    BY <1>0, <1>5 DEF PassLocks, GrantLease
  <2>2. storeRows'[r].owner = q.task
    BY <1>0, <1>3, <2>1 DEF TablesOK, Rows
  <2> QED BY <1>2, <1>3, <2>1, <2>2 DEF GrantIsHonoured
<1>6. ~EndCall(c)
  BY <1>0 DEF EndCall
<1>7. ~PassParks(c)
  BY <1>0 DEF PassParks
<1> QED BY <1>1, <1>4, <1>5, <1>6, <1>7 DEF Pass, PassCancelled, PassPinUnresolved,
        PassRefused, PassFails

\* A call is given its pin, the resource its task is locked to or else an
\* unlocked member of its group, and a lock that is in the store (manager.go:403).
THEOREM GrantsAreHonoured == Spec => GrantHonoursRequest
<1> DEFINE granted(c) == pc[c] = "ready" /\ pc'[c] = "holding"
<1>1. Consistent /\ [Next]_vars =>
        [\A c \in Callers : granted(c) => GrantIsHonoured(c)]_vars
  <2> SUFFICES ASSUME Consistent, Next, NEW c \in Callers, granted(c)
               PROVE  GrantIsHonoured(c)
    OBVIOUS
  <2>0. pc \in [Callers -> {"idle", "ready", "parked", "holding", "spent"}]
    BY DEF Consistent, TypeOK, CallsOK
  <2>1. pc' # pc /\ pc' # Broadcast(pc)
    BY DEF Broadcast
  <2>2. ASSUME NEW d \in Callers, CallStep(d) PROVE Pass(c)
    <3>1. ASSUME Pass(d) PROVE Pass(c)
      <4>1. CASE c = d
        BY <3>1, <4>1
      <4>2. CASE c # d
        <5>1. pc'[c] = pc[c]
          BY <2>0, <3>1, <4>2 DEF Pass, PassCancelled, PassPinUnresolved, PassRefused,
             PassFails, PassOwnResource, PassRotates, PassLocks, PassParks, EndCall, GrantLease
        <5> QED BY <5>1
      <4> QED BY <4>1, <4>2
    <3>2. ~(Cancel(d) \/ Watch(d))
      BY <2>1 DEF Cancel, Watch
    <3>3. ~ReleaseAgain(d)
      BY <2>0 DEF ReleaseAgain
    <3>4. ~ \E q \in Requests : Request(d, q)
      BY <2>0 DEF Request
    <3>5. ~Release(d)
      BY <2>0 DEF Release, Broadcast
    <3> QED BY <2>2, <3>1, <3>2, <3>3, <3>4, <3>5 DEF CallStep
  <2>3. ~ \E t \in Tasks : LockStep(t)
    BY <2>1 DEF LockStep, Unlock, ReleaseStaleLock, unlock, calls
  <2>4. ~InventoryStep
    BY <2>1 DEF InventoryStep, CreateGroup, DeleteGroup, DeleteGroupStops, Add, Delete, calls
  <2>5. ~(Crash \/ Restart \/ RestartStops)
    BY <2>1 DEF Crash, NoManager, Restart, RestartStops, calls
  <2> QED BY <2>2, <2>3, <2>4, <2>5, PassHonours DEF Next
<1>2. [\A c \in Callers : granted(c) => GrantIsHonoured(c)]_vars =>
        [\A c \in Callers : (pc[c] = "ready" /\ pc'[c] = "holding") =>
           LET q == req[c]
               r == lease'[c]
               own == LockedTo(storeRows, q.task)
           IN  /\ q.pin \in {None, r}
               /\ IF own # {} THEN r \in own
                  ELSE storeRows[r].owner = None /\ storeRows[r].group = q.group
               /\ q.lock => storeRows'[r].owner = q.task]_vars
  BY DEF GrantIsHonoured
<1> QED BY <1>1, <1>2, AlwaysConsistent, PTL DEF Spec, GrantHonoursRequest

-----------------------------------------------------------------------------
(* No wake-up is lost.  A parked call may be overtaken by a lock that its   *)
(* own task takes elsewhere; the resource it is pinned to stays leased, so  *)
(* that nobody can lock it and leave the call parked on a pin that fails.   *)

PinIsBusy(q) == q.pin # None /\ Bound(q.task) # q.pin => holderIDs(q.pin) # {}
MustWait(q) == checkPin(q) /\ (WouldPark(q) \/ PinConflict(q)) /\ PinIsBusy(q)

Woken == \A c \in Callers : pc[c] = "parked" => ctx[c] # "seen" /\ MustWait(req[c])

\* A pooled resource with no lease is under its cap.
LEMMA IdleIsUnderCap ==
  ASSUME Consistent, up, NEW r \in Resources, Pooled(r), holderIDs(r) = {}
  PROVE  UnderCap(r)
<1>1. \A t \in Tasks : holders[r][t] = 0
  BY IdleHasNoLeases DEF Consistent, TypeOK
<1>2. Slots(r) = {}
  BY <1>1 DEF Slots
<1>3. heldCount(r) = 0
  BY <1>2, FS_EmptySet DEF heldCount
<1>4. pool[r].policy \in Int /\ pool[r].policy >= Unlimited
  BY PoliciesAssumption
     DEF Consistent, TypeOK, TablesOK, StoreAgrees, StoreLoads, Loads, Pooled, Rows,
         validHolderPolicy
<1> QED BY <1>3, <1>4 DEF UnderCap, effectiveCap, Unlimited

\* A call that parks on a pin waits for a lease of it to end.
LEMMA ParksOnBusyPin ==
  ASSUME Consistent, up, NEW q \in Requests, checkPin(q), WouldPark(q)
  PROVE  PinIsBusy(q)
<1> SUFFICES ASSUME q.pin # None, Bound(q.task) # q.pin, holderIDs(q.pin) = {} PROVE FALSE
  BY DEF PinIsBusy
<1>0. q.task \in Tasks /\ q.pin \in Resources
  BY RequestFields DEF Pins
<1>1. Bound(q.task) = None
  BY DEF WouldPark, PinConflict
<1>2. /\ Pooled(q.pin) /\ pool[q.pin].group = q.group
      /\ pool[q.pin].owner \in {None, q.task}
  BY DEF checkPin
<1>3. pool[q.pin].owner = None
  <2>1. Bound(q.task) = bindings[q.task]
    BY <1>0, BoundIsBinding DEF Consistent, TypeOK
  <2> QED BY <1>0, <1>2, <2>1 DEF Consistent, BindingsMatchOwners
<1>4. q.pin \in Candidates(q)
  BY <1>0, <1>2, <1>3, IdleIsUnderCap DEF Candidates, Members
<1> QED BY <1>1, <1>4 DEF WouldPark

\* A grant to somebody else leaves a waiting call waiting: it takes from the
\* candidates what was none of the call's, or what another task owns.
LEMMA GrantLeavesWaiting ==
  ASSUME Consistent, NEW q \in Requests, NEW r \in Resources, NEW t \in Tasks,
         MustWait(q), Pooled(r), pool[r].owner # None \/ UnderCap(r),
         holders' = [holders EXCEPT ![r][t] = @ + 1],
         UNCHANGED <<groups, pool, bindings>>
  PROVE  MustWait(q)'
<1>0. /\ holders \in [Resources -> [Tasks -> Nat]] /\ TablesOK
      /\ q.task \in Tasks /\ q.pin \in Pins
  BY RequestFields DEF Consistent, TypeOK, TablesOK
<1>1. /\ \A s \in Resources : s # r => holders'[s] = holders[s]
      /\ \A u \in Tasks : holders'[r][u] = IF u = t THEN holders[r][u] + 1 ELSE holders[r][u]
  BY <1>0
<1>2. ASSUME NEW s \in Resources PROVE holderIDs(s) \subseteq holderIDs(s)'
  BY <1>0, <1>1 DEF holderIDs
<1>3. /\ Bound(q.task)' = Bound(q.task) /\ checkPin(q)' /\ PinConflict(q)' = PinConflict(q)
      /\ \A s \in Resources : Pooled(s)' = Pooled(s)
      /\ Members(q.group)' = Members(q.group)
      /\ NothingToWaitFor(q)' = NothingToWaitFor(q)
  BY DEF Bound, checkPin, PinConflict, NothingToWaitFor, Members, Pooled, MustWait
<1>4. t \in holderIDs(r)'
  BY <1>0, <1>1 DEF holderIDs
<1>5. Candidates(q)' \subseteq Candidates(q)
  <2> SUFFICES ASSUME NEW s \in Candidates(q)' PROVE s \in Candidates(q)
    OBVIOUS
  <2>1. s \in Resources /\ s \in Members(q.group)
    BY <1>3 DEF Candidates, Members
  <2>2. pool[s].owner = None /\ q.pin \in {None, s} /\ (q.lock => holderIDs(s)' = {})
    BY DEF Candidates
  <2>3. q.lock => holderIDs(s) = {}
    BY <1>2, <2>1, <2>2
  <2>4. UnderCap(s)
    <3>1. CASE s = r
      BY <2>2, <3>1
    <3>2. CASE s # r
      <4>1. UnderCap(s)'
        BY DEF Candidates
      <4>2. heldCount(s)' = heldCount(s)
        BY <1>1, <2>1, <3>2 DEF heldCount, Slots
      <4> QED BY <4>1, <4>2 DEF UnderCap
    <3> QED BY <3>1, <3>2
  <2> QED BY <2>1, <2>2, <2>3, <2>4 DEF Candidates
<1>6. Bound(q.task) # None => Bound(q.task) \in Resources
  BY <1>0, BoundIsPooled
<1>7. WouldPark(q) => WouldPark(q)'
  BY <1>2, <1>3, <1>5, <1>6 DEF WouldPark
<1>8. PinIsBusy(q)'
  BY <1>0, <1>2, <1>3 DEF PinIsBusy, MustWait, Pins
<1> QED BY <1>3, <1>7, <1>8 DEF MustWait

\* So does a lock: of its pin nobody can take one, and if its own task takes one
\* the call waits for that lease, or has a pin conflict.
LEMMA LockLeavesWaiting ==
  ASSUME Consistent, NEW q \in Requests, NEW c \in Callers, NEW r \in Resources,
         PassLocks(c, r), MustWait(q)
  PROVE  MustWait(q)'
<1> DEFINE t == req[c].task
<1>0. /\ holders \in [Resources -> [Tasks -> Nat]] /\ TablesOK /\ up
      /\ q.task \in Tasks /\ q.pin \in Pins /\ t \in Tasks
  BY RequestFields DEF Consistent, TypeOK, TablesOK, CallsOK, PassLocks, PassProceeds, PassBegins
<1>1. /\ Pooled(r) /\ pool[r].owner = None /\ holderIDs(r) = {} /\ Bound(t) = None
      /\ bindings' = [bindings EXCEPT ![t] = r] /\ groups' = groups
      /\ pool' = [pool EXCEPT ![r] = [pool[r] EXCEPT !.owner = t]]
      /\ holders' = [holders EXCEPT ![r][t] = @ + 1]
  BY DEF PassLocks, Candidates, Members, GrantLease
<1>2. /\ \A s \in Resources : s # r => pool'[s] = pool[s] /\ holders'[s] = holders[s]
      /\ pool'[r] \in Rows /\ pool'[r].owner = t /\ pool'[r].group = pool[r].group
      /\ \A u \in Tasks : u # t => bindings'[u] = bindings[u]
      /\ bindings'[t] = r /\ holders'[r][t] > 0
  <2>1. pool \in [Resources -> Rows \cup {None}] /\ bindings \in [Tasks -> Pins]
    BY <1>0 DEF TablesOK
  <2>2. pool[r] \in Rows
    BY <1>1, <2>1 DEF Pooled
  <2>3. PICK row \in Rows :
          row = [pool[r] EXCEPT !.owner = t] /\ row.owner = t /\ row.group = pool[r].group
    <3> HIDE DEF t
    <3>1. t \in Owners
      BY <1>0 DEF Owners
    <3>2. PICK o \in Owners : o = t
      BY <3>1
    <3>3. [pool[r] EXCEPT !.owner = o] \in Rows
      BY <1>0, <1>1, RowWithOwner
    <3>4. /\ [pool[r] EXCEPT !.owner = o].owner = o
          /\ [pool[r] EXCEPT !.owner = o].group = pool[r].group
      BY <2>2 DEF Rows
    <3> QED BY <3>2, <3>3, <3>4
  <2>4. \A s \in Resources : pool'[s] = IF s = r THEN row ELSE pool[s]
    BY <1>1, <2>1, <2>3
  <2>5. /\ \A s \in Resources : s # r => holders'[s] = holders[s]
        /\ holders'[r][t] > 0
    <3> HIDE DEF t
    <3>1. /\ holders[r] \in [Tasks -> Nat] /\ holders[r][t] \in Nat
          /\ holders' = [holders EXCEPT ![r] = [holders[r] EXCEPT ![t] = holders[r][t] + 1]]
      BY <1>0, <1>1
    <3>2. \A s \in Resources : s # r => holders'[s] = holders[s]
      BY <1>0, <3>1
    <3>3. holders'[r][t] = holders[r][t] + 1
      BY <1>0, <3>1
    <3> QED BY <3>1, <3>2, <3>3
  <2>6. \A u \in Tasks : bindings'[u] = IF u = t THEN r ELSE bindings[u]
    BY <1>1, <2>1
  <2> HIDE DEF t
  <2> QED BY <1>0, <2>3, <2>4, <2>5, <2>6
<1>3. /\ \A s \in Resources : Pooled(s)' = Pooled(s)
      /\ Members(q.group)' = Members(q.group)
      /\ \A s \in Resources : s # r => holderIDs(s)' = holderIDs(s)
      /\ holderIDs(r)' # {}
  BY <1>0, <1>1, <1>2, NoneIsNothing DEF Pooled, Members, holderIDs
<1>4. ASSUME NEW u \in Tasks PROVE Bound(u) # r
  BY <1>0, <1>1, <1>4, BoundIsPooled, NoneIsNothing DEF Consistent, BindingsMatchOwners
<1>5. q.pin # r
  BY <1>0, <1>1, <1>4, NoneIsNothing DEF MustWait, PinIsBusy, Pins
<1>6. checkPin(q)'
  BY <1>0, <1>2, <1>3, <1>5 DEF checkPin, MustWait, Pins
<1>7. CASE q.task = t
  <2>1. Bound(q.task)' = r /\ r # None
    BY <1>1, <1>2, <1>3, <1>7, NoneIsNothing DEF Bound
  <2>2. PinIsBusy(q)'
    BY <1>0, <1>1, <1>3, <1>5, <1>7 DEF PinIsBusy, MustWait, Pins
  <2>3. WouldPark(q)' \/ PinConflict(q)'
    BY <1>3, <1>5, <2>1 DEF WouldPark, PinConflict
  <2> QED BY <1>6, <2>2, <2>3 DEF MustWait
<1>8. CASE q.task # t
  <2>1. bindings'[q.task] = bindings[q.task] /\ bindings[q.task] \in Pins
    BY <1>0, <1>2, <1>8 DEF TablesOK
  <2>2. Bound(q.task)' = Bound(q.task)
    BY <1>3, <2>1 DEF Bound, Pins
  <2>3. PinConflict(q)' = PinConflict(q) /\ NothingToWaitFor(q)' = NothingToWaitFor(q)
    BY <1>1, <1>3, <2>2 DEF PinConflict, NothingToWaitFor
  <2>4. Candidates(q)' \subseteq Candidates(q)
    <3> SUFFICES ASSUME NEW s \in Candidates(q)' PROVE s \in Candidates(q)
      OBVIOUS
    <3>1. s \in Resources /\ s \in Members(q.group) /\ pool'[s].owner = None
      BY <1>3 DEF Candidates, Members
    <3>2. s # r
      BY <1>0, <1>2, <3>1, NoneIsNothing
    <3>3. holders'[s] = holders[s]
      BY <1>2, <3>1, <3>2
    <3>4. heldCount(s)' = heldCount(s)
      BY ONLY <3>3 DEF heldCount, Slots
    <3> QED BY <1>2, <1>3, <3>1, <3>2, <3>4 DEF Candidates, UnderCap
  <2>5. WouldPark(q) => WouldPark(q)'
    <3>1. CASE Bound(q.task) = None
      BY <2>2, <2>3, <2>4, <3>1 DEF WouldPark
    <3>2. CASE Bound(q.task) # None
      <4>1. Bound(q.task) \in Resources /\ Bound(q.task) # r
        BY <1>0, <1>4, <3>2, BoundIsPooled
      <4> QED BY <1>3, <2>2, <2>3, <3>2, <4>1 DEF WouldPark
    <3> QED BY <3>1, <3>2
  <2>6. PinIsBusy(q)'
    BY <1>0, <1>3, <1>5, <2>2 DEF PinIsBusy, MustWait, Pins
  <2> QED BY <1>6, <2>3, <2>5, <2>6 DEF MustWait
<1> QED BY <1>7, <1>8

\* What a request would find depends on these tables alone, and a group more
\* changes nothing for a call that waits in one there is.
LEMMA UnchangedLeavesWaiting ==
  ASSUME NEW q, MustWait(q), groups \subseteq groups', UNCHANGED <<pool, bindings, holders>>
  PROVE  MustWait(q)'
<1>1. /\ Bound(q.task)' = Bound(q.task) /\ checkPin(q)' = checkPin(q)
      /\ PinConflict(q)' = PinConflict(q) /\ PinIsBusy(q)' = PinIsBusy(q)
      /\ Members(q.group)' = Members(q.group) /\ Candidates(q)' = Candidates(q)
  BY DEF checkPin, PinConflict, PinIsBusy, Candidates, Members, Pooled, Bound, holderIDs,
         UnderCap, heldCount, Slots
<1>2. holderIDs(Bound(q.task))' = holderIDs(Bound(q.task))
  BY <1>1 DEF holderIDs
<1>3. NothingToWaitFor(q)' => NothingToWaitFor(q)
  BY <1>1 DEF NothingToWaitFor
<1> QED BY <1>1, <1>2, <1>3 DEF MustWait, WouldPark

\* A step that leaves a parked call parked leaves it something to wait for.
LEMMA PassLeavesWaiting ==
  ASSUME Consistent, NEW d \in Callers, Pass(d), NEW q \in Requests, MustWait(q)
  PROVE  MustWait(q)'
<1>0. up /\ pc[d] = "ready" /\ req[d].task \in Tasks /\ TablesOK
  BY RequestFields DEF Pass, PassCancelled, PassPinUnresolved, PassRefused, PassFails,
     PassOwnResource, PassRotates, PassLocks, PassParks, PassProceeds, PassBegins,
     Consistent, TypeOK, CallsOK
<1>1. ASSUME NEW r \in Resources, PassLocks(d, r) PROVE MustWait(q)'
  BY <1>1, LockLeavesWaiting
<1>2. ASSUME NEW r \in Resources, PassRotates(d, r) PROVE MustWait(q)'
  <2>1. /\ Pooled(r) /\ UnderCap(r)
        /\ holders' = [holders EXCEPT ![r][req[d].task] = @ + 1]
    BY <1>2 DEF PassRotates, Candidates, Members, GrantLease
  <2>2. UNCHANGED <<groups, pool, bindings>>
    BY <1>0, <1>2, BoundIsBinding DEF PassRotates, Consistent
  <2>3. PICK t \in Tasks : t = req[d].task
    BY <1>0
  <2> QED BY <1>0, <2>1, <2>2, <2>3, GrantLeavesWaiting
<1>3. CASE PassOwnResource(d)
  <2>1. PICK t \in Tasks, r \in Resources : t = req[d].task /\ r = Bound(t)
    BY <1>0, <1>3, BoundIsPooled DEF PassOwnResource
  <2>2. Pooled(r) /\ pool[r].owner = t
    BY <1>0, <2>1, BoundIsPooled, NoneIsNothing DEF Consistent, BindingsMatchOwners
  <2>3. /\ holders' = [holders EXCEPT ![r][t] = @ + 1]
        /\ UNCHANGED <<groups, pool, bindings>>
    BY <1>3, <2>1 DEF PassOwnResource, GrantLease
  <2> QED BY <2>2, <2>3, GrantLeavesWaiting, NoneIsNothing
<1>4. CASE UNCHANGED <<groups, pool, bindings, holders>>
  BY <1>4, UnchangedLeavesWaiting
<1>5. CASE PassCancelled(d) \/ PassPinUnresolved(d)
  BY <1>4, <1>5 DEF PassCancelled, PassPinUnresolved, memory
<1>6. CASE PassRefused(d) \/ PassFails(d) \/ PassParks(d)
  <2>1. /\ Bound(req[d].task) = bindings[req[d].task]
        /\ [bindings EXCEPT ![req[d].task] = Bound(req[d].task)] = bindings
    BY <1>0, BoundIsBinding DEF Consistent
  <2>2. bindings' = bindings
    BY <1>6, <2>1 DEF PassRefused, PassFails, PassParks
  <2> QED BY <1>4, <1>6, <2>2 DEF PassRefused, PassFails, PassParks
<1> QED BY <1>1, <1>2, <1>3, <1>5, <1>6 DEF Pass

\* A broadcast leaves nobody parked.
LEMMA BroadcastWakes ==
  ASSUME NEW p, pc' = Broadcast(p)
  PROVE  Woken'
  BY DEF Woken, Broadcast

\* A step of the calls other than a pass wakes everybody or changes no table.
LEMMA CallStepWakes ==
  ASSUME Consistent, Woken, NEW d \in Callers, CallStep(d)
  PROVE  Woken'
<1>0. /\ pc \in [Callers -> {"idle", "ready", "parked", "holding", "spent"}]
      /\ req \in [Callers -> Requests \cup {None}]
      /\ ctx \in [Callers -> {"live", "done", "seen"}]
      /\ \A c \in Callers : req[c] = None <=> pc[c] = "idle"
  BY DEF Consistent, TypeOK, CallsOK
<1>1. ASSUME NEW c \in Callers, pc[c] = "parked", req'[c] = req[c], ctx'[c] # "seen",
             UNCHANGED <<groups, pool, bindings, holders>> \/ Pass(d)
      PROVE  MustWait(req[c])'
  <2>1. PICK q \in Requests : q = req[c]
    BY <1>0, <1>1
  <2>2. MustWait(q)
    BY <1>1, <2>1 DEF Woken
  <2>3. MustWait(q)'
    BY <1>1, <2>2, UnchangedLeavesWaiting, PassLeavesWaiting
  <2>4. q = req'[c]
    BY <1>1, <2>1
  <2> QED BY <2>3, <2>4 DEF MustWait, checkPin, WouldPark, PinConflict, PinIsBusy,
          NothingToWaitFor, Candidates
<1>2. ASSUME Pass(d) PROVE Woken'
  <2>0. up /\ pc[d] = "ready" /\ req[d] \in Requests
    BY <1>0, <1>2 DEF Pass, PassCancelled, PassPinUnresolved, PassRefused, PassFails,
       PassOwnResource, PassRotates, PassLocks, PassParks, PassProceeds, PassBegins
  <2>1. ASSUME NEW c \in Callers, c # d
        PROVE  pc'[c] = pc[c] /\ req'[c] = req[c] /\ ctx'[c] = ctx[c]
    BY <1>0, <1>2, <2>1 DEF Pass, PassCancelled, PassPinUnresolved, PassRefused,
       PassFails, PassOwnResource, PassRotates, PassLocks, PassParks, EndCall, GrantLease
  <2>2. ASSUME pc'[d] = "parked" PROVE ctx'[d] # "seen" /\ MustWait(req[d])'
    <3>1. PassParks(d)
      BY <1>0, <1>2, <2>2 DEF Pass, PassCancelled, PassPinUnresolved, PassRefused,
         PassFails, PassOwnResource, PassRotates, PassLocks, EndCall, GrantLease
    <3>2. PICK q \in Requests : q = req[d]
      BY <2>0
    <3>3. MustWait(q)
      BY <2>0, <3>1, <3>2, ParksOnBusyPin DEF PassParks, PassProceeds, MustWait
    <3>4. MustWait(q)'
      BY <1>2, <3>3, PassLeavesWaiting
    <3>5. q = req'[d] /\ ctx'[d] # "seen"
      BY <3>1, <3>2 DEF PassParks, PassProceeds
    <3> QED BY <3>4, <3>5 DEF MustWait, checkPin, WouldPark, PinConflict, PinIsBusy,
            NothingToWaitFor, Candidates
  <2>3. ASSUME NEW c \in Callers, c # d, pc'[c] = "parked"
        PROVE  ctx'[c] # "seen" /\ MustWait(req[c])'
    <3>1. pc[c] = "parked" /\ req'[c] = req[c] /\ ctx'[c] # "seen"
      BY <2>1, <2>3 DEF Woken
    <3> QED BY <1>1, <1>2, <3>1
  <2> QED BY <2>2, <2>3 DEF Woken
<1>3. ASSUME UNCHANGED <<groups, pool, bindings, holders>>,
             \A c \in Callers : pc'[c] = "parked" =>
               pc[c] = "parked" /\ req'[c] = req[c] /\ ctx'[c] # "seen"
      PROVE  Woken'
  BY <1>1, <1>3 DEF Woken
<1>4. ASSUME NEW q \in Requests, Request(d, q) PROVE Woken'
  BY <1>0, <1>3, <1>4 DEF Request, memory, Woken
<1>5. CASE Cancel(d)
  BY <1>0, <1>3, <1>5 DEF Cancel, memory, Woken
<1>6. CASE ReleaseAgain(d)
  BY <1>0, <1>3, <1>6 DEF ReleaseAgain, memory, Woken
<1>7. CASE Watch(d) \/ Release(d)
  BY <1>7 DEF Watch, Release, Woken, Broadcast
<1> QED BY <1>2, <1>4, <1>5, <1>6, <1>7 DEF CallStep

\* Tables change without a broadcast only where no parked call looks at them.
LEMMA TablesWake ==
  ASSUME Consistent, Woken, UNCHANGED <<pc, req, ctx>>, groups \subseteq groups',
         UNCHANGED <<pool, bindings, holders>>
  PROVE  Woken'
<1> SUFFICES ASSUME NEW c \in Callers, pc[c] = "parked" PROVE MustWait(req[c])'
  BY DEF Woken
<1>1. PICK q \in Requests : q = req[c]
  BY DEF Consistent, TypeOK, CallsOK
<1>2. MustWait(q)
  BY <1>1 DEF Woken
<1>3. q = req'[c]
  BY <1>1
<1>4. MustWait(q)'
  BY <1>2, UnchangedLeavesWaiting
<1> QED BY <1>3, <1>4 DEF MustWait, checkPin, WouldPark, PinConflict, PinIsBusy,
        NothingToWaitFor, Candidates

\* Every other step wakes everybody, or touches nothing a parked call waits for.
LEMMA NextWakes == Consistent /\ Woken /\ [Next]_vars => Woken'
<1> SUFFICES ASSUME Consistent, Woken, [Next]_vars PROVE Woken'
  OBVIOUS
<1>1. CASE UNCHANGED vars
  BY <1>1, TablesWake DEF vars, memory, calls
<1>2. ASSUME NEW t \in Tasks, LockStep(t) PROVE Woken'
  <2>1. up /\ unlock(t) /\ bindings[t] # None
    BY <1>2 DEF LockStep, Unlock, ReleaseStaleLock
  <2>2. Bound(t) # None
    BY <2>1, BoundIsBinding DEF Consistent, TypeOK
  <2> QED BY <2>1, <2>2, BroadcastWakes DEF unlock
<1>3. CASE InventoryStep
  <2>1. ASSUME NEW g \in Groups, CreateGroup(g) PROVE Woken'
    BY <2>1, TablesWake DEF CreateGroup, calls
  <2>2. ASSUME NEW g \in Groups, DeleteGroup(g) PROVE Woken'
    BY <2>2, BroadcastWakes DEF DeleteGroup
  <2>3. ASSUME NEW g \in Groups, NEW gone \in SUBSET Members(g), DeleteGroupStops(g, gone)
        PROVE  Woken'
    BY <2>3, BroadcastWakes DEF DeleteGroupStops
  <2>4. ASSUME NEW r \in Resources, NEW g \in Groups, NEW n \in Policies, Add(r, g, n)
        PROVE  Woken'
    BY <2>4, BroadcastWakes DEF Add
  <2>5. ASSUME NEW r \in Resources, Delete(r) PROVE Woken'
    <3>1. CASE Pooled(r)
      BY <2>5, <3>1, BroadcastWakes DEF Delete
    <3>2. CASE ~Pooled(r)
      <4>1. /\ TablesOK /\ holderIDs(r) = {} /\ RemoveRows({r})
            /\ UNCHANGED <<groups, pc, req, ctx>>
        BY <2>5, <3>2 DEF Delete, Consistent, TypeOK
      <4>2. pool' = pool
        BY <3>2, <4>1 DEF RemoveRows, TablesOK, Pooled
      <4>3. bindings' = bindings
        BY <3>2, <4>1 DEF RemoveRows, TablesOK
      <4>4. holders[r] = [t \in Tasks |-> 0]
        BY <4>1, IdleHasNoLeases DEF TablesOK
      <4>5. holders' = holders
        BY <4>1, <4>4 DEF RemoveRows, TablesOK
      <4> QED BY <4>1, <4>2, <4>3, <4>5, TablesWake
    <3> QED BY <3>1, <3>2
  <2> QED BY <1>3, <2>1, <2>2, <2>3, <2>4, <2>5 DEF InventoryStep
<1>4. CASE Crash
  BY <1>4 DEF Crash, NoManager, Woken
<1>5. CASE Restart
  BY <1>5 DEF Restart, Consistent, NothingWhenDown, calls, Woken
<1>6. CASE RestartStops
  BY <1>6, TablesWake DEF RestartStops, memory, calls
<1> QED BY <1>1, <1>2, <1>3, <1>4, <1>5, <1>6, CallStepWakes DEF Next

\* Whatever could end the wait of a parked call has woken it: a release, an unlock,
\* an addition, a removal, or its own watcher (manager.go:404, :485).
THEOREM NoWakeupIsLost == Spec => []NoLostWakeup
<1>1. Init => Woken
  BY DEF Init, Woken
<1>2. Woken => NoLostWakeup
  BY DEF Woken, MustWait, NoLostWakeup
<1> QED BY <1>1, <1>2, AlwaysConsistent, NextWakes, PTL DEF Spec

-----------------------------------------------------------------------------
(* From here on a statement is opened where it matters.                    *)

HIDE DEF SaveRow, DeleteRows, SaveGroup, DeleteGroupRow

-----------------------------------------------------------------------------
(* What a step does to the leases.                                         *)

\* The leases of a resource are finitely many, and c counts among the leases of
\* the resource and the task it holds one for.
LEMMA LeasesFinite ==
  ASSUME NEW r, NEW t
  PROVE  IsFiniteSet(Leases(r, t)) /\ Cardinality(Leases(r, t)) \in Nat
<1>1. Leases(r, t) \subseteq Callers
  BY DEF Leases
<1> QED BY <1>1, FiniteAssumption, FS_Subset, FS_CardinalityType

\* A counted lease shows in the holder table.
LEMMA HeldIsCounted ==
  ASSUME NEW c \in Callers, TypeOK, LeasesCounted, pc[c] = "holding"
  PROVE  /\ lease[c] \in Resources /\ req[c] \in Requests /\ req[c].task \in Tasks
         /\ c \in Leases(lease[c], req[c].task)
         /\ holders[lease[c]][req[c].task] > 0
         /\ holderIDs(lease[c]) # {}
<1>1. lease[c] \in Resources /\ req[c] \in Requests /\ req[c].task \in Tasks
  BY RequestFields DEF TypeOK, CallsOK, Pins
<1>2. c \in Leases(lease[c], req[c].task)
  BY DEF Leases
<1>3. Cardinality(Leases(lease[c], req[c].task)) # 0
  BY <1>2, LeasesFinite, FS_EmptySet
<1>4. holders[lease[c]][req[c].task] \in Nat /\ holders[lease[c]][req[c].task] # 0
  BY <1>1, <1>3 DEF LeasesCounted, TypeOK, TablesOK
<1> QED BY <1>1, <1>2, <1>4 DEF holderIDs

\* A step that neither grants nor drops a lease keeps the count.
LEMMA CountUnchanged ==
  ASSUME LeasesCounted, UNCHANGED holders,
         \A c \in Callers : /\ pc'[c] = "holding" <=> pc[c] = "holding"
                            /\ pc[c] = "holding" => lease'[c] = lease[c] /\ req'[c] = req[c]
  PROVE  LeasesCounted'
<1>1. \A r \in Resources, t \in Tasks : Leases(r, t)' = Leases(r, t)
  BY DEF Leases
<1> QED BY <1>1 DEF LeasesCounted

\* A broadcast grants and drops nothing.
LEMMA BroadcastHolds ==
  ASSUME TypeOK, pc' = Broadcast(pc), NEW c \in Callers
  PROVE  pc'[c] = "holding" <=> pc[c] = "holding"
  BY DEF Broadcast, TypeOK, CallsOK

\* A granted lease is one more, of its resource and its task.
LEMMA GrantLeaseCounted ==
  ASSUME NEW c \in Callers, NEW r \in Resources, TypeOK, LeasesCounted,
         pc[c] = "ready", GrantLease(c, r)
  PROVE  LeasesCounted'
<1>1. PICK t \in Tasks : t = req[c].task
  BY RequestFields DEF TypeOK, CallsOK
<1>2. Leases(r, t)' = Leases(r, t) \cup {c} /\ c \notin Leases(r, t)
  BY <1>1 DEF Leases, GrantLease, TypeOK, CallsOK
<1>3. \A s \in Resources, u \in Tasks : <<s, u>> # <<r, t>> => Leases(s, u)' = Leases(s, u)
  BY <1>1 DEF Leases, GrantLease, TypeOK, CallsOK
<1>4. Cardinality(Leases(r, t)') = Cardinality(Leases(r, t)) + 1
  <2>1. IsFiniteSet(Leases(r, t))
    BY LeasesFinite
  <2>2. Cardinality(Leases(r, t) \cup {c}) = Cardinality(Leases(r, t)) + 1
    BY <1>2, <2>1, FS_AddElement
  <2> QED BY <1>2, <2>2
<1>5. holders' = [holders EXCEPT ![r][t] = @ + 1]
  BY <1>1 DEF GrantLease
<1>6. ASSUME NEW s \in Resources, NEW u \in Tasks
      PROVE  holders'[s][u] = Cardinality(Leases(s, u)')
  <2>0. holders[s][u] = Cardinality(Leases(s, u)) /\ holders[s][u] \in Nat
    BY DEF LeasesCounted, TypeOK, TablesOK
  <2>1. CASE s = r /\ u = t
    BY <1>1, <1>4, <1>5, <2>0, <2>1 DEF TypeOK, TablesOK
  <2>2. CASE ~(s = r /\ u = t)
    <3>1. Leases(s, u)' = Leases(s, u)
      BY <1>3, <2>2
    <3> QED BY <1>1, <1>5, <2>0, <2>2, <3>1 DEF TypeOK, TablesOK
  <2> QED BY <2>1, <2>2
<1> QED BY <1>6 DEF LeasesCounted

\* A released lease is one less.
LEMMA ReleaseCounted ==
  ASSUME NEW c \in Callers, TypeOK, LeasesCounted, Release(c)
  PROVE  LeasesCounted'
<1>1. PICK r \in Resources, t \in Tasks :
        r = lease[c] /\ t = req[c].task /\ c \in Leases(r, t) /\ holders[r][t] > 0
  BY HeldIsCounted DEF Release
<1>2. \A d \in Callers : pc'[d] = "holding" <=> pc[d] = "holding" /\ d # c
  BY DEF Release, Broadcast, TypeOK, CallsOK
<1>3. UNCHANGED <<lease, req>>
  BY DEF Release
<1>4. Leases(r, t)' = Leases(r, t) \ {c}
  BY <1>1, <1>2, <1>3 DEF Leases
<1>5. \A s \in Resources, u \in Tasks : <<s, u>> # <<r, t>> => Leases(s, u)' = Leases(s, u)
  BY <1>1, <1>2, <1>3 DEF Leases
<1>6. Cardinality(Leases(r, t)') = Cardinality(Leases(r, t)) - 1
  <2>1. IsFiniteSet(Leases(r, t))
    BY LeasesFinite
  <2>2. c \in Leases(r, t)
    BY <1>1
  <2>3. Cardinality(Leases(r, t) \ {c}) = Cardinality(Leases(r, t)) - 1
    BY <2>1, <2>2, FS_RemoveElement
  <2> QED BY <1>4, <2>3
<1>7. holders' = [holders EXCEPT ![r][t] = @ - 1]
  BY <1>1 DEF Release, unhold
<1>8. ASSUME NEW s \in Resources, NEW u \in Tasks
      PROVE  holders'[s][u] = Cardinality(Leases(s, u)')
  <2>0. holders[s][u] = Cardinality(Leases(s, u)) /\ holders[s][u] \in Nat
    BY DEF LeasesCounted, TypeOK, TablesOK
  <2>1. CASE s = r /\ u = t
    BY <1>1, <1>6, <1>7, <2>0, <2>1 DEF TypeOK, TablesOK
  <2>2. CASE ~(s = r /\ u = t)
    <3>1. Leases(s, u)' = Leases(s, u)
      BY <1>5, <2>2
    <3> QED BY <1>1, <1>7, <2>0, <2>2, <3>1 DEF TypeOK, TablesOK
  <2> QED BY <2>1, <2>2
<1> QED BY <1>8 DEF LeasesCounted

\* Rows without leases are removed with their empty entries of the holder table.
LEMMA RemoveRowsCounted ==
  ASSUME NEW gone \in SUBSET Resources, TypeOK, LeasesCounted, RemoveRows(gone),
         \A r \in gone : holderIDs(r) = {},
         pc' \in {pc, Broadcast(pc)}, UNCHANGED <<req, lease>>
  PROVE  LeasesCounted' /\ UNCHANGED holders
<1>1. ASSUME NEW r \in gone PROVE holders[r] = [t \in Tasks |-> 0]
  <2>1. holders[r] \in [Tasks -> Nat]
    BY DEF TypeOK, TablesOK
  <2>2. \A t \in Tasks : holders[r][t] = 0
    BY IdleHasNoLeases DEF TypeOK
  <2> QED BY <2>1, <2>2
<1>2. UNCHANGED holders
  BY <1>1 DEF RemoveRows, TypeOK, TablesOK
<1>3. \A c \in Callers : pc'[c] = "holding" <=> pc[c] = "holding"
  BY BroadcastHolds
<1> QED BY <1>2, <1>3, CountUnchanged

\* A pass of the acquire loop, in the terms of the leases.
LEMMA PassCounted ==
  ASSUME NEW c \in Callers, TypeOK, LeasesCounted, Pass(c)
  PROVE  LeasesCounted'
<1>1. CASE \E r \in Resources : pc[c] = "ready" /\ GrantLease(c, r)
  BY <1>1, GrantLeaseCounted
<1>2. CASE ~ \E r \in Resources : pc[c] = "ready" /\ GrantLease(c, r)
  <2>1. ~PassOwnResource(c) /\ ~ \E r \in Resources : PassRotates(c, r) \/ PassLocks(c, r)
    <3>1. ASSUME PassOwnResource(c) PROVE Bound(req[c].task) \in Resources
      BY <3>1, BoundIsPooled, RequestFields
         DEF PassOwnResource, PassProceeds, PassBegins, TypeOK, CallsOK
    <3> QED BY <1>2, <3>1 DEF PassOwnResource, PassRotates, PassLocks, PassProceeds, PassBegins
  <2>2. /\ pc[c] = "ready" /\ UNCHANGED <<holders, lease>>
        /\ \/ EndCall(c)
           \/ pc' = [pc EXCEPT ![c] = "parked"] /\ req' = req
    BY <2>1 DEF Pass, PassCancelled, PassPinUnresolved, PassRefused, PassFails, PassParks,
                EndCall, PassProceeds, PassBegins, memory
  <2>3. \A d \in Callers : /\ pc'[d] = "holding" <=> pc[d] = "holding"
                           /\ pc[d] = "holding" => req'[d] = req[d]
    BY <2>2 DEF EndCall, TypeOK, CallsOK
  <2> QED BY <2>2, <2>3, CountUnchanged
<1> QED BY <1>1, <1>2

\* Every step keeps the count.
LEMMA NextCounted == Consistent /\ LeasesCounted /\ [Next]_vars => LeasesCounted'
<1> SUFFICES ASSUME Consistent, LeasesCounted, [Next]_vars PROVE LeasesCounted'
  OBVIOUS
<1>0. TypeOK
  BY DEF Consistent
<1>1. CASE UNCHANGED <<holders, pc, req, lease>>
  BY <1>1, CountUnchanged
<1>2. ASSUME NEW c \in Callers, CallStep(c) PROVE LeasesCounted'
  <2>1. ASSUME NEW q \in Requests, Request(c, q) PROVE LeasesCounted'
    <3>1. UNCHANGED holders
      BY <2>1 DEF Request, memory
    <3>2. \A d \in Callers : /\ pc'[d] = "holding" <=> pc[d] = "holding"
                             /\ pc[d] = "holding" => lease'[d] = lease[d] /\ req'[d] = req[d]
      BY <1>0, <2>1 DEF Request, TypeOK, CallsOK
    <3> QED BY <3>1, <3>2, CountUnchanged
  <2>2. CASE Cancel(c)
    BY <1>1, <2>2 DEF Cancel, memory
  <2>3. CASE Watch(c)
    BY <1>0, <2>3, CountUnchanged, BroadcastHolds DEF Watch, memory
  <2>4. CASE ReleaseAgain(c)
    <3>1. UNCHANGED holders
      BY <2>4 DEF ReleaseAgain, memory
    <3>2. \A d \in Callers : /\ pc'[d] = "holding" <=> pc[d] = "holding"
                             /\ pc[d] = "holding" => lease'[d] = lease[d] /\ req'[d] = req[d]
      BY <1>0, <2>4 DEF ReleaseAgain, TypeOK, CallsOK
    <3> QED BY <3>1, <3>2, CountUnchanged
  <2> QED BY <1>0, <1>2, <2>1, <2>2, <2>3, <2>4, PassCounted, ReleaseCounted DEF CallStep
<1>3. ASSUME NEW t \in Tasks, LockStep(t) PROVE LeasesCounted'
  <2>1. unlock(t)
    BY <1>3 DEF LockStep, Unlock, ReleaseStaleLock
  <2>2. CASE Bound(t) = None
    BY <1>1, <2>1, <2>2 DEF unlock, calls
  <2>3. CASE Bound(t) # None
    BY <1>0, <2>1, <2>3, CountUnchanged, BroadcastHolds DEF unlock
  <2> QED BY <2>2, <2>3
<1>4. CASE InventoryStep
  <2>1. ASSUME NEW g \in Groups, CreateGroup(g) PROVE LeasesCounted'
    BY <1>1, <2>1 DEF CreateGroup, calls
  <2>2. ASSUME NEW g \in Groups, DeleteGroup(g) PROVE LeasesCounted'
    BY <1>0, <2>2, RemoveRowsCounted DEF DeleteGroup, DeleteGroupAdmits, Members
  <2>3. ASSUME NEW g \in Groups, NEW gone \in SUBSET Members(g), DeleteGroupStops(g, gone)
        PROVE  LeasesCounted'
    BY <1>0, <2>3, RemoveRowsCounted DEF DeleteGroupStops, DeleteGroupAdmits, Members
  <2>4. ASSUME NEW r \in Resources, NEW g \in Groups, NEW n \in Policies, Add(r, g, n)
        PROVE  LeasesCounted'
    BY <1>0, <2>4, CountUnchanged, BroadcastHolds DEF Add
  <2>5. ASSUME NEW r \in Resources, Delete(r) PROVE LeasesCounted'
    BY <1>0, <2>5, RemoveRowsCounted DEF Delete
  <2> QED BY <1>4, <2>1, <2>2, <2>3, <2>4, <2>5 DEF InventoryStep
<1>5. CASE Crash
  <2>1. \A r \in Resources, t \in Tasks : Leases(r, t)' = {} /\ holders'[r][t] = 0
    BY <1>5 DEF Crash, NoManager, Leases
  <2> QED BY <2>1, FS_EmptySet DEF LeasesCounted
<1> QED
  BY <1>1, <1>2, <1>3, <1>4, <1>5 DEF Next, Restart, RestartStops, vars, memory, calls

\* The holder table counts exactly the leases granted and not yet released: no
\* release is lost, and none is applied twice (Lease.Release).
THEOREM LeasesAreCounted == Spec => []LeasesCounted
<1>1. Init => LeasesCounted
  <2> SUFFICES ASSUME Init PROVE LeasesCounted
    OBVIOUS
  <2>1. \A r \in Resources, t \in Tasks : Leases(r, t) = {} /\ holders[r][t] = 0
    BY DEF Init, Leases
  <2> QED BY <2>1, FS_EmptySet DEF LeasesCounted
<1> QED BY <1>1, NextCounted, AlwaysConsistent, PTL DEF Spec

-----------------------------------------------------------------------------
(* Nothing is removed under a lease.                                       *)

\* A step of a running manager takes a resource out of the pool only when it has
\* no lease.
LEMMA LeasedIsKept ==
  ASSUME Consistent, Next, ~Crash, NEW r \in Resources, Pooled(r), holderIDs(r) # {}
  PROVE  Pooled(r)'
<1> USE DEF Consistent, TypeOK
<1>0. up /\ pool \in [Resources -> Rows \cup {None}]
  BY NoneIsNothing DEF NothingWhenDown, Pooled, TablesOK
<1>1. CASE pool' = pool
  BY <1>1 DEF Pooled
<1>2. ASSUME NEW s \in Resources, NEW row \in Rows, pool' = [pool EXCEPT ![s] = row]
      PROVE  Pooled(r)'
  BY <1>0, <1>2, NoneIsNothing DEF Pooled
<1>3. ASSUME NEW gone \in SUBSET Resources, RemoveRows(gone),
             \A s \in gone : holderIDs(s) = {}
      PROVE  Pooled(r)'
  BY <1>3 DEF RemoveRows, Pooled
<1>4. ASSUME NEW c \in Callers, Pass(c) PROVE Pooled(r)'
  <2>1. ASSUME NEW s \in Resources, PassLocks(c, s) PROVE Pooled(r)'
    <3>1. Pooled(s) /\ req[c].task \in Tasks
      BY <2>1, RequestFields DEF PassLocks, PassProceeds, PassBegins, CallsOK, Candidates,
                                 Members
    <3>2. [pool[s] EXCEPT !.owner = req[c].task] \in Rows
      BY <3>1, RowWithOwner DEF Owners
    <3> QED BY <1>2, <2>1, <3>2 DEF PassLocks
  <2> QED BY <1>1, <1>4, <2>1, PassWithoutLock
<1>5. ASSUME NEW t \in Tasks, LockStep(t) PROVE Pooled(r)'
  <2>1. unlock(t)
    BY <1>5 DEF LockStep, Unlock, ReleaseStaleLock
  <2>2. CASE Bound(t) = None
    BY <1>1, <2>1, <2>2 DEF unlock
  <2>3. CASE Bound(t) # None
    <3>1. Bound(t) \in Resources /\ [pool[Bound(t)] EXCEPT !.owner = None] \in Rows
      BY <2>3, BoundIsPooled, RowWithOwner DEF Owners
    <3> QED BY <1>2, <2>1, <2>3, <3>1 DEF unlock
  <2> QED BY <2>2, <2>3
<1>6. CASE InventoryStep
  <2>1. ASSUME NEW s \in Resources, NEW g \in Groups, NEW n \in Policies, Add(s, g, n)
        PROVE  Pooled(r)'
    <3>1. [group |-> g, owner |-> None, policy |-> n] \in Rows
      BY DEF Rows, Owners
    <3> QED BY <1>2, <2>1, <3>1 DEF Add
  <2> QED BY <1>1, <1>3, <1>6, <2>1 DEF InventoryStep, CreateGroup, DeleteGroup,
             DeleteGroupStops, DeleteGroupAdmits, Delete, Members
<1> QED
  BY <1>0, <1>1, <1>4, <1>5, <1>6 DEF Next, CallStep, Request, Cancel, Watch, Release,
     ReleaseAgain, Restart, RestartStops, memory

KeepsLease(c) == pc[c] = "holding" /\ lease'[c] = lease[c] /\ req'[c] = req[c]
GainsLease(c, r) == pc[c] = "ready" /\ GrantLease(c, r) /\ Pooled(r) /\ Pooled(r)'

\* A lease after a pass is one from before it, or granted on a pooled resource.
LEMMA PassGrants ==
  ASSUME Consistent, NEW d \in Callers, Pass(d), NEW c \in Callers, pc'[c] = "holding"
  PROVE  KeepsLease(c) \/ \E r \in Resources : GainsLease(c, r)
<1> USE DEF Consistent, TypeOK
<1>1. pc[d] = "ready" /\ up /\ req[d].task \in Tasks
  BY RequestFields DEF Pass, PassCancelled, PassPinUnresolved, PassRefused, PassFails,
     PassOwnResource, PassRotates, PassLocks, PassParks, PassProceeds, PassBegins, CallsOK
<1>2. ASSUME NEW r \in Resources, GrantLease(d, r), Pooled(r), Pooled(r)'
      PROVE  KeepsLease(c) \/ \E s \in Resources : GainsLease(c, s)
  <2>1. CASE c = d
    BY <1>1, <1>2, <2>1 DEF GainsLease
  <2>2. CASE c # d
    BY <1>2, <2>2 DEF GrantLease, KeepsLease, CallsOK
  <2> QED BY <2>1, <2>2
<1>3. CASE UNCHANGED lease /\ (EndCall(d) \/ (pc' = [pc EXCEPT ![d] = "parked"] /\ req' = req))
  BY <1>1, <1>3 DEF EndCall, KeepsLease, CallsOK
<1>4. CASE PassOwnResource(d)
  BY <1>1, <1>2, <1>4, BoundIsPooled DEF PassOwnResource, Pooled
<1>5. ASSUME NEW r \in Resources, PassRotates(d, r)
      PROVE  KeepsLease(c) \/ \E s \in Resources : GainsLease(c, s)
  BY <1>2, <1>5 DEF PassRotates, Candidates, Members, Pooled
<1>6. ASSUME NEW r \in Resources, PassLocks(d, r)
      PROVE  KeepsLease(c) \/ \E s \in Resources : GainsLease(c, s)
  <2>1. Pooled(r)
    BY <1>6 DEF PassLocks, Candidates, Members
  <2>2. [pool[r] EXCEPT !.owner = req[d].task] \in Rows
    BY <1>1, <2>1, RowWithOwner DEF Owners
  <2>3. Pooled(r)'
    BY <1>6, <2>2, NoneIsNothing DEF PassLocks, Pooled, TablesOK
  <2> QED BY <1>2, <1>6, <2>1, <2>3 DEF PassLocks
<1> QED
  BY <1>3, <1>4, <1>5, <1>6 DEF Pass, PassCancelled, PassPinUnresolved, PassRefused,
     PassFails, PassParks, EndCall

\* So is a lease after any step.
LEMMA StepGrants ==
  ASSUME Consistent, Next, NEW c \in Callers, pc'[c] = "holding"
  PROVE  ~Crash /\ (KeepsLease(c) \/ \E r \in Resources : GainsLease(c, r))
<1> USE DEF Consistent, TypeOK
<1>1. ~Crash
  BY DEF Crash, NoManager
<1>2. CASE pc' \in {pc, Broadcast(pc)} /\ UNCHANGED <<req, lease>>
  BY <1>1, <1>2, BroadcastHolds DEF KeepsLease
<1>3. ASSUME NEW d \in Callers, CallStep(d)
      PROVE  KeepsLease(c) \/ \E r \in Resources : GainsLease(c, r)
  <2>1. ASSUME NEW q \in Requests, Request(d, q) PROVE KeepsLease(c)
    BY <2>1 DEF Request, KeepsLease, CallsOK
  <2>2. CASE Release(d)
    BY <2>2 DEF Release, Broadcast, KeepsLease, CallsOK
  <2>3. CASE ReleaseAgain(d)
    BY <2>3 DEF ReleaseAgain, KeepsLease, CallsOK
  <2> QED BY <1>1, <1>2, <1>3, <2>1, <2>2, <2>3, PassGrants DEF CallStep, Cancel, Watch
<1>4. ASSUME NEW t \in Tasks, LockStep(t) PROVE pc' \in {pc, Broadcast(pc)} /\ UNCHANGED <<req, lease>>
  BY <1>4 DEF LockStep, Unlock, ReleaseStaleLock, unlock, calls
<1>5. CASE InventoryStep
  BY <1>2, <1>5 DEF InventoryStep, CreateGroup, DeleteGroup, DeleteGroupStops, Add, Delete,
     calls
<1> QED BY <1>1, <1>2, <1>3, <1>4, <1>5 DEF Next, Restart, RestartStops, calls

\* No resource is deleted, alone or with its group, while a lease of it is live
\* (ErrResourceInUse in Delete and DeleteGroup).
THEOREM NeverRemovedInUse == Spec => []LeasedStaysPooled
<1>1. Init => LeasedStaysPooled
  BY DEF Init, LeasedStaysPooled
<1>2. Consistent /\ LeasesCounted /\ LeasedStaysPooled /\ [Next]_vars => LeasedStaysPooled'
  <2>1. CASE UNCHANGED vars
    BY <2>1 DEF LeasedStaysPooled, Pooled, vars, memory, calls
  <2>2. ASSUME Consistent, LeasesCounted, LeasedStaysPooled, Next,
               NEW c \in Callers, pc'[c] = "holding"
        PROVE  Pooled(lease[c])'
    <3>1. CASE KeepsLease(c)
      <4>1. lease[c] \in Resources /\ Pooled(lease[c]) /\ holderIDs(lease[c]) # {}
        BY <2>2, <3>1, HeldIsCounted DEF KeepsLease, LeasedStaysPooled, Consistent
      <4> QED BY <2>2, <3>1, <4>1, StepGrants, LeasedIsKept DEF KeepsLease, Pooled
    <3>2. ASSUME NEW r \in Resources, GainsLease(c, r) PROVE Pooled(lease[c])'
      BY <2>2, <3>2 DEF GainsLease, GrantLease, Consistent, TypeOK, CallsOK, Pooled
    <3> QED BY <2>2, <3>1, <3>2, StepGrants
  <2> QED BY <2>1, <2>2 DEF LeasedStaysPooled
<1> QED BY <1>1, <1>2, AlwaysConsistent, LeasesAreCounted, PTL DEF Spec

-----------------------------------------------------------------------------
(* No resource has more leases than its policy admits.                     *)

\* The slots of a resource are finitely many.
LEMMA SlotsFinite ==
  ASSUME NEW r \in Resources, TypeOK
  PROVE  IsFiniteSet(Slots(r)) /\ heldCount(r) \in Nat
<1> DEFINE slotsOf == [t \in Tasks |-> {t} \X (1 .. holders[r][t])]
           all == {slotsOf[t] : t \in Tasks}
<1>1. IsFiniteSet(all)
  <2>1. slotsOf \in Surjection(Tasks, all)
    BY DEF Surjection
  <2> QED BY <2>1, FiniteAssumption, FS_Surjection
<1>2. ASSUME NEW t \in Tasks PROVE IsFiniteSet(slotsOf[t])
  <2>1. holders[r][t] \in Nat
    BY DEF TypeOK, TablesOK
  <2>2. IsFiniteSet(1 .. holders[r][t])
    BY <2>1, FS_Interval
  <2>3. IsFiniteSet({t})
    BY FS_Singleton
  <2> QED BY <2>2, <2>3, FS_Product
<1>3. IsFiniteSet(UNION all)
  BY <1>1, <1>2, FS_UNION
<1>4. Slots(r) = UNION all
  BY DEF Slots
<1> QED BY <1>3, <1>4, FS_CardinalityType DEF heldCount

\* One more lease is one more slot.
LEMMA OneMoreSlot ==
  ASSUME NEW r \in Resources, NEW t \in Tasks, TypeOK, TypeOK',
         holders' = [holders EXCEPT ![r][t] = @ + 1]
  PROVE  /\ heldCount(r)' = heldCount(r) + 1
         /\ \A s \in Resources \ {r} : heldCount(s)' = heldCount(s)
<1> DEFINE n == holders[r][t]
<1>1. n \in Nat /\ holders'[r] = [holders[r] EXCEPT ![t] = n + 1]
  BY DEF TypeOK, TablesOK
<1>2. \A u \in Tasks : holders[r][u] \in Nat /\ holders'[r][u] \in Nat
  BY DEF TypeOK, TablesOK
<1>3. Slots(r)' = Slots(r) \cup {<<t, n + 1>>}
  <2>1. \A u \in Tasks : u # t => holders'[r][u] = holders[r][u]
    BY <1>1 DEF TypeOK, TablesOK
  <2>2. holders'[r][t] = n + 1
    BY <1>1 DEF TypeOK, TablesOK
  <2>3. 1 .. (n + 1) = (1 .. n) \cup {n + 1}
    BY <1>1
  <2> QED BY <1>1, <2>1, <2>2, <2>3 DEF Slots
<1>4. <<t, n + 1>> \notin Slots(r)
  BY <1>1 DEF Slots
<1>5. Cardinality(Slots(r)') = Cardinality(Slots(r)) + 1
  BY <1>3, <1>4, SlotsFinite, FS_AddElement
<1>6. ASSUME NEW s \in Resources \ {r} PROVE heldCount(s)' = heldCount(s)
  <2>1. holders'[s] = holders[s]
    BY DEF TypeOK, TablesOK
  <2> QED BY <2>1 DEF heldCount, Slots
<1> QED BY <1>5, <1>6 DEF heldCount

\* Fewer leases of every task are no more slots.
LEMMA FewerSlots ==
  ASSUME NEW r \in Resources, TypeOK, TypeOK',
         \A t \in Tasks : holders'[r][t] <= holders[r][t]
  PROVE  heldCount(r)' <= heldCount(r) /\ heldCount(r)' \in Nat /\ heldCount(r) \in Nat
<1>1. \A t \in Tasks : holders[r][t] \in Nat /\ holders'[r][t] \in Nat
  BY DEF TypeOK, TablesOK
<1>2. Slots(r)' \subseteq Slots(r)
  BY <1>1 DEF Slots
<1> QED BY <1>2, SlotsFinite, FS_Subset, FS_CardinalityType DEF heldCount

\* Nothing is leased of an idle resource.
LEMMA IdleHasNoSlots ==
  ASSUME NEW r \in Resources, TypeOK, \A t \in Tasks : holders[r][t] = 0
  PROVE  heldCount(r) = 0
<1>1. Slots(r) = {}
  BY DEF Slots
<1> QED BY <1>1, FS_EmptySet DEF heldCount

\* A valid policy admits a lease.
LEMMA CapAdmitsOne ==
  ASSUME NEW row \in Rows, validHolderPolicy(row.policy)
  PROVE  /\ effectiveCap(row) \in Int
         /\ effectiveCap(row) = Unlimited \/ effectiveCap(row) >= 1
<1>1. row.policy \in Int
  BY PoliciesAssumption DEF Rows
<1> QED BY <1>1 DEF effectiveCap, validHolderPolicy, Unlimited

\* A pooled record is a row with a valid policy.
LEMMA PooledIsValid ==
  ASSUME NEW r \in Resources, Consistent, Pooled(r)
  PROVE  pool[r] \in Rows /\ validHolderPolicy(pool[r].policy)
<1>1. up
  BY DEF Consistent, NothingWhenDown, Pooled
<1> QED BY <1>1 DEF Consistent, TypeOK, TablesOK, Pooled, StoreAgrees, StoreLoads, Loads

\* What HolderCap says of one resource.
Capped(r) ==
  effectiveCap(pool[r]) = Unlimited \/ heldCount(r) <= effectiveCap(pool[r])

\* A pass that grants a lease does so under the cap, or on an idle resource.
LEMMA PassCap ==
  ASSUME NEW c \in Callers, Consistent, Consistent', HolderCap, Pass(c)
  PROVE  HolderCap'
<1> DEFINE t == req[c].task
<1> USE DEF Consistent
<1>1. up /\ t \in Tasks /\ TablesOK
  BY RequestFields DEF Pass, PassCancelled, PassPinUnresolved, PassRefused, PassFails,
     PassOwnResource, PassRotates, PassLocks, PassParks, PassProceeds, PassBegins, TypeOK,
     CallsOK
<1>2. CASE UNCHANGED <<pool, holders>>
  BY <1>2 DEF HolderCap, Pooled, effectiveCap, heldCount, Slots
<1>3. ASSUME NEW r \in Resources, Pooled(r), holders' = [holders EXCEPT ![r][t] = @ + 1],
             holderIDs(r) = {} \/ (UnderCap(r) /\ pool' = pool),
             \A s \in Resources : Pooled(s)' => Pooled(s) /\ pool'[s].policy = pool[s].policy
      PROVE  HolderCap'
  <2>1. /\ heldCount(r)' = heldCount(r) + 1 /\ heldCount(r) \in Nat
        /\ \A s \in Resources \ {r} : heldCount(s)' = heldCount(s)
    BY <1>1, <1>3, OneMoreSlot, SlotsFinite
  <2>2. holderIDs(r) = {} => heldCount(r) = 0
    BY <1>1, IdleHasNoLeases, IdleHasNoSlots
  <2>3. /\ effectiveCap(pool[r]) = Unlimited \/ effectiveCap(pool[r]) >= 1
        /\ effectiveCap(pool[r]) \in Int
    BY <1>3, PooledIsValid, CapAdmitsOne
  <2>4. ASSUME NEW s \in Resources, Pooled(s)' PROVE Capped(s)'
    <3>1. effectiveCap(pool[s])' = effectiveCap(pool[s]) /\ Pooled(s)
      BY <1>3, <2>4 DEF effectiveCap
    <3>2. CASE s = r
      BY <1>3, <2>1, <2>2, <2>3, <3>1, <3>2 DEF UnderCap, Capped
    <3>3. CASE s # r
      BY <2>1, <3>1, <3>3 DEF HolderCap, Capped
    <3> QED BY <3>2, <3>3
  <2> QED BY <2>4 DEF HolderCap, Capped
<1>4. CASE PassOwnResource(c)
  BY <1>1, <1>3, <1>4, BoundIsPooled DEF PassOwnResource, GrantLease, Pooled
<1>5. ASSUME NEW r \in Resources, PassRotates(c, r) PROVE HolderCap'
  BY <1>3, <1>5 DEF PassRotates, GrantLease, Candidates, Members, Pooled
<1>6. ASSUME NEW r \in Resources, PassLocks(c, r) PROVE HolderCap'
  <2>1. Pooled(r) /\ holderIDs(r) = {}
    BY <1>6 DEF PassLocks, Candidates, Members
  <2>2. \A s \in Resources : Pooled(s)' => Pooled(s) /\ pool'[s].policy = pool[s].policy
    BY <1>1, <1>6, <2>1 DEF PassLocks, Pooled, TablesOK, Rows
  <2> QED BY <1>3, <1>6, <2>1, <2>2 DEF PassLocks, GrantLease
<1> QED
  BY <1>2, <1>4, <1>5, <1>6 DEF Pass, PassCancelled, PassPinUnresolved, PassRefused,
     PassFails, PassParks, memory

\* Every step keeps the caps.
LEMMA NextCap ==
  ASSUME Consistent, Consistent', LeasesCounted, LeasedStaysPooled, HolderCap, [Next]_vars
  PROVE  HolderCap'
<1> USE DEF Consistent
<1>0. TypeOK /\ TypeOK' /\ TablesOK
  BY DEF TypeOK
<1>1. ASSUME \A r \in Resources :
               Pooled(r)' => Pooled(r) /\ pool'[r].policy = pool[r].policy,
             \A r \in Resources, t \in Tasks : holders'[r][t] <= holders[r][t]
      PROVE  HolderCap'
  <2> SUFFICES ASSUME NEW r \in Resources, Pooled(r)' PROVE Capped(r)'
    BY DEF HolderCap, Capped
  <2>1. effectiveCap(pool[r])' = effectiveCap(pool[r]) /\ Pooled(r)
    BY <1>1 DEF effectiveCap
  <2>2. heldCount(r)' <= heldCount(r) /\ heldCount(r)' \in Nat /\ heldCount(r) \in Nat
    BY <1>0, <1>1, FewerSlots
  <2>3. effectiveCap(pool[r]) \in Int
    BY <2>1, PooledIsValid, CapAdmitsOne
  <2> QED BY <2>1, <2>2, <2>3 DEF HolderCap, Capped
<1>2. ASSUME pool' = pool, holders' = holders PROVE HolderCap'
  BY <1>2 DEF HolderCap, Pooled, effectiveCap, heldCount, Slots
<1>3. ASSUME NEW c \in Callers, Release(c) PROVE HolderCap'
  <2>1. lease[c] \in Resources /\ req[c].task \in Tasks /\ TablesOK
    BY <1>3, RequestFields DEF Release, TypeOK, CallsOK, Pins
  <2>2. pool' = pool /\ holders' = unhold(lease[c], req[c].task)
    BY <1>3 DEF Release
  <2>3. \A r \in Resources, t \in Tasks : holders'[r][t] <= holders[r][t]
    BY <2>1, <2>2 DEF unhold, TablesOK
  <2> QED BY <1>1, <2>2, <2>3 DEF Pooled
<1>4. ASSUME NEW t \in Tasks, LockStep(t) PROVE HolderCap'
  <2>1. unlock(t)
    BY <1>4 DEF LockStep, Unlock, ReleaseStaleLock
  <2>2. CASE Bound(t) = None
    BY <1>2, <2>1, <2>2 DEF unlock
  <2>3. CASE Bound(t) # None
    <3>1. Bound(t) \in Resources /\ Pooled(Bound(t)) /\ holders' = holders
          /\ pool' = [pool EXCEPT ![Bound(t)] = [pool[Bound(t)] EXCEPT !.owner = None]]
      BY <1>0, <2>1, <2>3, BoundIsPooled DEF unlock
    <3>2. \A r \in Resources : Pooled(r)' => Pooled(r) /\ pool'[r].policy = pool[r].policy
      BY <1>0, <3>1 DEF Pooled, TablesOK, Rows
    <3>3. \A r \in Resources, u \in Tasks : holders'[r][u] <= holders[r][u]
      BY <1>0, <3>1 DEF TablesOK
    <3> QED BY <1>1, <3>2, <3>3
  <2> QED BY <2>2, <2>3
<1>5. ASSUME NEW gone \in SUBSET Resources, RemoveRows(gone) PROVE HolderCap'
  <2>1. \A r \in Resources : Pooled(r)' => Pooled(r) /\ pool'[r].policy = pool[r].policy
    BY <1>5 DEF RemoveRows, Pooled
  <2>2. \A r \in Resources, t \in Tasks : holders'[r][t] <= holders[r][t]
    BY <1>0, <1>5 DEF RemoveRows, TablesOK
  <2> QED BY <1>1, <2>1, <2>2
<1>6. ASSUME NEW r \in Resources, NEW g \in Groups, NEW n \in Policies, Add(r, g, n)
      PROVE  HolderCap'
  <2>1. /\ up /\ up' /\ ~Pooled(r) /\ holders' = holders
        /\ pool' = [pool EXCEPT ![r] = [group |-> g, owner |-> None, policy |-> n]]
    BY <1>6 DEF Add
  <2>2. \A t \in Tasks : Leases(r, t) = {}
    BY <2>1 DEF LeasedStaysPooled, Leases
  <2>3. \A t \in Tasks : holders[r][t] = 0
    BY <2>2, FS_EmptySet DEF LeasesCounted
  <2>4. heldCount(r)' = 0
    <3>1. Slots(r)' = {}
      BY <2>1, <2>3 DEF Slots
    <3> QED BY <3>1, FS_EmptySet DEF heldCount
  <2>5. Capped(r)'
    <3> DEFINE row == [group |-> g, owner |-> None, policy |-> n]
    <3>1. row \in Rows /\ validHolderPolicy(row.policy)
      BY <1>6 DEF Add, Rows, Owners
    <3>2. pool'[r] = row
      BY <1>0, <2>1 DEF TablesOK
    <3> HIDE DEF row
    <3>3. effectiveCap(row) = Unlimited \/ effectiveCap(row) >= 0
      BY <3>1, CapAdmitsOne
    <3> QED BY <2>4, <3>2, <3>3 DEF Capped, effectiveCap
  <2>6. ASSUME NEW s \in Resources, s # r, Pooled(s)' PROVE Capped(s)'
    BY <2>1, <2>6 DEF HolderCap, Capped, Pooled, effectiveCap, heldCount, Slots
  <2> QED BY <2>5, <2>6 DEF HolderCap, Capped
<1>7. CASE InventoryStep
  BY <1>2, <1>5, <1>6, <1>7 DEF InventoryStep, CreateGroup, DeleteGroup, DeleteGroupStops,
     Delete, Members
<1>8. CASE Crash
  BY <1>8 DEF Crash, NoManager, HolderCap, Pooled
<1>9. CASE Restart
  <2>1. \A r \in Resources, t \in Tasks : holders'[r][t] = 0
    BY <1>9 DEF Restart, NothingWhenDown
  <2>2. ASSUME NEW r \in Resources, Pooled(r)' PROVE Capped(r)'
    <3>1. heldCount(r)' = 0
      <4>1. Slots(r)' = {}
        BY <2>1 DEF Slots
      <4> QED BY <4>1, FS_EmptySet DEF heldCount
    <3>2. pool'[r] = storeRows[r] /\ storeRows[r] \in Rows
          /\ validHolderPolicy(storeRows[r].policy)
      BY <1>0, <1>9, <2>2 DEF Restart, Pooled, TablesOK, Loads
    <3>3. effectiveCap(storeRows[r]) = Unlimited \/ effectiveCap(storeRows[r]) >= 0
      BY <3>2, CapAdmitsOne
    <3> QED BY <3>1, <3>2, <3>3 DEF Capped, effectiveCap
  <2> QED BY <2>2 DEF HolderCap, Capped
<1> QED
  BY <1>2, <1>3, <1>4, <1>7, <1>8, <1>9, PassCap DEF Next, CallStep, Request, Cancel,
     Watch, ReleaseAgain, RestartStops, vars, memory, store, calls

\* No resource has more live leases than its policy admits: one by default, n for
\* a shared one, any number when unlimited.
THEOREM CapsHold == Spec => []HolderCap
<1>1. Init => HolderCap
  BY DEF Init, HolderCap, Pooled
<1>2. /\ Consistent /\ Consistent' /\ LeasesCounted /\ LeasedStaysPooled /\ HolderCap
      /\ [Next]_vars
      => HolderCap'
  BY NextCap
<1> QED
  BY <1>1, <1>2, AlwaysConsistent, LeasesAreCounted, NeverRemovedInUse, PTL DEF Spec

-----------------------------------------------------------------------------
(* The lock service.                                                       *)

\* The statements of the repository are their effects on its tables.
USE DEF SaveRow, DeleteRows, SaveGroup, DeleteGroupRow

\* What the proof needs of a state: Consistent, and the counts.
Ready == Consistent /\ LeasesCounted

\* A resource without leases has no users.
LEMMA IdleHasNoUsers ==
  ASSUME Ready, NEW r \in Resources, holderIDs(r) = {}
  PROVE  Promise!Using(r) = {}
<1> SUFFICES ASSUME NEW c \in Callers, pc[c] = "holding", lease[c] = r PROVE FALSE
  BY NoneIsNothing DEF Promise!Using, uses
<1> QED BY HeldIsCounted DEF Ready, Consistent

\* An unbound task has nothing locked to it.
LEMMA UnboundHasNoLock ==
  ASSUME Ready, up, NEW t \in Tasks, Bound(t) = None
  PROVE  \A s \in Resources : lockedBy[s] # t
<1>1. bindings[t] = None
  BY BoundIsBinding DEF Ready, Consistent, TypeOK
<1>2. \A s \in Resources : ~(Pooled(s) /\ pool[s].owner = t)
  BY <1>1, NoneIsNothing DEF Ready, Consistent, BindingsMatchOwners
<1> QED BY <1>2, NoneIsNothing DEF lockedBy, Owner, Ready, Consistent, StoreAgrees, Pooled

\* A step that leaves the rows and the held leases alone.
LEMMA Stutters ==
  ASSUME \A r \in Resources : Owner(storeRows', r) = Owner(storeRows, r),
         \A c \in Callers : /\ pc'[c] = "holding" <=> pc[c] = "holding"
                            /\ pc[c] = "holding" => lease'[c] = lease[c] /\ req'[c] = req[c]
  PROVE  UNCHANGED <<lockedBy, uses>>
  BY DEF lockedBy, uses

\* A granted lease is a new use.
LEMMA GrantIsUse ==
  ASSUME Ready, NEW c \in Callers, NEW r \in Resources, pc[c] = "ready", GrantLease(c, r)
  PROVE  uses[c] = None /\ Promise!Use(c, req[c].task, r)
<1>1. uses[c] = None
  BY DEF uses
<1>2. uses' = [uses EXCEPT ![c] = [task |-> req[c].task, resource |-> r]]
  BY DEF uses, GrantLease, Ready, Consistent, TypeOK, CallsOK
<1> QED BY <1>1, <1>2 DEF Promise!Use

\* A pass shares, locks, lets the owner in, or changes nothing.
LEMMA PassImplements ==
  ASSUME Ready, NEW c \in Callers, Pass(c)
  PROVE  [Promise!Next]_<<lockedBy, uses>>
<1> DEFINE t == req[c].task
<1> USE DEF Ready
<1>1. up /\ t \in Tasks /\ pc[c] = "ready" /\ TablesOK /\ storeRows = pool
  BY RequestFields DEF Pass, PassCancelled, PassPinUnresolved, PassRefused, PassFails,
     PassOwnResource, PassRotates, PassLocks, PassParks, PassProceeds, PassBegins, TypeOK,
     CallsOK, Consistent, StoreAgrees
<1>2. CASE PassOwnResource(c)
  <2> DEFINE r == Bound(t)
  <2>1. r \in Resources /\ Pooled(r) /\ r = bindings[t] /\ holderIDs(r) = {}
    BY <1>1, <1>2, BoundIsPooled DEF PassOwnResource
  <2>2. lockedBy[r] = t
    BY <1>1, <2>1 DEF lockedBy, Owner, Consistent, BindingsMatchOwners, Pooled
  <2>3. Promise!UseOwn(c, t, r)
    <3>1. UNCHANGED lockedBy
      BY <1>2 DEF PassOwnResource, lockedBy, store
    <3>2. uses[c] = None /\ Promise!Use(c, t, r) /\ Promise!Using(r) = {}
      BY <1>1, <1>2, <2>1, GrantIsUse, IdleHasNoUsers DEF PassOwnResource
    <3> QED BY <2>2, <3>1, <3>2 DEF Promise!UseOwn
  <2> QED BY <1>1, <2>1, <2>3 DEF Promise!Next
<1>3. ASSUME NEW r \in Resources, PassRotates(c, r) PROVE Promise!Next
  <2>1. lockedBy[r] = None /\ UNCHANGED lockedBy
    BY <1>1, <1>3 DEF PassRotates, Candidates, lockedBy, Owner, store
  <2>2. Promise!Share(c, t, r)
    BY <1>1, <1>3, <2>1, GrantIsUse, UnboundHasNoLock DEF PassRotates, Promise!Share
  <2> QED BY <1>1, <2>2 DEF Promise!Next
<1>4. ASSUME NEW r \in Resources, PassLocks(c, r) PROVE Promise!Next
  <2>1. /\ Pooled(r) /\ pool[r] \in Rows /\ holderIDs(r) = {} /\ lockedBy[r] = None
    BY <1>1, <1>4 DEF PassLocks, Candidates, Members, lockedBy, Owner, TablesOK, Pooled
  <2>2. [pool[r] EXCEPT !.owner = t] \in Rows
    BY <1>1, <2>1, RowWithOwner DEF Owners
  <2>3. lockedBy' = [lockedBy EXCEPT ![r] = t]
    BY <1>1, <1>4, <2>1, <2>2, NoneIsNothing DEF PassLocks, lockedBy, Owner, TablesOK, Rows
  <2>4. Promise!Lock(c, t, r)
    BY <1>1, <1>4, <2>1, <2>3, GrantIsUse, UnboundHasNoLock, IdleHasNoUsers
       DEF PassLocks, Promise!Lock
  <2> QED BY <1>1, <2>4 DEF Promise!Next
<1>5. ASSUME UNCHANGED <<store, lease>>,
             EndCall(c) \/ (pc' = [pc EXCEPT ![c] = "parked"] /\ req' = req)
      PROVE  UNCHANGED <<lockedBy, uses>>
  <2>1. \A d \in Callers : /\ pc'[d] = "holding" <=> pc[d] = "holding"
                           /\ pc[d] = "holding" => lease'[d] = lease[d] /\ req'[d] = req[d]
    BY <1>1, <1>5 DEF EndCall, Consistent, TypeOK, CallsOK
  <2> QED BY <1>5, <2>1, Stutters DEF store
<1> QED
  BY <1>2, <1>3, <1>4, <1>5 DEF Pass, PassCancelled, PassPinUnresolved, PassRefused,
     PassFails, PassParks, EndCall

\* Removing rows without leases removes resources without users.
LEMMA RemoveImplements ==
  ASSUME Ready, up, NEW gone \in SUBSET Resources, RemoveRows(gone),
         \A r \in gone : holderIDs(r) = {},
         pc' \in {pc, Broadcast(pc)}, UNCHANGED <<req, lease>>
  PROVE  Promise!Next
<1>1. \A c \in Callers : pc'[c] = "holding" <=> pc[c] = "holding"
  BY BroadcastHolds DEF Ready, Consistent
<1>2. UNCHANGED uses
  BY <1>1 DEF uses
<1>3. lockedBy' = [r \in Resources |-> IF r \in gone THEN None ELSE lockedBy[r]]
  BY DEF RemoveRows, lockedBy, Owner
<1>4. Promise!Remove(gone)
  BY <1>2, <1>3, IdleHasNoUsers DEF Promise!Remove
<1> QED BY <1>4 DEF Promise!Next

\* Every step of the manager is one of the lock service.
LEMMA NextImplements ==
  ASSUME Ready, [Next]_vars
  PROVE  [Promise!Next]_<<lockedBy, uses>>
<1> USE DEF Ready
<1>0. TypeOK /\ TablesOK /\ CallsOK
  BY DEF Consistent, TypeOK
<1>1. CASE UNCHANGED <<storeRows, pc, req, lease>>
  BY <1>1, Stutters
<1>2. CASE pc' = Broadcast(pc) /\ UNCHANGED <<storeRows, req, lease>>
  BY <1>0, <1>2, Stutters, BroadcastHolds
<1>3. ASSUME NEW c \in Callers, CallStep(c) PROVE [Promise!Next]_<<lockedBy, uses>>
  <2>1. ASSUME NEW q \in Requests, Request(c, q) PROVE UNCHANGED <<lockedBy, uses>>
    <3>1. \A d \in Callers : /\ pc'[d] = "holding" <=> pc[d] = "holding"
                             /\ pc[d] = "holding" => lease'[d] = lease[d] /\ req'[d] = req[d]
      BY <1>0, <2>1 DEF Request, CallsOK
    <3> QED BY <2>1, <3>1, Stutters DEF Request, store
  <2>2. CASE Cancel(c) \/ Watch(c)
    BY <1>1, <1>2, <2>2 DEF Cancel, Watch, store
  <2>3. CASE ReleaseAgain(c)
    <3>1. \A d \in Callers : /\ pc'[d] = "holding" <=> pc[d] = "holding"
                             /\ pc[d] = "holding" => lease'[d] = lease[d] /\ req'[d] = req[d]
      BY <1>0, <2>3 DEF ReleaseAgain, CallsOK
    <3> QED BY <2>3, <3>1, Stutters DEF ReleaseAgain, store
  <2>4. CASE Release(c)
    <3>1. \A d \in Callers : pc'[d] = "holding" <=> pc[d] = "holding" /\ d # c
      BY <1>0, <2>4 DEF Release, Broadcast, CallsOK
    <3>2. uses' = [uses EXCEPT ![c] = None]
      BY <2>4, <3>1 DEF Release, uses
    <3>3. UNCHANGED lockedBy
      BY <2>4 DEF Release, lockedBy, store
    <3>4. Promise!Return(c)
      BY <3>2, <3>3 DEF Promise!Return
    <3> QED BY <3>4 DEF Promise!Next
  <2> QED BY <1>3, <2>1, <2>2, <2>3, <2>4, PassImplements DEF CallStep
<1>4. ASSUME NEW t \in Tasks, LockStep(t) PROVE [Promise!Next]_<<lockedBy, uses>>
  <2>1. unlock(t)
    BY <1>4 DEF LockStep, Unlock, ReleaseStaleLock
  <2>2. CASE Bound(t) = None
    BY <1>1, <2>1, <2>2 DEF unlock, store, calls
  <2>3. CASE Bound(t) # None
    <3> DEFINE b == Bound(t)
               row == [pool[b] EXCEPT !.owner = None]
    <3>1. b \in Resources /\ Pooled(b) /\ row \in Rows /\ row.owner = None
      <4>1. b \in Resources /\ Pooled(b) /\ pool[b] \in Rows
        BY <1>0, <2>3, BoundIsPooled DEF TablesOK, Pooled
      <4>2. row \in Rows
        BY <1>0, <4>1, RowWithOwner DEF Owners
      <4> QED BY <4>1, <4>2 DEF Rows
    <3>2. storeRows' = [storeRows EXCEPT ![b] = row] /\ pc' = Broadcast(pc)
          /\ UNCHANGED <<req, lease>>
      BY <2>1, <2>3 DEF unlock
    <3>3. lockedBy' = [lockedBy EXCEPT ![b] = None]
      <4>1. row # None
        BY <3>1, NoneIsNothing
      <4>2. storeRows'[b] = row /\ \A s \in Resources : s # b => storeRows'[s] = storeRows[s]
        BY <1>0, <3>1, <3>2 DEF TablesOK
      <4>3. Owner(storeRows', b) = None
        BY <3>1, <4>1, <4>2 DEF Owner
      <4>4. \A s \in Resources : s # b => Owner(storeRows', s) = Owner(storeRows, s)
        BY <4>2 DEF Owner
      <4> HIDE DEF b
      <4> QED BY <3>1, <4>3, <4>4 DEF lockedBy
    <3>4. UNCHANGED uses
      BY <1>0, <3>2, BroadcastHolds DEF uses
    <3>5. Promise!GiveUp(b)
      BY <3>3, <3>4 DEF Promise!GiveUp
    <3> QED BY <3>1, <3>5 DEF Promise!Next
  <2> QED BY <2>2, <2>3
<1>5. CASE InventoryStep
  <2>1. ASSUME NEW g \in Groups, CreateGroup(g) PROVE UNCHANGED <<lockedBy, uses>>
    BY <1>1, <2>1 DEF CreateGroup, calls, lockedBy, uses
  <2>2. ASSUME NEW g \in Groups, DeleteGroup(g) PROVE Promise!Next
    BY <2>2, RemoveImplements DEF DeleteGroup, DeleteGroupAdmits, Members
  <2>3. ASSUME NEW g \in Groups, NEW gone \in SUBSET Members(g), DeleteGroupStops(g, gone)
        PROVE  Promise!Next
    BY <2>3, RemoveImplements DEF DeleteGroupStops, DeleteGroupAdmits, Members
  <2>4. ASSUME NEW r \in Resources, NEW g \in Groups, NEW n \in Policies, Add(r, g, n)
        PROVE  UNCHANGED <<lockedBy, uses>>
    <3> DEFINE row == [group |-> g, owner |-> None, policy |-> n]
    <3>1. row \in Rows /\ row.owner = None
      BY DEF Rows, Owners
    <3>2. storeRows[r] = None
      BY <2>4 DEF Add, Pooled, Consistent, StoreAgrees
    <3>3. \A s \in Resources : Owner(storeRows', s) = Owner(storeRows, s)
      BY <1>0, <2>4, <3>1, <3>2, NoneIsNothing DEF Add, Owner, TablesOK
    <3> QED BY <1>0, <2>4, <3>3, Stutters, BroadcastHolds DEF Add
  <2>5. ASSUME NEW r \in Resources, Delete(r) PROVE Promise!Next
    BY <2>5, RemoveImplements DEF Delete
  <2> QED BY <1>5, <2>1, <2>2, <2>3, <2>4, <2>5 DEF InventoryStep
<1>6. CASE Crash
  <2>1. Promise!Lose
    BY <1>6 DEF Crash, NoManager, Promise!Lose, lockedBy, uses, store
  <2> QED BY <2>1 DEF Promise!Next
<1> QED
  BY <1>1, <1>3, <1>4, <1>5, <1>6 DEF Next, Restart, RestartStops, vars, memory, calls, store

\* The manager implements the lock service: a lock is taken only on an unlocked,
\* unused resource for a task without one, survives crashes and restarts, lets
\* its owner in once at a time, and ends only by Unlock, ReleaseStaleLock or
\* removal; no other write of any operation touches it.
THEOREM Implements == Spec => ImplementsLockService
<1>1. Init => Promise!Init
  <2> SUFFICES ASSUME Init PROVE Promise!Init
    OBVIOUS
  <2>1. lockedBy \in [Resources -> Tasks \cup {None}]
    BY DEF Init, lockedBy, Owner, Rows, Owners
  <2>2. uses = [c \in Callers |-> None]
    BY DEF Init, uses
  <2> QED BY <2>1, <2>2 DEF Promise!Init
<1>2. Ready /\ [Next]_vars => [Promise!Next]_<<lockedBy, uses>>
  BY NextImplements
<1>3. Consistent /\ LeasesCounted => Ready
  BY DEF Ready
<1> QED
  BY <1>1, <1>2, <1>3, AlwaysConsistent, LeasesAreCounted, PTL
     DEF Spec, ImplementsLockService, Promise!Spec, Promise!vars

=============================================================================
