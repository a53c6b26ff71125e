----------------------------- MODULE TaskManager -----------------------------
(***************************************************************************)
(* The task manager (tasks/manager.go) over several tasks: its registry of *)
(* handles, its cache of task groups, the repository behind both, and the  *)
(* durable locks that the leasing managers of each kind of resource hold   *)
(* for its tasks.                                                          *)
(*                                                                         *)
(* CreateTask, RecoverTask, AssignResource, DeleteTask and DeleteGroup     *)
(* hold the registry's mutex from beginning to end: op is the call that    *)
(* has it, and each thing the call does to an engine, the store or a       *)
(* leasing manager is a step.  The runs take no part in that mutex; they   *)
(* are those of Engine, reduced to what the manager and its tasks can see  *)
(* of each other: live or not, sealed or not, what the record says, which  *)
(* locks are held.  Only UpdateGroup and CreateGroup, which take the       *)
(* cache's mutex, DeleteGroup's first look at the cache, and RecoverAll,   *)
(* which reads before it takes any mutex, run beside op.                   *)
(***************************************************************************)
EXTENDS Naturals, FiniteSets

CONSTANTS
  Tasks,        \* task ids
  MaxHandles,   \* bound: handles built of one task
  Kinds,        \* the kinds of resource with a manager
  Pools,        \* the resource groups, the same names for every kind
  Resources,    \* the resources, the same names for every kind
  PoolOf,       \* the resource group of each resource
  Groups,       \* task group ids
  Global,       \* the task group that needs no record
  Assignments,  \* what callers assign to a task
  Placements,   \* what callers assign to a task group: Kinds -> Pools or None
  Failing,      \* the operations of the stores that may fail
  CanCrash,     \* the process may crash
  Races,        \* what callers do not order, see "Callers" below
  None,         \* no record, no handle; "" as a group or resource name
  Inherit       \* no resource group of the task's own: nil

ASSUME GlobalGroupAssumption == Global \in Groups
ASSUME PoolOfAssumption == PoolOf \in [Resources -> Pools]
ASSUME HandlesAssumption == MaxHandles \in Nat \ {0}
ASSUME AssignmentsAssumption ==
  Assignments \subseteq [pool: Pools \cup {None, Inherit}, pin: Resources \cup {None}]
ASSUME PlacementsAssumption == Placements \subseteq [Kinds -> Pools \cup {None}]
ASSUME FailingAssumption ==
  Failing \subseteq {"unlock", "delete task", "delete group"} /\ CanCrash \in BOOLEAN
ASSUME RacesAssumption == Races \subseteq {"sweep", "update", "delete"}
Handles == Tasks \X (1 .. MaxHandles)

ASSUME NoneTaskAssumption ==
  /\ {None, Inherit} \cap (Pools \cup Resources \cup Groups) = {} /\ None # Inherit
  /\ None \notin Handles /\ None \notin [Kinds -> Pools \cup {None}]

\* The resource group and the pin a run leases under.
Wirings == [Kinds -> [pool: Pools \cup {None}, pin: Resources \cup {None}]]
NoWiring == [k \in Kinds |-> [pool |-> None, pin |-> None]]
NoPools == [k \in Kinds |-> None]

\* "unstarted" handles can be started; "starting" runs have no checkpoint of
\* their own yet; "ending" runs have settled their outcome and not stamped it;
\* "over" handles drive nothing any more, or never will.
HandleRecords ==
  [life: {"unborn", "unstarted", "starting", "running", "ending", "over"},
   sealed: BOOLEAN, wired: Wirings]

\* A "fresh" record has no checkpoint, an "ended" one a terminal outcome.
Rows ==
  [group: Groups, status: {"fresh", "saved", "ended"},
   own: [Kinds -> [pool: Pools \cup {None, Inherit}, pin: Resources \cup {None}]]]

ASSUME NoneRowAssumption == None \notin Rows

Idle == [pc |-> "idle"]

Calls ==
  {Idle}
  \cup [pc: {"recovering"}, task: Tasks, row: Rows \cup {None}]
  \cup [pc: {"assigning"}, task: Tasks, kind: Kinds,
        place: [pool: Pools \cup {None}, pin: Resources \cup {None}]]
  \cup [pc: {"sealing", "releasing", "deleting", "ungrouping", "uncaching"},
        group: Groups \cup {None}, ids: SUBSET Tasks, todo: SUBSET Tasks,
        sealed: SUBSET Handles]

VARIABLES
  handles,      \* the Task values handed out, numbered in the order they were built
  registry,     \* taskRegistry: task -> its handle, or None
  rows,         \* the task records in the repository, or None
  groups,       \* the cache of task groups, or None
  storeGroups,  \* the task group records in the repository, or None
  locked,       \* per kind: task -> the resource durably locked to it, or None
  op,           \* the call that holds taskRegistryMu
  sweep,        \* a RecoverAll before it takes taskRegistryMu: what it read
  asked         \* the DeleteGroups that found their group and wait for taskRegistryMu

vars == <<handles, registry, rows, groups, storeGroups, locked, op, sweep, asked>>
groupVars == <<groups, storeGroups>>

GroupTables == [Groups -> [Kinds -> Pools \cup {None}] \cup {None}]
Sweeps == {Idle} \cup [rows: [Tasks -> Rows \cup {None}], groups: GroupTables \cup {None}]

TypeOK ==
  /\ handles \in [Handles -> HandleRecords]
  /\ registry \in [Tasks -> Handles \cup {None}]
  /\ \A t \in Tasks : registry[t] # None => registry[t][1] = t
  /\ rows \in [Tasks -> Rows \cup {None}]
  /\ groups \in GroupTables /\ storeGroups \in GroupTables
  /\ groups[Global] # None
  /\ locked \in [Kinds -> [Tasks -> Resources \cup {None}]]
  /\ op \in Calls /\ sweep \in Sweeps /\ asked \subseteq Groups \ {Global}

-----------------------------------------------------------------------------
(* The repository: a table of tasks and one of task groups.  A statement is  *)
(* atomic; one that finds no row to change reports ErrTaskNotFound.          *)

InsertTask(t, row) == rows[t] = None /\ rows' = [rows EXCEPT ![t] = row]

SaveAssignment(t, k, a) == rows[t] # None /\ rows' = [rows EXCEPT ![t].own[k] = a]

SaveCheckpoint(t) == rows[t] # None /\ rows' = [rows EXCEPT ![t].status = "saved"]

MarkTerminal(t, status) == rows[t] # None /\ rows' = [rows EXCEPT ![t].status = status]

\* Deleting what is not there is no error.
DropTask(t) == rows' = [rows EXCEPT ![t] = None]

TasksInGroup(g) == {t \in Tasks : rows[t] # None /\ rows[t].group = g}

StoreGroup(g, placement) == storeGroups' = [storeGroups EXCEPT ![g] = placement]

\* Nothing cascades: the members are the manager's to delete.
DropGroup(g) == storeGroups' = [storeGroups EXCEPT ![g] = None]

-----------------------------------------------------------------------------
(* Placement.                                                              *)

resolve(own, group, k) ==
  [pool |-> IF own.pool = Inherit THEN group[k] ELSE own.pool, pin |-> own.pin]

resolveAll(own, group) == [k \in Kinds |-> resolve(own[k], group, k)]

\* fits of the leasing manager: a placement still describes a locked resource.
Fits(place, r) == IF place.pin # None THEN place.pin = r ELSE place.pool = PoolOf[r]

-----------------------------------------------------------------------------
(* Handles and the registry.                                               *)

TaskHandles(t) == {h \in Handles : h[1] = t}
Live(h) == handles[h].life \in {"starting", "running"}
RegisteredLive(t) == registry[t] # None /\ Live(registry[t])

Built(t) == Cardinality({h \in TaskHandles(t) : handles[h].life # "unborn"})
CanBuild(t) == Built(t) < MaxHandles
NewHandle(t) == <<t, Built(t) + 1>>

\* Slip: a terminal outcome is not looked at.
RehydratedEnded(row, group) ==
  [life |-> IF row.status = "fresh" THEN "over" ELSE "unstarted", sealed |-> FALSE,
   wired |-> resolveAll(row.own, group)]

\* Only a checkpointed task without a terminal outcome can be started again.
Rehydrated(row, group) ==
  IF row.status = "saved"
  THEN [life |-> "unstarted", sealed |-> FALSE, wired |-> resolveAll(row.own, group)]
  ELSE [life |-> "over", sealed |-> FALSE, wired |-> NoWiring]

\* Nothing of a spent handle matters but that it is spent.
Retire(h) ==
  [handles EXCEPT ![h] = [life |-> "over", sealed |-> FALSE, wired |-> NoWiring]]

\* Several tasks enter the registry at once: their handles are new.
Register(new) ==
  /\ handles' = [h \in Handles |->
       IF h[1] \in DOMAIN new /\ h = NewHandle(h[1]) THEN new[h[1]] ELSE handles[h]]
  /\ registry' = [t \in Tasks |-> IF t \in DOMAIN new THEN NewHandle(t) ELSE registry[t]]

\* Slip: the global group is only what the store says.
LoadedPlainly(stored) == stored

\* NewManager: the cache is loaded once; the global group is always there.
Loaded(stored) ==
  [g \in Groups |-> IF g = Global /\ stored[g] = None THEN NoPools ELSE stored[g]]

Init ==
  /\ handles = [h \in Handles |->
       [life |-> "unborn", sealed |-> FALSE, wired |-> NoWiring]]
  /\ registry = [t \in Tasks |-> None]
  /\ rows = [t \in Tasks |-> None]
  /\ storeGroups = [g \in Groups |-> None]
  /\ groups = Loaded(storeGroups)
  /\ locked = [k \in Kinds |-> [t \in Tasks |-> None]]
  /\ op = Idle
  /\ sweep = Idle
  /\ asked = {}

-----------------------------------------------------------------------------
(* Callers.  They start only the handle of a task that was built last, and  *)
(* recover a task once its earlier runs have returned: the manager does not *)
(* see to it (run engine_recovered_while_ending shows what follows).  Three *)
(* more restrictions hold unless Races says otherwise:                      *)
(* "sweep": RecoverAll runs beside other calls, not only at startup;        *)
(* "update": a task group is edited while it is being deleted;              *)
(* "delete": a task group is deleted while it is being deleted.             *)

Sweeping == sweep # Idle
Quiet == "sweep" \notin Races => ~Sweeping
Startup == op = Idle /\ asked = {} /\ \A h \in Handles : handles[h].life \in {"unborn", "over"}

MayStart(h) == registry[h[1]] = h /\ ~(op.pc = "recovering" /\ op.task = h[1])
MayRecover(t) == \A h \in TaskHandles(t) : ~Live(h) /\ handles[h].life # "ending"
Cascading(g) ==
  /\ op.pc \in {"sealing", "releasing", "deleting", "ungrouping", "uncaching"}
  /\ op.group = g
MayDelete(g) == "delete" \notin Races => ~Cascading(g)
MayUpdate(g) ==
  "update" \notin Races => ~(op.pc \in {"ungrouping", "uncaching"} /\ op.group = g)

-----------------------------------------------------------------------------
(* Creation and recovery.                                                  *)

\* The group is resolved and the record inserted before the task is registered;
\* groups leave the cache only under the registry's mutex.
CreateTask(t, g, own) ==
  /\ op = Idle /\ Quiet
  /\ Built(t) = 0
  /\ groups[g] # None
  /\ InsertTask(t, [group |-> g, status |-> "fresh", own |-> own])
  /\ Register([s \in {t} |->
       [life |-> "unstarted", sealed |-> FALSE, wired |-> resolveAll(own, groups[g])]])
  /\ UNCHANGED <<groupVars, locked, op, sweep, asked>>

\* A live task is returned as it is, with no further step.
RecoverChecks(t) ==
  /\ op = Idle /\ Quiet /\ MayRecover(t) /\ CanBuild(t)
  /\ ~RegisteredLive(t)
  /\ op' = [pc |-> "recovering", task |-> t, row |-> None]
  /\ UNCHANGED <<handles, registry, rows, groupVars, locked, sweep, asked>>

RecoverReads ==
  /\ op.pc = "recovering" /\ op.row = None
  /\ op' = IF rows[op.task] = None THEN Idle ELSE [op EXCEPT !.row = rows[op.task]]
  /\ UNCHANGED <<handles, registry, rows, groupVars, locked, sweep, asked>>

\* A record whose group is missing cannot be recovered.
RecoverRegisters ==
  /\ op.pc = "recovering" /\ op.row # None
  /\ IF groups[op.row.group] = None
     THEN UNCHANGED <<handles, registry>>
     ELSE Register([s \in {op.task} |-> Rehydrated(op.row, groups[op.row.group])])
  /\ op' = Idle
  /\ UNCHANGED <<rows, groupVars, locked, sweep, asked>>

\* RecoverAll reads the records, then the groups, then takes the mutex.
SweepReads ==
  /\ ~Sweeping
  /\ "sweep" \notin Races => Startup
  /\ sweep' = [rows |-> rows, groups |-> None]
  /\ UNCHANGED <<handles, registry, rows, groupVars, locked, op, asked>>

SweepReadsGroups ==
  /\ Sweeping /\ sweep.groups = None
  /\ sweep' = [sweep EXCEPT !.groups = groups]
  /\ UNCHANGED <<handles, registry, rows, groupVars, locked, op, asked>>

\* Live tasks are skipped.  A record with a missing group ends the sweep where
\* it stands; the tasks before it, in no particular order, are registered.
SweepRegisters ==
  /\ Sweeping /\ sweep.groups # None
  /\ op = Idle
  /\ LET due == {t \in Tasks : sweep.rows[t] # None /\ ~RegisteredLive(t)}
         placed == {t \in due : sweep.groups[sweep.rows[t].group] # None}
     IN  /\ \A t \in due : CanBuild(t)
         /\ \E done \in SUBSET placed :
              /\ placed = due => done = due
              /\ Register([t \in done |->
                   Rehydrated(sweep.rows[t], sweep.groups[sweep.rows[t].group])])
  /\ sweep' = Idle
  /\ UNCHANGED <<rows, groupVars, locked, op, asked>>

-----------------------------------------------------------------------------
(* Reassignment: the record first, then the lock it no longer fits.        *)

AssignSaves(t, k, a) ==
  /\ op = Idle /\ Quiet
  /\ rows[t] # None /\ groups[rows[t].group] # None
  /\ SaveAssignment(t, k, a)
  /\ op' = [pc |-> "assigning", task |-> t, kind |-> k,
            place |-> resolve(a, groups[rows[t].group], k)]
  /\ UNCHANGED <<handles, registry, groupVars, locked, sweep, asked>>

AssignReleases ==
  /\ op.pc = "assigning"
  /\ LET held == locked[op.kind][op.task]
         stale == held # None /\ ~Fits(op.place, held)
     IN  \/ /\ stale
            /\ locked' = [locked EXCEPT ![op.kind][op.task] = None]
         \/ /\ stale => "unlock" \in Failing
            /\ UNCHANGED locked
  /\ op' = Idle
  /\ UNCHANGED <<handles, registry, rows, groupVars, sweep, asked>>

-----------------------------------------------------------------------------
(* Deletion of a task, or of a group with every member: seal all, release   *)
(* all, then delete.                                                        *)

BeginDeletion(ids, g) ==
  /\ op = Idle /\ Quiet
  /\ op' = [pc |-> "sealing", group |-> g, ids |-> ids, todo |-> ids, sealed |-> {}]
  /\ UNCHANGED <<handles, registry, rows, groupVars, locked, sweep>>

DeleteTask(t) == BeginDeletion({t}, None) /\ UNCHANGED asked

\* The cache is looked at first, under its own mutex.  Two calls that wait for the
\* same group are one in asked: the second may as well look once the first is on.
LookUpGroup(g) ==
  /\ Quiet /\ MayDelete(g)
  /\ g # Global /\ groups[g] # None
  /\ asked' = asked \cup {g}
  /\ UNCHANGED <<handles, registry, rows, groupVars, locked, op, sweep>>

\* The store lists the members under the registry's mutex; whether the group is
\* still there is not looked at again.
DeleteGroup(g) ==
  /\ g \in asked
  /\ asked' = asked \ {g}
  /\ BeginDeletion(TasksInGroup(g), g)

unsealAll(hs) == [h \in Handles |-> [handles[h] EXCEPT !.sealed = @ /\ h \notin hs]]

\* Slip: the members sealed before the one that refuses stay sealed.
SealOrStop(t) ==
  /\ op.pc = "sealing" /\ t \in op.todo
  /\ \/ /\ RegisteredLive(t)
        /\ op' = Idle /\ UNCHANGED handles
     \/ /\ registry[t] # None /\ ~Live(registry[t])
        /\ op' = [op EXCEPT !.todo = @ \ {t}, !.sealed = @ \cup {registry[t]}]
        /\ handles' = [handles EXCEPT ![registry[t]].sealed = TRUE]
  /\ UNCHANGED <<registry, rows, groupVars, locked, sweep, asked>>

\* A task the registry does not know has nothing to seal; a live one refuses.
SealNext(t) ==
  /\ op.pc = "sealing" /\ t \in op.todo
  /\ \/ /\ registry[t] = None
        /\ op' = [op EXCEPT !.todo = @ \ {t}]
        /\ UNCHANGED handles
     \/ /\ registry[t] # None /\ ~Live(registry[t])
        /\ op' = [op EXCEPT !.todo = @ \ {t}, !.sealed = @ \cup {registry[t]}]
        /\ handles' = [handles EXCEPT ![registry[t]].sealed = TRUE]
     \/ /\ RegisteredLive(t)
        /\ op' = Idle
        /\ handles' = unsealAll(op.sealed)
  /\ UNCHANGED <<registry, rows, groupVars, locked, sweep, asked>>

\* Slip: the deletion goes on when a kind fails.
ReleaseRegardless(t) ==
  /\ op.pc = "releasing" /\ t \in op.todo
  /\ \E failed \in SUBSET {k \in Kinds : locked[k][t] # None} :
       /\ failed # {} => "unlock" \in Failing
       /\ locked' = [k \in Kinds |->
            IF k \in failed THEN locked[k] ELSE [locked[k] EXCEPT ![t] = None]]
  /\ op' = [op EXCEPT !.todo = @ \ {t}]
  /\ UNCHANGED <<handles, registry, rows, groupVars, sweep, asked>>

\* Every kind is tried, whichever fail; one failure abandons the deletion.
ReleaseNext(t) ==
  /\ op.pc = "releasing" /\ t \in op.todo
  /\ \E failed \in SUBSET {k \in Kinds : locked[k][t] # None} :
       /\ failed # {} => "unlock" \in Failing
       /\ locked' = [k \in Kinds |->
            IF k \in failed THEN locked[k] ELSE [locked[k] EXCEPT ![t] = None]]
       /\ IF failed = {}
          THEN op' = [op EXCEPT !.todo = @ \ {t}] /\ UNCHANGED handles
          ELSE op' = Idle /\ handles' = unsealAll(op.sealed)
  /\ UNCHANGED <<registry, rows, groupVars, sweep, asked>>

\* The registry forgets the task even when its record cannot be deleted.  Its
\* handle stays sealed for ever: one not yet started never will be.
DeleteNext(t) ==
  /\ op.pc = "deleting" /\ t \in op.todo
  /\ registry' = [registry EXCEPT ![t] = None]
  /\ handles' = IF registry[t] # None /\ handles[registry[t]].life \in {"unstarted", "over"}
                THEN Retire(registry[t]) ELSE handles
  /\ \/ /\ DropTask(t)
        /\ op' = [op EXCEPT !.todo = @ \ {t}]
     \/ /\ "delete task" \in Failing
        /\ op' = Idle
        /\ UNCHANGED rows
  /\ UNCHANGED <<groupVars, locked, sweep, asked>>

NextPhase ==
  /\ op.pc \in {"sealing", "releasing", "deleting"} /\ op.todo = {}
  /\ op' = CASE op.pc = "sealing" -> [op EXCEPT !.pc = "releasing", !.todo = op.ids]
             [] op.pc = "releasing" -> [op EXCEPT !.pc = "deleting", !.todo = op.ids]
             [] OTHER -> IF op.group = None THEN Idle ELSE [op EXCEPT !.pc = "ungrouping"]
  /\ UNCHANGED <<handles, registry, rows, groupVars, locked, sweep, asked>>

Ungroup ==
  /\ op.pc = "ungrouping"
  /\ \/ /\ DropGroup(op.group)
        /\ op' = [op EXCEPT !.pc = "uncaching"]
     \/ /\ "delete group" \in Failing
        /\ op' = Idle
        /\ UNCHANGED storeGroups
  /\ UNCHANGED <<handles, registry, rows, groups, locked, sweep, asked>>

\* Slip: the group stays in the cache.
UncacheNot ==
  /\ op.pc = "uncaching"
  /\ op' = Idle
  /\ UNCHANGED <<handles, registry, rows, groupVars, locked, sweep, asked>>

Uncache ==
  /\ op.pc = "uncaching"
  /\ groups' = [groups EXCEPT ![op.group] = None]
  /\ op' = Idle
  /\ UNCHANGED <<handles, registry, rows, storeGroups, locked, sweep, asked>>

-----------------------------------------------------------------------------
(* Task groups: written to the store, then to the cache, under its mutex.  *)

SaveGroup(g, placement) ==
  /\ StoreGroup(g, placement)
  /\ groups' = [groups EXCEPT ![g] = placement]
  /\ UNCHANGED <<handles, registry, rows, locked, op, sweep, asked>>

CreateGroup(g, placement) ==
  Quiet /\ g # Global /\ groups[g] = None /\ SaveGroup(g, placement)

\* The global group gains its record with its first update.
UpdateGroup(g, placement) ==
  Quiet /\ MayUpdate(g) /\ groups[g] # None /\ SaveGroup(g, placement)

-----------------------------------------------------------------------------
(* Runs, as the manager sees them.                                         *)

\* Slip: Start does not look at the seal.
StartSealed(h) ==
  /\ handles[h].life = "unstarted" /\ MayStart(h)
  /\ handles' = [handles EXCEPT ![h].life = "starting"]
  /\ UNCHANGED <<registry, rows, groupVars, locked, op, sweep, asked>>

\* Start does not go through the manager.
Start(h) ==
  /\ handles[h].life = "unstarted" /\ MayStart(h)
  /\ ~handles[h].sealed
  /\ handles' = [handles EXCEPT ![h].life = "starting"]
  /\ UNCHANGED <<registry, rows, groupVars, locked, op, sweep, asked>>

\* A kill latched before Start.
KillUnstarted(h) ==
  /\ handles[h].life = "unstarted"
  /\ handles' = Retire(h)
  /\ UNCHANGED <<registry, rows, groupVars, locked, op, sweep, asked>>

\* The checkpoint before a state; a run without a record cannot make it.
Checkpoint(h) ==
  /\ Live(h)
  /\ SaveCheckpoint(h[1])
  /\ handles' = [handles EXCEPT ![h].life = "running"]
  /\ UNCHANGED <<registry, groupVars, locked, op, sweep, asked>>

\* A handler locks the resource it leases, for as long as its context is alive.
Lock(h, k, r) ==
  LET t == h[1]  place == handles[h].wired[k] IN
    /\ handles[h].life = "running"
    /\ locked[k][t] = None
    /\ place.pool = PoolOf[r] /\ place.pin \in {None, r}
    /\ \A s \in Tasks : locked[k][s] # r
    /\ locked' = [locked EXCEPT ![k][t] = r]
    /\ UNCHANGED <<handles, registry, rows, groupVars, op, sweep, asked>>

Unlock(h, k) ==
  /\ handles[h].life = "running" /\ locked[k][h[1]] # None
  /\ locked' = [locked EXCEPT ![k][h[1]] = None]
  /\ UNCHANGED <<handles, registry, rows, groupVars, op, sweep, asked>>

\* A suspended run leaves its checkpoint behind.
Detach(h) ==
  /\ handles[h].life = "running"
  /\ handles' = Retire(h)
  /\ UNCHANGED <<registry, rows, groupVars, locked, op, sweep, asked>>

\* Killed, failed or done: the outcome is settled first and stamped later.
Settle(h) ==
  /\ Live(h)
  /\ handles' = [handles EXCEPT ![h].life = "ending", ![h].wired = NoWiring]
  /\ UNCHANGED <<registry, rows, groupVars, locked, op, sweep, asked>>

\* A failed run keeps its checkpoint; a stamp may fail, or find no record.
Stamp(h) ==
  /\ handles[h].life = "ending"
  /\ handles' = Retire(h)
  /\ \/ UNCHANGED rows
     \/ /\ rows[h[1]] # None
        /\ \E outcome \in {"ended", IF rows[h[1]].status = "fresh" THEN "fresh" ELSE "saved"} :
             MarkTerminal(h[1], outcome)
  /\ UNCHANGED <<registry, groupVars, locked, op, sweep, asked>>

-----------------------------------------------------------------------------
\* The process dies and a new manager loads the groups; records and locks stay.
Crash ==
  /\ CanCrash
  /\ handles' = [h \in Handles |->
       IF handles[h].life = "unborn" THEN handles[h]
       ELSE [life |-> "over", sealed |-> FALSE, wired |-> NoWiring]]
  /\ registry' = [t \in Tasks |-> None]
  /\ groups' = Loaded(storeGroups)
  /\ op' = Idle
  /\ sweep' = Idle
  /\ asked' = {}
  /\ UNCHANGED <<rows, storeGroups, locked>>

RecoveryStep ==
  \/ \E t \in Tasks : RecoverChecks(t)
  \/ RecoverReads \/ RecoverRegisters
  \/ SweepReads \/ SweepReadsGroups \/ SweepRegisters

PlacementStep ==
  \/ \E t \in Tasks, g \in Groups, own \in [Kinds -> Assignments] : CreateTask(t, g, own)
  \/ \E t \in Tasks, k \in Kinds, a \in Assignments : AssignSaves(t, k, a)
  \/ AssignReleases
  \/ \E g \in Groups, p \in Placements : CreateGroup(g, p) \/ UpdateGroup(g, p)

DeletionStep ==
  \/ \E t \in Tasks : DeleteTask(t) \/ SealNext(t) \/ ReleaseNext(t) \/ DeleteNext(t)
  \/ \E g \in Groups : DeleteGroup(g)
  \/ NextPhase \/ Ungroup \/ Uncache

HandleStep(h) ==
  \/ Start(h) \/ KillUnstarted(h) \/ Checkpoint(h) \/ Detach(h) \/ Settle(h) \/ Stamp(h)
  \/ \E k \in Kinds : Unlock(h, k) \/ \E r \in Resources : Lock(h, k, r)

Next ==
  \/ RecoveryStep \/ PlacementStep \/ DeletionStep
  \/ \E g \in Groups : LookUpGroup(g)
  \/ \E h \in Handles : HandleStep(h)
  \/ Crash

Spec == Init /\ [][Next]_vars

-----------------------------------------------------------------------------
(* Safety.                                                                 *)

\* The manager hands out no handle of a task whose record is gone: DeleteTask
\* forgets the task first, CreateTask stores it first (manager.go:319, :529).
\* IsRunning answers for every run there is, and "it refuses a running task"
\* (manager.go:88): no run is left without its record or its place.
RunsAreKnown ==
  /\ \A t \in Tasks : registry[t] # None => rows[t] # None
  /\ \A h \in Handles : Live(h) => registry[h[1]] = h /\ rows[h[1]] # None

\* "a lock left held is unleasable forever" (manager.go:537): deletion leaves
\* no lock behind, not even the one a run took while others were being sealed.
\* And no task slips past the cascade into a group that is gone (manager.go:659):
\* every record can be recovered, by this manager or by the next.
LocksHaveRecords ==
  \A k \in Kinds, t \in Tasks : locked[k][t] # None => rows[t] # None
RecordsHaveGroups ==
  \A t \in Tasks : rows[t] # None =>
    LET g == rows[t].group IN groups[g] # None /\ (g = Global \/ storeGroups[g] # None)

NoOrphans == LocksHaveRecords /\ RecordsHaveGroups

\* "so the cache and the store never diverge" (manager.go:102), but for the
\* group whose deletion is between the two.  It takes callers who neither edit
\* nor delete a group that is being deleted: tasks_update_beside_delete.cfg and
\* tasks_delete_twice.cfg show what an edit and a second deletion do.
CacheAgrees ==
  \A g \in Groups :
    \/ groups[g] = Loaded(storeGroups)[g]
    \/ op.pc = "uncaching" /\ op.group = g

-----------------------------------------------------------------------------
(* Action properties.                                                      *)

\* "so a release failure abandons the cascade with the group still whole"
\* (manager.go:684), every task it had sealed open again; the same when a
\* member turns out to be running.
AbandonedWhole ==
  [][op.pc \in {"sealing", "releasing"} /\ op'.pc = "idle" =>
       /\ \A t \in op.ids : rows'[t] = rows[t]
       /\ \A h \in op.sealed : ~handles'[h].sealed]_vars

\* Terminal tasks "recover for inspection only" (manager.go:85): a record with a
\* terminal outcome never says anything else again.
EndedStands ==
  [][\A t \in Tasks :
       (rows[t] # None /\ rows'[t] # None /\ rows[t].status = "ended")
         => rows'[t].status = "ended"]_vars

=============================================================================
