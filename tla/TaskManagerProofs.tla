------------------------- MODULE TaskManagerProofs -------------------------
(***************************************************************************)
(* Theorems about TaskManager, for every choice of its constants.  Those   *)
(* that need callers to sweep at startup only, or neither to edit nor to   *)
(* delete a group that is being deleted, say so.                           *)
(***************************************************************************)
EXTENDS TaskManager, FiniteSetTheorems, TLAPS

-----------------------------------------------------------------------------
(* The inductive invariant.                                                *)

Deleting == op.pc \in {"sealing", "releasing", "deleting"}
Leaving == op.pc \in {"ungrouping", "uncaching"}

\* A call knows what it was asked to do; one that rebuilds a task has room to.
CallWell ==
  /\ op.pc = "recovering" => CanBuild(op.task)
  /\ Deleting \/ Leaving => op.group # Global /\ op.todo \subseteq op.ids
  /\ Leaving => op.group # None

Types == TypeOK /\ CallWell

\* The handles whose runs write the record, or would once started.
Active(h) == handles[h].life \in {"starting", "running", "ending"}
Drives(h) == Active(h) \/ (handles[h].life = "unstarted" /\ registry[h[1]] = h)

\* The registry knows every run, and what it knows was built and has a record.
Registered ==
  /\ \A t \in Tasks : registry[t] # None =>
       rows[t] # None /\ handles[registry[t]].life # "unborn"
  /\ \A h \in Handles : Live(h) => registry[h[1]] = h

\* A task has one run at most, and its record is open.
OneDriver ==
  /\ \A t \in Tasks : \A g, h \in TaskHandles(t) : Drives(g) /\ Drives(h) => g = h
  /\ \A h \in Handles : Drives(h) /\ rows[h[1]] # None => rows[h[1]].status # "ended"

\* What a recovery has read is still so: nothing else writes the record.
ReadStands ==
  op.pc = "recovering" =>
    /\ \A h \in TaskHandles(op.task) : ~Active(h)
    /\ op.row # None => rows[op.task] = op.row

\* Nothing happens during a sweep at startup.
SweepStands ==
  Sweeping =>
    /\ op = Idle /\ \A h \in Handles : handles[h].life \in {"unborn", "over"}
    /\ sweep.rows = rows /\ (sweep.groups # None => sweep.groups = groups)

\* What a deletion has sealed cannot run; whom it is done sealing, it has sealed.
Done == CASE op.pc = "sealing" -> op.ids \ op.todo [] OTHER -> op.ids

SealHolds ==
  Deleting =>
    /\ \A h \in op.sealed :
         /\ h[1] \in op.ids /\ handles[h].life \in {"unstarted", "ending", "over"}
         /\ handles[h].life = "unstarted" => handles[h].sealed
    /\ \A t \in Done : registry[t] # None => registry[t] \in op.sealed

\* Whom it is done releasing holds nothing, and cannot lock again.
Freed == CASE op.pc = "releasing" -> op.ids \ op.todo [] op.pc = "deleting" -> op.ids [] OTHER -> {}

LocksGone == \A t \in Freed, k \in Kinds : locked[k][t] = None

\* The members of a group being deleted are those it began with, until they go.
Remaining == CASE op.pc = "deleting" -> op.todo [] Leaving -> {} [] OTHER -> op.ids

MembersListed ==
  (Deleting \/ Leaving) /\ op.group # None => TasksInGroup(op.group) \subseteq Remaining

\* A cached group other than the global one is stored, until it is uncached.
CachedAreStored ==
  \A g \in Groups \ {Global} :
    groups[g] # None => storeGroups[g] # None \/ (op.pc = "uncaching" /\ op.group = g)

TaskInv ==
  /\ Types /\ Registered /\ OneDriver /\ ReadStands /\ SweepStands
  /\ SealHolds /\ LocksGone /\ MembersListed /\ NoOrphans /\ CachedAreStored

\* A group whose deletion waits for the registry's mutex is cached until that
\* deletion runs, since no other one of the same group runs before it.
AskedAreCached ==
  \A g \in asked : groups[g] # None /\ ~((Deleting \/ Leaving) /\ op.group = g)

\* With nobody editing or deleting a group that is going, its record is gone for
\* good; it is cached until the deletion is done with it.
CacheInv ==
  /\ Types /\ CacheAgrees /\ AskedAreCached
  /\ (Deleting \/ Leaving) /\ op.group # None => groups[op.group] # None
  /\ op.pc = "uncaching" => storeGroups[op.group] = None

\* Every step but a deletion's first look at the cache, which changes asked only.
Act ==
  \/ RecoveryStep \/ PlacementStep \/ DeletionStep
  \/ \E h \in Handles : HandleStep(h)
  \/ Crash

-----------------------------------------------------------------------------
(* Values.                                                                 *)

\* What a call carries, by what it is.
LEMMA CallFields ==
  ASSUME op \in Calls
  PROVE  /\ op.pc = "idle" => op = Idle
         /\ op.pc = "recovering" =>
              op \in [pc: {"recovering"}, task: Tasks, row: Rows \cup {None}]
         /\ op.pc = "assigning" =>
              op \in [pc: {"assigning"}, task: Tasks, kind: Kinds,
                      place: [pool: Pools \cup {None}, pin: Resources \cup {None}]]
         /\ Deleting \/ Leaving =>
              op \in [pc: {"sealing", "releasing", "deleting", "ungrouping", "uncaching"},
                      group: Groups \cup {None}, ids: SUBSET Tasks, todo: SUBSET Tasks,
                      sealed: SUBSET Handles]
  BY DEF Calls, Idle, Deleting, Leaving

LEMMA NoneIsNothing ==
  /\ None \notin Pools /\ None \notin Resources /\ None \notin Groups /\ None \notin Rows
  /\ None \notin Handles /\ None \notin [Kinds -> Pools \cup {None}]
  /\ Inherit \notin Pools /\ None # Inherit
  BY NoneTaskAssumption, NoneRowAssumption

\* Handles of a task are counted: none built is all unborn, and the next one to
\* build is one of them.
LEMMA Building ==
  ASSUME NEW t \in Tasks
  PROVE  /\ Built(t) \in Nat
         /\ Built(t) = 0 => \A h \in TaskHandles(t) : handles[h].life = "unborn"
         /\ CanBuild(t) => NewHandle(t) \in TaskHandles(t)
<1> DEFINE B == {h \in TaskHandles(t) : handles[h].life # "unborn"}
<1>1. TaskHandles(t) = {<<t, i>> : i \in 1 .. MaxHandles}
  BY DEF TaskHandles, Handles
<1>2. IsFiniteSet(1 .. MaxHandles)
  BY FS_Interval, HandlesAssumption
<1>3. IsFiniteSet({t} \X (1 .. MaxHandles))
  <2>1. IsFiniteSet({t})
    BY FS_Singleton
  <2> QED BY ONLY <1>2, <2>1, FS_Product
<1>4. IsFiniteSet(B)
  <2>1. B \subseteq {t} \X (1 .. MaxHandles)
    BY <1>1
  <2> QED BY <1>3, <2>1, FS_Subset
<1>5. Cardinality(B) \in Nat /\ (Cardinality(B) = 0 => B = {})
  BY <1>4, FS_CardinalityType, FS_EmptySet
<1>6. CanBuild(t) => NewHandle(t) \in TaskHandles(t)
  <2>1. Built(t) = Cardinality(B)
    BY DEF Built
  <2>2. Built(t) < MaxHandles => Built(t) + 1 \in 1 .. MaxHandles
    BY <1>5, <2>1, HandlesAssumption
  <2> QED BY <1>1, <2>2 DEF CanBuild, NewHandle
<1> QED BY <1>5, <1>6 DEF Built

\* A handle is built when its run is; what happens to it later builds none.
LEMMA BuiltStays ==
  ASSUME NEW t \in Tasks, \A h \in Handles : handles'[h].life = "unborn" <=> handles[h].life = "unborn"
  PROVE  Built(t)' = Built(t) /\ CanBuild(t)' = CanBuild(t)
<1>1. {h \in TaskHandles(t) : handles'[h].life # "unborn"} = {h \in TaskHandles(t) : handles[h].life # "unborn"}
  BY DEF TaskHandles
<1> QED BY <1>1 DEF Built, CanBuild, TaskHandles

-----------------------------------------------------------------------------
(* Types.                                                                  *)

LEMMA ResolveType ==
  ASSUME NEW own \in [Kinds -> [pool: Pools \cup {None, Inherit}, pin: Resources \cup {None}]],
         NEW group \in [Kinds -> Pools \cup {None}]
  PROVE  /\ resolveAll(own, group) \in Wirings
         /\ \A k \in Kinds : resolve(own[k], group, k)
                               \in [pool: Pools \cup {None}, pin: Resources \cup {None}]
<1>1. \A k \in Kinds : resolve(own[k], group, k)
                         \in [pool: Pools \cup {None}, pin: Resources \cup {None}]
  BY DEF resolve
<1> QED BY <1>1 DEF resolveAll, Wirings

LEMMA RehydratedType ==
  ASSUME NEW row \in Rows, NEW group \in [Kinds -> Pools \cup {None}]
  PROVE  /\ Rehydrated(row, group) \in HandleRecords
         /\ Rehydrated(row, group).life = IF row.status = "saved" THEN "unstarted" ELSE "over"
<1>1. resolveAll(row.own, group) \in Wirings /\ NoWiring \in Wirings
  BY ResolveType DEF Rows, NoWiring, Wirings
<1> QED BY <1>1 DEF Rehydrated, HandleRecords

\* Retire leaves a handle record, and makes none of an unborn one.
LEMMA RetireType ==
  ASSUME handles \in [Handles -> HandleRecords], NEW h \in Handles
  PROVE  /\ Retire(h) \in [Handles -> HandleRecords]
         /\ \A g \in Handles : Retire(h)[g].life = IF g = h THEN "over" ELSE handles[g].life
<1>1. NoWiring \in Wirings
  BY DEF NoWiring, Wirings
<1> QED BY <1>1 DEF Retire, HandleRecords

LEMMA RegisterType ==
  ASSUME Types, NEW new, DOMAIN new \subseteq Tasks, Register(new),
         \A t \in DOMAIN new : new[t] \in HandleRecords /\ CanBuild(t)
  PROVE  /\ handles' \in [Handles -> HandleRecords]
         /\ registry' \in [Tasks -> Handles \cup {None}]
         /\ \A t \in Tasks : registry'[t] # None => registry'[t][1] = t
<1>1. \A t \in DOMAIN new : NewHandle(t) \in Handles /\ NewHandle(t)[1] = t
  BY Building DEF TaskHandles
<1>2. handles' \in [Handles -> HandleRecords]
  BY DEF Register, Types, TypeOK
<1>3. \A t \in Tasks : registry'[t] = IF t \in DOMAIN new THEN NewHandle(t) ELSE registry[t]
  BY DEF Register
<1>4. registry' \in [Tasks -> Handles \cup {None}]
  <2>1. registry' = [t \in Tasks |-> IF t \in DOMAIN new THEN NewHandle(t) ELSE registry[t]]
    BY DEF Register
  <2> QED BY <1>1, <2>1 DEF Types, TypeOK
<1>5. \A t \in Tasks : registry'[t] # None => registry'[t][1] = t
  BY <1>1, <1>3 DEF Types, TypeOK
<1> QED BY <1>2, <1>4, <1>5

\* A call that goes on goes on as it was, when nothing is built.
LEMMA CallKept ==
  ASSUME Types, UNCHANGED op,
         \A h \in Handles : handles'[h].life = "unborn" <=> handles[h].life = "unborn"
  PROVE  CallWell'
<1>1. ASSUME op.pc = "recovering"
      PROVE  CanBuild(op.task)'
  <2>1. PICK t \in Tasks : t = op.task
    BY <1>1, CallFields DEF Types, TypeOK
  <2>2. CanBuild(t)' = CanBuild(t)
    BY BuiltStays
  <2>3. op'.task = t /\ CanBuild(t)
    BY <1>1, <2>1 DEF Types, CallWell
  <2> QED BY <2>2, <2>3 DEF CanBuild, Built, TaskHandles
<1> QED BY <1>1 DEF Types, CallWell, Deleting, Leaving

\* Runs.
LEMMA HandleStepTypes ==
  ASSUME Types, NEW h \in Handles, HandleStep(h)
  PROVE  Types'
<1> USE DEF Types, TypeOK
<1>0. h[1] \in Tasks /\ NoWiring \in Wirings
  BY DEF Handles, NoWiring, Wirings
<1>1. CASE Start(h)
  <2>1. handles' \in [Handles -> HandleRecords]
    BY <1>1 DEF Start, HandleRecords
  <2>2. CallWell'
    BY <1>1, CallKept DEF Start, HandleRecords
  <2> QED BY <1>1, <2>1, <2>2 DEF Start, groupVars
<1>2. CASE KillUnstarted(h)
  <2>1. CallWell'
    BY <1>2, CallKept, RetireType DEF KillUnstarted
  <2> QED BY <1>2, <2>1, RetireType DEF KillUnstarted, groupVars
<1>3. CASE Checkpoint(h)
  <2>1. handles' \in [Handles -> HandleRecords]
    BY <1>3 DEF Checkpoint, HandleRecords
  <2>2. CallWell'
    BY <1>3, CallKept DEF Checkpoint, HandleRecords, Live
  <2>3. rows' \in [Tasks -> Rows \cup {None}]
    <3> HIDE DEF Types, TypeOK
    <3>0. PICK t \in Tasks : t = h[1]
      BY <1>0
    <3>1. rows[t] # None /\ rows' = [rows EXCEPT ![t].status = "saved"]
      BY <1>3, <3>0 DEF Checkpoint, SaveCheckpoint
    <3>2. rows \in [Tasks -> Rows \cup {None}]
      BY DEF Types, TypeOK
    <3>3. [rows[t] EXCEPT !.status = "saved"] \in Rows
      BY <3>1, <3>2 DEF Rows
    <3> QED BY <3>1, <3>2, <3>3
  <2> QED BY <1>3, <2>1, <2>2, <2>3 DEF Checkpoint, groupVars
<1>4. CASE Detach(h)
  <2>1. CallWell'
    BY <1>4, CallKept, RetireType DEF Detach
  <2> QED BY <1>4, <2>1, RetireType DEF Detach, groupVars
<1>5. CASE Settle(h)
  <2>1. handles' \in [Handles -> HandleRecords]
    <3> DEFINE e == [handles[h] EXCEPT !.life = "ending", !.wired = NoWiring]
    <3>2. handles' = [handles EXCEPT ![h].life = "ending", ![h].wired = NoWiring]
      BY <1>5 DEF Settle
    <3> HIDE DEF Types, TypeOK
    <3>3. handles \in [Handles -> HandleRecords]
      BY DEF Types, TypeOK
    <3>1. e \in HandleRecords
      <4>1. PICK d \in HandleRecords : d = handles[h]
        BY <3>3
      <4>2. [d EXCEPT !.life = "ending", !.wired = NoWiring] \in HandleRecords
        BY <1>0 DEF HandleRecords
      <4> QED BY <4>1, <4>2
    <3>4. \A g \in Handles : handles'[g] = IF g = h THEN e ELSE handles[g]
      BY <3>2, <3>3
    <3>5. handles' = [g \in Handles |-> handles'[g]]
      BY <3>2, <3>3
    <3> HIDE DEF e
    <3> QED BY <3>1, <3>3, <3>4, <3>5
  <2>2. CallWell'
    BY <1>5, CallKept DEF Settle, HandleRecords, Live
  <2> QED BY <1>5, <2>1, <2>2 DEF Settle, groupVars
<1>6. CASE Stamp(h)
  <2>1. CallWell'
    BY <1>6, CallKept, RetireType DEF Stamp
  <2>2. rows' \in [Tasks -> Rows \cup {None}]
    <3>1. CASE UNCHANGED rows
      BY <3>1
    <3>2. CASE \E outcome \in {"fresh", "saved", "ended"} : MarkTerminal(h[1], outcome)
      <4>1. PICK outcome \in {"fresh", "saved", "ended"} :
              rows[h[1]] \in Rows /\ rows' = [rows EXCEPT ![h[1]].status = outcome]
        BY <1>0, <3>2 DEF MarkTerminal
      <4>2. [rows[h[1]] EXCEPT !.status = outcome] \in Rows
        BY <4>1 DEF Rows
      <4> QED BY <1>0, <4>1, <4>2
    <3> QED BY <1>0, <1>6, <3>1, <3>2 DEF Stamp
  <2> QED BY <1>6, <2>1, <2>2, RetireType DEF Stamp, groupVars
<1>7. CASE \E k \in Kinds : Unlock(h, k)
  <2>1. CallWell'
    BY <1>7, CallKept DEF Unlock
  <2> QED BY <1>0, <1>7, <2>1 DEF Unlock, groupVars
<1>8. CASE \E k \in Kinds : \E r \in Resources : Lock(h, k, r)
  <2>1. CallWell'
    BY <1>8, CallKept DEF Lock
  <2> QED BY <1>0, <1>8, <2>1 DEF Lock, groupVars
<1> QED BY <1>1, <1>2, <1>3, <1>4, <1>5, <1>6, <1>7, <1>8 DEF HandleStep

\* Creation, reassignment and task groups.
LEMMA PlacementStepTypes ==
  ASSUME Types, PlacementStep
  PROVE  Types'
<1> USE DEF Types, TypeOK
<1>1. ASSUME NEW t \in Tasks, NEW g \in Groups, NEW own \in [Kinds -> Assignments],
             CreateTask(t, g, own)
      PROVE  Types'
  <2>1. own \in [Kinds -> [pool: Pools \cup {None, Inherit}, pin: Resources \cup {None}]]
    BY AssignmentsAssumption
  <2>2. groups[g] \in [Kinds -> Pools \cup {None}]
    BY <1>1 DEF CreateTask, GroupTables
  <2>3. PICK new : new = [s \in {t} |->
          [life |-> "unstarted", sealed |-> FALSE, wired |-> resolveAll(own, groups[g])]]
    OBVIOUS
  <2>4. /\ DOMAIN new \subseteq Tasks /\ Register(new)
        /\ \A s \in DOMAIN new : new[s] \in HandleRecords /\ CanBuild(s)
    BY <1>1, <2>1, <2>2, <2>3, ResolveType, HandlesAssumption
       DEF CreateTask, HandleRecords, CanBuild
  <2>5. rows' \in [Tasks -> Rows \cup {None}]
    BY <1>1, <2>1 DEF CreateTask, InsertTask, Rows
  <2>6. CallWell'
    BY <1>1 DEF CreateTask, CallWell, Idle, Deleting, Leaving
  <2> QED BY <1>1, <2>4, <2>5, <2>6, RegisterType DEF CreateTask, groupVars
<1>2. ASSUME NEW t \in Tasks, NEW k \in Kinds, NEW a \in Assignments, AssignSaves(t, k, a)
      PROVE  Types'
  <2>1. /\ a \in [pool: Pools \cup {None, Inherit}, pin: Resources \cup {None}]
        /\ rows[t] \in Rows /\ groups[rows[t].group] \in [Kinds -> Pools \cup {None}]
    BY <1>2, AssignmentsAssumption DEF AssignSaves, Rows, GroupTables
  <2>2. rows' \in [Tasks -> Rows \cup {None}]
    <3>1. [rows[t] EXCEPT !.own[k] = a] \in Rows
      BY <2>1 DEF Rows
    <3>2. rows' = [rows EXCEPT ![t] = [rows[t] EXCEPT !.own[k] = a]]
      BY <1>2 DEF AssignSaves, SaveAssignment
    <3> QED BY <3>1, <3>2
  <2>3. resolve(a, groups[rows[t].group], k)
          \in [pool: Pools \cup {None}, pin: Resources \cup {None}]
    BY <2>1 DEF resolve
  <2>4. op' \in Calls /\ op'.pc = "assigning"
    BY <1>2, <2>3 DEF AssignSaves, Calls
  <2>5. CallWell'
    BY <2>4 DEF CallWell, Deleting, Leaving
  <2> QED BY <1>2, <2>2, <2>4, <2>5 DEF AssignSaves, groupVars
<1>3. ASSUME AssignReleases
      PROVE  Types'
  <2>1. locked' \in [Kinds -> [Tasks -> Resources \cup {None}]]
    BY <1>3, CallFields DEF AssignReleases
  <2>2. CallWell' /\ op' \in Calls
    BY <1>3 DEF AssignReleases, CallWell, Calls, Idle, Deleting, Leaving
  <2> QED BY <1>3, <2>1, <2>2 DEF AssignReleases, groupVars
<1>4. ASSUME NEW g \in Groups, NEW p \in Placements, SaveGroup(g, p)
      PROVE  Types'
  <2>1. p \in [Kinds -> Pools \cup {None}] /\ p # None
    BY PlacementsAssumption, NoneIsNothing
  <2>2. groups' \in GroupTables /\ storeGroups' \in GroupTables /\ groups'[Global] # None
    BY <1>4, <2>1, GlobalGroupAssumption DEF SaveGroup, StoreGroup, GroupTables
  <2>3. CallWell'
    BY <1>4, CallKept DEF SaveGroup
  <2> QED BY <1>4, <2>2, <2>3 DEF SaveGroup
<1> QED BY <1>1, <1>2, <1>3, <1>4 DEF PlacementStep, CreateGroup, UpdateGroup

\* Recovery, of one task or of all.
LEMMA RecoveryStepTypes ==
  ASSUME Types, RecoveryStep
  PROVE  Types'
<1> USE DEF Types, TypeOK
<1>0. \A g \in Groups : groups[g] # None => groups[g] \in [Kinds -> Pools \cup {None}]
  BY DEF GroupTables
<1>1. ASSUME NEW t \in Tasks, RecoverChecks(t)
      PROVE  Types'
  <2>1. op' \in Calls /\ op'.pc = "recovering" /\ op'.task = t
    BY <1>1 DEF RecoverChecks, Calls
  <2>2. CanBuild(t)'
    BY <1>1 DEF RecoverChecks, CanBuild, Built, TaskHandles
  <2>3. CallWell'
    BY <2>1, <2>2 DEF CallWell, CanBuild, Built, TaskHandles, Deleting, Leaving
  <2> QED BY <1>1, <2>1, <2>3 DEF RecoverChecks, groupVars
<1>2. ASSUME RecoverReads
      PROVE  Types'
  <2>1. op \in [pc: {"recovering"}, task: Tasks, row: Rows \cup {None}]
    BY <1>2, CallFields DEF RecoverReads
  <2>2. \/ op' = Idle
        \/ /\ op' \in [pc: {"recovering"}, task: Tasks, row: Rows \cup {None}]
           /\ op'.task = op.task
    BY <1>2, <2>1 DEF RecoverReads
  <2>3. op' \in Calls
    BY <2>2 DEF Calls
  <2>4. CallWell'
    <3>1. CASE op' = Idle
      BY <3>1 DEF CallWell, Idle, Deleting, Leaving
    <3>2. CASE op'.pc = "recovering" /\ op'.task = op.task
      <4>1. CanBuild(op.task) /\ handles' = handles
        BY <1>2 DEF RecoverReads, CallWell
      <4> QED BY <3>2, <4>1 DEF CallWell, CanBuild, Built, TaskHandles, Deleting, Leaving
    <3> QED BY <2>2, <3>1, <3>2
  <2> QED BY <1>2, <2>3, <2>4 DEF RecoverReads, groupVars
<1>3. ASSUME RecoverRegisters
      PROVE  Types'
  <2>1. op \in [pc: {"recovering"}, task: Tasks, row: Rows \cup {None}]
    BY <1>3, CallFields DEF RecoverRegisters
  <2>2. CallWell' /\ op' \in Calls
    BY <1>3 DEF RecoverRegisters, CallWell, Calls, Idle, Deleting, Leaving
  <2>3. CASE groups[op.row.group] = None
    BY <1>3, <2>2, <2>3 DEF RecoverRegisters, groupVars
  <2>4. CASE groups[op.row.group] # None
    <3>1. op.row \in Rows /\ groups[op.row.group] \in [Kinds -> Pools \cup {None}]
      BY <1>0, <1>3, <2>1, <2>4 DEF RecoverRegisters, Rows
    <3>2. PICK new : new = [s \in {op.task} |-> Rehydrated(op.row, groups[op.row.group])]
      OBVIOUS
    <3>3. PICK t \in Tasks : t = op.task
      BY <2>1
    <3>4. CanBuild(t)
      BY <1>3, <3>3 DEF RecoverRegisters, CallWell
    <3>5. Rehydrated(op.row, groups[op.row.group]) \in HandleRecords
      <4>1. PICK row \in Rows, group \in [Kinds -> Pools \cup {None}] :
              row = op.row /\ group = groups[op.row.group]
        BY <3>1
      <4>2. Rehydrated(row, group) \in HandleRecords
        BY RehydratedType
      <4> QED BY <4>1, <4>2
    <3>6. /\ DOMAIN new \subseteq Tasks /\ Register(new)
          /\ \A s \in DOMAIN new : new[s] \in HandleRecords /\ CanBuild(s)
      BY <1>3, <2>4, <3>2, <3>3, <3>4, <3>5 DEF RecoverRegisters
    <3> QED BY <1>3, <2>2, <3>6, RegisterType DEF RecoverRegisters, groupVars
  <2> QED BY <2>3, <2>4
<1>4. ASSUME SweepReads
      PROVE  Types'
  <2>1. CallWell'
    BY <1>4, CallKept DEF SweepReads
  <2> QED BY <1>4, <2>1 DEF SweepReads, groupVars, Sweeps
<1>5. ASSUME SweepReadsGroups
      PROVE  Types'
  <2>1. CallWell'
    BY <1>5, CallKept DEF SweepReadsGroups
  <2> QED BY <1>5, <2>1 DEF SweepReadsGroups, groupVars, Sweeps, Sweeping
<1>6. ASSUME SweepRegisters
      PROVE  Types'
  <2>1. sweep \in [rows: [Tasks -> Rows \cup {None}], groups: GroupTables \cup {None}]
    BY <1>6 DEF SweepRegisters, Sweeping, Sweeps
  <2>2. PICK done \in SUBSET Tasks :
          /\ Register([t \in done |->
               Rehydrated(sweep.rows[t], sweep.groups[sweep.rows[t].group])])
          /\ \A t \in done : /\ sweep.rows[t] # None /\ CanBuild(t)
                             /\ sweep.groups[sweep.rows[t].group] # None
    BY <1>6 DEF SweepRegisters
  <2>3. PICK new : new = [t \in done |->
          Rehydrated(sweep.rows[t], sweep.groups[sweep.rows[t].group])]
    OBVIOUS
  <2>4. ASSUME NEW t \in done
        PROVE  new[t] \in HandleRecords
    <3>1. sweep.rows[t] \in Rows
      BY <2>1, <2>2
    <3>2. sweep.groups[sweep.rows[t].group] \in [Kinds -> Pools \cup {None}]
      <4>1. sweep.groups \in GroupTables \cup {None} /\ sweep.groups # None
        BY <1>6, <2>1 DEF SweepRegisters
      <4>2. PICK g \in Groups : g = sweep.rows[t].group
        BY <3>1 DEF Rows
      <4>3. sweep.groups[g] \in [Kinds -> Pools \cup {None}] \cup {None}
        BY <4>1 DEF GroupTables
      <4> QED BY <2>2, <4>2, <4>3
    <3>3. PICK row \in Rows, group \in [Kinds -> Pools \cup {None}] :
            row = sweep.rows[t] /\ group = sweep.groups[sweep.rows[t].group]
      BY <3>1, <3>2
    <3>4. Rehydrated(row, group) \in HandleRecords
      BY RehydratedType
    <3> QED BY <2>3, <3>3, <3>4
  <2>5. /\ DOMAIN new \subseteq Tasks /\ Register(new)
        /\ \A s \in DOMAIN new : new[s] \in HandleRecords /\ CanBuild(s)
    BY <2>2, <2>3, <2>4
  <2>6. CallWell'
    BY <1>6 DEF SweepRegisters, CallWell, Idle, Deleting, Leaving
  <2> QED BY <1>6, <2>5, <2>6, RegisterType DEF SweepRegisters, groupVars, Sweeps
<1> QED BY <1>1, <1>2, <1>3, <1>4, <1>5, <1>6 DEF RecoveryStep

\* Sealing and opening again change no life.
LEMMA SealLives ==
  ASSUME handles \in [Handles -> HandleRecords]
  PROVE  /\ \A hs : /\ unsealAll(hs) \in [Handles -> HandleRecords]
                    /\ \A h \in Handles : /\ unsealAll(hs)[h].life = handles[h].life
                                          /\ h \in hs => ~unsealAll(hs)[h].sealed
         /\ \A g \in Handles :
              LET sealing == [handles EXCEPT ![g].sealed = TRUE]
              IN  /\ sealing \in [Handles -> HandleRecords] /\ sealing[g].sealed
                  /\ \A h \in Handles : /\ sealing[h].life = handles[h].life
                                        /\ h # g => sealing[h] = handles[h]
  BY DEF unsealAll, HandleRecords

\* What a deletion under way may become: only its phase and who is left or sealed change.
Deletions ==
  [pc: {"sealing", "releasing", "deleting", "ungrouping", "uncaching"},
   group: {op.group}, ids: {op.ids}, todo: SUBSET op.ids, sealed: SUBSET Handles]

LEMMA DeletionCall ==
  ASSUME Types, Deleting \/ Leaving,
         \/ op' = Idle
         \/ op' \in Deletions /\ (op'.pc \in {"ungrouping", "uncaching"} => op.group # None)
  PROVE  op' \in Calls /\ CallWell'
<1>1. CASE op' = Idle
  BY <1>1 DEF Calls, CallWell, Idle, Deleting, Leaving
<1>2. CASE op' \in Deletions /\ (op'.pc \in {"ungrouping", "uncaching"} => op.group # None)
  <2>1. op \in [pc: {"sealing", "releasing", "deleting", "ungrouping", "uncaching"},
                group: Groups \cup {None}, ids: SUBSET Tasks, todo: SUBSET Tasks,
                sealed: SUBSET Handles] /\ op.group # Global
    BY CallFields DEF Types, TypeOK, CallWell
  <2>2. /\ op' \in [pc: {"sealing", "releasing", "deleting", "ungrouping", "uncaching"},
                    group: Groups \cup {None}, ids: SUBSET Tasks, todo: SUBSET Tasks,
                    sealed: SUBSET Handles]
        /\ op'.group = op.group /\ op'.todo \subseteq op'.ids
    BY <1>2, <2>1 DEF Deletions
  <2>3. op' \in Calls
    BY <2>2 DEF Calls
  <2> QED BY <1>2, <2>1, <2>2, <2>3 DEF CallWell, Deleting, Leaving
<1> QED BY <1>1, <1>2

\* Deletion of a task or of a group.
LEMMA DeletionStepTypes ==
  ASSUME Types, DeletionStep
  PROVE  Types'
<1> USE DEF Types, TypeOK
<1>0. NoWiring \in Wirings
  BY DEF NoWiring, Wirings
<1>1. ASSUME NEW ids \in SUBSET Tasks, NEW g \in (Groups \ {Global}) \cup {None},
             BeginDeletion(ids, g), asked' \subseteq asked
      PROVE  Types'
  <2>1. /\ op' \in [pc: {"sealing"}, group: Groups \cup {None}, ids: SUBSET Tasks,
                    todo: SUBSET Tasks, sealed: SUBSET Handles]
        /\ op'.group # Global /\ op'.todo = op'.ids
    BY <1>1, GlobalGroupAssumption, NoneIsNothing DEF BeginDeletion
  <2>2. op' \in Calls
    BY <2>1 DEF Calls
  <2>3. CallWell'
    BY <2>1 DEF CallWell, Deleting, Leaving
  <2> QED BY <1>1, <2>2, <2>3 DEF BeginDeletion, groupVars
<1>2. ASSUME NEW t \in Tasks, SealNext(t)
      PROVE  Types'
  <2>1. op \in [pc: {"sealing"}, group: Groups \cup {None}, ids: SUBSET Tasks,
                todo: SUBSET Tasks, sealed: SUBSET Handles] /\ op.todo \subseteq op.ids
    BY <1>2, CallFields DEF SealNext, Deleting, CallWell
  <2>2. handles' \in [Handles -> HandleRecords]
    BY <1>2, SealLives DEF SealNext, RegisteredLive
  <2>3. op' = Idle \/ (op' \in Deletions /\ op'.pc = "sealing")
    <3>1. \/ op' = Idle
          \/ op' = [op EXCEPT !.todo = @ \ {t}]
          \/ /\ registry[t] \in Handles
             /\ op' = [op EXCEPT !.todo = @ \ {t}, !.sealed = @ \cup {registry[t]}]
      BY <1>2 DEF SealNext
    <3>2. CASE op' = [op EXCEPT !.todo = @ \ {t}]
      BY <2>1, <3>2 DEF Deletions
    <3>3. ASSUME NEW h \in Handles, op' = [op EXCEPT !.todo = @ \ {t}, !.sealed = @ \cup {h}]
          PROVE  op' \in Deletions /\ op'.pc = "sealing"
      BY <2>1, <3>3 DEF Deletions
    <3> QED BY <3>1, <3>2, <3>3
  <2>4. op' \in Calls /\ CallWell'
    BY <2>1, <2>3, DeletionCall DEF Deleting
  <2> QED BY <1>2, <2>2, <2>4 DEF SealNext, groupVars
<1>3. ASSUME NEW t \in Tasks, ReleaseNext(t)
      PROVE  Types'
  <2>1. op \in [pc: {"releasing"}, group: Groups \cup {None}, ids: SUBSET Tasks,
                todo: SUBSET Tasks, sealed: SUBSET Handles] /\ op.todo \subseteq op.ids
    BY <1>3, CallFields DEF ReleaseNext, Deleting, CallWell
  <2>2. handles' \in [Handles -> HandleRecords]
    BY <1>3, SealLives DEF ReleaseNext
  <2>3. locked' \in [Kinds -> [Tasks -> Resources \cup {None}]]
    BY <1>3 DEF ReleaseNext
  <2>4. op' = Idle \/ (op' \in Deletions /\ op'.pc = "releasing")
    BY <1>3, <2>1 DEF ReleaseNext, Deletions
  <2>5. op' \in Calls /\ CallWell'
    BY <2>1, <2>4, DeletionCall DEF Deleting
  <2> QED BY <1>3, <2>2, <2>3, <2>5 DEF ReleaseNext, groupVars
<1>4. ASSUME NEW t \in Tasks, DeleteNext(t)
      PROVE  Types'
  <2>1. op \in [pc: {"deleting"}, group: Groups \cup {None}, ids: SUBSET Tasks,
                todo: SUBSET Tasks, sealed: SUBSET Handles] /\ op.todo \subseteq op.ids
    BY <1>4, CallFields DEF DeleteNext, Deleting, CallWell
  <2>2. handles' \in [Handles -> HandleRecords]
    <3>1. CASE handles' = handles
      BY <3>1
    <3>2. CASE registry[t] # None /\ handles' = Retire(registry[t])
      <4>1. PICK h \in Handles : h = registry[t]
        BY <3>2
      <4> QED BY <3>2, <4>1, RetireType
    <3> QED BY <1>4, <3>1, <3>2 DEF DeleteNext
  <2>3. registry' \in [Tasks -> Handles \cup {None}]
        /\ \A s \in Tasks : registry'[s] # None => registry'[s][1] = s
    BY <1>4 DEF DeleteNext
  <2>4. rows' \in [Tasks -> Rows \cup {None}]
    BY <1>4 DEF DeleteNext, DropTask
  <2>5. op' = Idle \/ (op' \in Deletions /\ op'.pc = "deleting")
    <3>1. op' = Idle \/ op' = [op EXCEPT !.todo = @ \ {t}]
      BY <1>4 DEF DeleteNext
    <3> QED BY <2>1, <3>1 DEF Deletions
  <2>6. op' \in Calls /\ CallWell'
    BY <2>1, <2>5, DeletionCall DEF Deleting
  <2> QED BY <1>4, <2>2, <2>3, <2>4, <2>6 DEF DeleteNext, groupVars
<1>5. ASSUME NextPhase
      PROVE  Types'
  <2>1. op \in [pc: {"sealing", "releasing", "deleting", "ungrouping", "uncaching"}, group: Groups \cup {None}, ids: SUBSET Tasks,
                todo: SUBSET Tasks, sealed: SUBSET Handles] /\ op.todo \subseteq op.ids
    BY <1>5, CallFields DEF NextPhase, Deleting, CallWell
  <2>2. op' = Idle \/ (op' \in Deletions /\ (op'.pc = "ungrouping" => op.group # None)
                        /\ op'.pc # "uncaching")
    BY <1>5, <2>1 DEF NextPhase, Deletions
  <2>3. op' \in Calls /\ CallWell'
    BY <1>5, <2>1, <2>2, DeletionCall DEF NextPhase, Deleting
  <2> QED BY <1>5, <2>3 DEF NextPhase, groupVars
<1>6. ASSUME Ungroup
      PROVE  Types'
  <2>1. op \in [pc: {"ungrouping"}, group: Groups \cup {None}, ids: SUBSET Tasks,
                todo: SUBSET Tasks, sealed: SUBSET Handles]
        /\ op.todo \subseteq op.ids /\ op.group # None
    BY <1>6, CallFields DEF Ungroup, Leaving, CallWell
  <2>2. op' = Idle \/ op' \in Deletions
    BY <1>6, <2>1 DEF Ungroup, Deletions
  <2>3. op' \in Calls /\ CallWell'
    BY <2>1, <2>2, DeletionCall DEF Leaving
  <2>4. storeGroups' \in GroupTables
    BY <1>6 DEF Ungroup, DropGroup, GroupTables
  <2> QED BY <1>6, <2>3, <2>4 DEF Ungroup
<1>7. ASSUME Uncache
      PROVE  Types'
  <2>1. op.group # Global
    BY <1>7 DEF Uncache, Leaving, CallWell
  <2>2. groups' \in GroupTables /\ groups'[Global] # None
    BY <1>7, <2>1, GlobalGroupAssumption DEF Uncache, GroupTables
  <2>3. op' \in Calls /\ CallWell'
    BY <1>7, DeletionCall DEF Uncache, Leaving
  <2> QED BY <1>7, <2>2, <2>3 DEF Uncache
<1> QED
  BY <1>1, <1>2, <1>3, <1>4, <1>5, <1>6, <1>7
     DEF DeletionStep, DeleteTask, DeleteGroup, TasksInGroup

\* A new manager, or the first one, loads a well-formed cache.
LEMMA LoadedType ==
  ASSUME NEW stored \in GroupTables
  PROVE  Loaded(stored) \in GroupTables /\ Loaded(stored)[Global] # None
<1>1. NoPools \in [Kinds -> Pools \cup {None}] /\ NoPools # None
  BY NoneIsNothing DEF NoPools
<1> QED BY <1>1, GlobalGroupAssumption DEF Loaded, GroupTables

LEMMA CrashTypes == Types /\ Crash => Types'
<1> SUFFICES ASSUME Types, Crash PROVE Types'
  OBVIOUS
<1>1. handles' \in [Handles -> HandleRecords]
  <2>1. NoWiring \in Wirings
    BY DEF NoWiring, Wirings
  <2> QED BY <2>1 DEF Crash, Types, TypeOK, HandleRecords
<1>2. CallWell' /\ op' \in Calls /\ sweep' \in Sweeps
  BY DEF Crash, CallWell, Calls, Idle, Deleting, Leaving, Sweeps
<1>3. groups' \in GroupTables /\ groups'[Global] # None
  BY LoadedType DEF Crash, Types, TypeOK
<1> QED BY <1>1, <1>2, <1>3 DEF Crash, Types, TypeOK

LEMMA InitTypes == Init => Types
<1> SUFFICES ASSUME Init PROVE Types
  OBVIOUS
<1>1. NoWiring \in Wirings
  BY DEF NoWiring, Wirings
<1>2. handles \in [Handles -> HandleRecords]
  BY <1>1 DEF Init, HandleRecords
<1>3. storeGroups \in GroupTables /\ groups \in GroupTables /\ groups[Global] # None
  BY LoadedType DEF Init, GroupTables
<1>4. CallWell /\ op \in Calls /\ sweep \in Sweeps
  BY DEF Init, CallWell, Calls, Idle, Deleting, Leaving, Sweeps
<1> QED BY <1>2, <1>3, <1>4 DEF Init, Types, TypeOK

LEMMA NextTypes == Types /\ [Next]_vars => Types'
<1> SUFFICES ASSUME Types, [Next]_vars PROVE Types'
  OBVIOUS
<1>1. CASE UNCHANGED vars
  <2>1. CallWell'
    BY <1>1, CallKept DEF vars
  <2> QED BY <1>1, <2>1 DEF vars, Types, TypeOK
<1>2. ASSUME NEW g \in Groups, LookUpGroup(g)
      PROVE  Types'
  <2>1. CallWell'
    BY <1>2, CallKept DEF LookUpGroup, groupVars
  <2> QED BY <1>2, <2>1 DEF LookUpGroup, groupVars, Types, TypeOK
<1> QED
  BY <1>1, <1>2, HandleStepTypes, PlacementStepTypes, RecoveryStepTypes, DeletionStepTypes,
     CrashTypes DEF Next

\* Every table, handle and call has its type, whatever callers do not order: what
\* the registry holds was built and is the task's own, the global group is always
\* cached, and no call ever deletes it (manager.go:120, :671).
THEOREM TypeCorrect == Spec => []TypeOK
<1>1. Types => TypeOK
  BY DEF Types
<1> QED BY <1>1, InitTypes, NextTypes, PTL DEF Spec

-----------------------------------------------------------------------------
(* Runs, the registry and the records.                                     *)

LEMMA HandleTask ==
  ASSUME NEW h \in Handles
  PROVE  h[1] \in Tasks /\ h \in TaskHandles(h[1]) /\ h # None
  BY NoneIsNothing DEF Handles, TaskHandles

\* The registry stays, records stay, and nothing is started behind its back.
LEMMA RegistryKept ==
  ASSUME Types, Registered, UNCHANGED registry,
         \A t \in Tasks : rows[t] # None => rows'[t] # None,
         \A g \in Handles : handles[g].life # "unborn" => handles'[g].life # "unborn",
         \A g \in Handles : Live(g)' => Live(g) \/ registry[g[1]] = g
  PROVE  Registered'
  BY DEF Types, TypeOK, Registered

\* No new driver, and the records of those there are stay open.
LEMMA FewerDrive ==
  ASSUME Types, OneDriver,
         \A h \in Handles : Drives(h)' => Drives(h),
         \A h \in Handles : Drives(h)' /\ rows'[h[1]] # None => rows'[h[1]].status # "ended"
  PROVE  OneDriver'
<1>1. \A t \in Tasks : \A g, h \in TaskHandles(t) : Drives(g)' /\ Drives(h)' => g = h
  BY DEF OneDriver, TaskHandles
<1> QED BY <1>1 DEF OneDriver, TaskHandles

\* What a step of a run does to its handle, and to the record it writes.
LEMMA HandleStepEffect ==
  ASSUME Types, NEW h \in Handles, HandleStep(h)
  PROVE  /\ UNCHANGED <<registry, groups, storeGroups, op, sweep>>
         /\ handles[h].life \in {"unstarted", "starting", "running", "ending"}
         /\ \A g \in Handles : g # h => handles'[g] = handles[g]
         /\ \/ handles[h].life = "unstarted" /\ MayStart(h) /\ ~handles[h].sealed
            \/ handles'[h].life = "over"
            \/ Live(h) /\ handles'[h].life \in {"running", "ending"}
         /\ handles'[h].life \in {"starting", "running", "ending", "over"}
         /\ \A t \in Tasks : /\ rows[t] # None <=> rows'[t] # None
                             /\ t # h[1] => rows'[t] = rows[t]
                             /\ rows[t] # None => rows'[t].group = rows[t].group
         /\ \/ rows' = rows
            \/ Live(h) /\ rows[h[1]] # None /\ rows'[h[1]].status = "saved"
            \/ handles[h].life = "ending" /\ handles'[h].life = "over"
<1> USE HandleTask, NoneIsNothing DEF Types, TypeOK
<1>1. CASE Start(h)
  BY <1>1 DEF Start, HandleRecords, groupVars
<1>2. CASE KillUnstarted(h)
  BY <1>2, RetireType DEF KillUnstarted, groupVars, Retire
<1>3. CASE Checkpoint(h)
  <2>1. rows[h[1]] \in Rows /\ rows' = [rows EXCEPT ![h[1]].status = "saved"]
    BY <1>3 DEF Checkpoint, SaveCheckpoint
  <2>2. [rows[h[1]] EXCEPT !.status = "saved"] \in Rows
    BY <2>1 DEF Rows
  <2>3. \A t \in Tasks : /\ rows[t] # None <=> rows'[t] # None
                         /\ t # h[1] => rows'[t] = rows[t]
                         /\ rows[t] # None => rows'[t].group = rows[t].group
    BY <2>1, <2>2 DEF Rows
  <2>4. rows'[h[1]].status = "saved"
    BY <2>1 DEF Rows
  <2>5. handles'[h].life = "running" /\ \A g \in Handles : g # h => handles'[g] = handles[g]
    BY <1>3 DEF Checkpoint, HandleRecords
  <2> QED BY <1>3, <2>1, <2>3, <2>4, <2>5 DEF Checkpoint, Live, groupVars
<1>4. CASE Detach(h)
  BY <1>4, RetireType DEF Detach, groupVars, Retire
<1>5. CASE Settle(h)
  BY <1>5 DEF Settle, HandleRecords, groupVars, Live
<1>6. CASE Stamp(h)
  <2>1. CASE UNCHANGED rows
    BY <1>6, <2>1, RetireType DEF Stamp, groupVars, Retire
  <2>2. CASE \E outcome \in {"fresh", "saved", "ended"} : MarkTerminal(h[1], outcome)
    <3>1. PICK outcome \in {"fresh", "saved", "ended"} :
            rows[h[1]] \in Rows /\ rows' = [rows EXCEPT ![h[1]].status = outcome]
      BY <2>2 DEF MarkTerminal
    <3>2. [rows[h[1]] EXCEPT !.status = outcome] \in Rows
      BY <3>1 DEF Rows
    <3>3. \A t \in Tasks : /\ rows[t] # None <=> rows'[t] # None
                           /\ t # h[1] => rows'[t] = rows[t]
                           /\ rows[t] # None => rows'[t].group = rows[t].group
      BY <3>1, <3>2 DEF Rows
    <3> QED BY <1>6, <3>3, RetireType DEF Stamp, groupVars, Retire
  <2> QED BY <1>6, <2>1, <2>2 DEF Stamp, Rows
<1>7. CASE \E k \in Kinds : Unlock(h, k)
  BY <1>7 DEF Unlock, groupVars, Live
<1>8. CASE \E k \in Kinds : \E r \in Resources : Lock(h, k, r)
  BY <1>8 DEF Lock, groupVars, Live
<1> QED BY <1>1, <1>2, <1>3, <1>4, <1>5, <1>6, <1>7, <1>8 DEF HandleStep

LEMMA HandleStepRuns ==
  ASSUME Types, Registered, OneDriver, NEW h \in Handles, HandleStep(h)
  PROVE  Registered' /\ OneDriver'
<1> USE HandleTask, HandleStepEffect
<1>1. Registered'
  <2>1. \A g \in Handles : handles[g].life # "unborn" => handles'[g].life # "unborn"
    OBVIOUS
  <2>2. \A g \in Handles : Live(g)' => Live(g) \/ registry[g[1]] = g
    BY DEF Live, MayStart
  <2> QED BY <2>1, <2>2, RegistryKept
<1>2. \A g \in Handles : Drives(g)' => Drives(g)
  BY DEF Drives, Active, MayStart, Live
<1>3. ASSUME NEW g \in Handles, Drives(g)', rows'[g[1]] # None
      PROVE  rows'[g[1]].status # "ended"
  <2>1. Drives(g) /\ (rows[g[1]] # None => rows[g[1]].status # "ended")
    BY <1>2, <1>3 DEF OneDriver
  <2>2. CASE handles'[h].life = "over" /\ g[1] = h[1]
    <3>1. g # h
      BY <1>3, <2>2 DEF Drives, Active
    <3>2. Drives(h) \/ rows' = rows
      BY DEF Drives, Active, Live
    <3>3. ~Drives(h)
      BY <2>1, <2>2, <3>1 DEF OneDriver
    <3> QED BY <1>3, <2>1, <3>2, <3>3
  <2>3. CASE handles'[h].life # "over" /\ g[1] = h[1]
    BY <1>3, <2>1, <2>3
  <2> QED BY <1>3, <2>1, <2>2, <2>3
<1> QED BY <1>1, <1>2, <1>3, FewerDrive

\* Creation and reassignment.
LEMMA PlacementStepRuns ==
  ASSUME Types, Registered, OneDriver, PlacementStep
  PROVE  Registered' /\ OneDriver'
<1> USE NoneIsNothing DEF Types, TypeOK
<1>1. ASSUME NEW t \in Tasks, NEW g \in Groups, NEW own \in [Kinds -> Assignments],
             CreateTask(t, g, own)
      PROVE  Registered' /\ OneDriver'
  <2>1. /\ \A h \in TaskHandles(t) : handles[h].life = "unborn"
        /\ NewHandle(t) \in TaskHandles(t)
    BY <1>1, Building, HandlesAssumption DEF CreateTask, CanBuild
  <2>2. /\ rows[t] = None
        /\ rows'[t] # None /\ rows'[t].status = "fresh"
        /\ \A s \in Tasks : s # t => rows'[s] = rows[s]
    <3>1. [group |-> g, status |-> "fresh", own |-> own] \in Rows
      BY AssignmentsAssumption DEF Rows
    <3> QED BY <1>1, <3>1 DEF CreateTask, InsertTask
  <2>3. /\ handles'[NewHandle(t)].life = "unstarted" /\ registry'[t] = NewHandle(t)
        /\ \A h \in Handles : h # NewHandle(t) => handles'[h] = handles[h]
        /\ \A s \in Tasks : s # t => registry'[s] = registry[s]
    BY <1>1, <2>1 DEF CreateTask, Register, TaskHandles
  <2>4. Registered'
    <3>1. ASSUME NEW s \in Tasks, registry'[s] # None
          PROVE  rows'[s] # None /\ handles'[registry'[s]].life # "unborn"
      <4>1. CASE s = t
        BY <2>2, <2>3, <4>1
      <4>2. CASE s # t
        <5>1. /\ registry'[s] = registry[s] /\ rows[s] # None
              /\ registry[s] \in Handles /\ handles[registry[s]].life # "unborn"
          BY <2>3, <3>1, <4>2 DEF Registered, TaskHandles
        <5>2. registry[s] # NewHandle(t)
          BY <2>1, <5>1
        <5> QED BY <2>2, <2>3, <4>2, <5>1, <5>2
      <4> QED BY <4>1, <4>2
    <3>2. \A h \in Handles : Live(h)' => registry'[h[1]] = h
      BY <2>1, <2>3, HandleTask DEF Registered, Live, TaskHandles
    <3> QED BY <3>1, <3>2 DEF Registered, Live
  <2>5. \A h \in Handles : Drives(h)' => h = NewHandle(t) \/ (Drives(h) /\ h[1] # t)
    BY <2>1, <2>3, HandleTask DEF Drives, Active, TaskHandles
  <2>6. OneDriver'
    <3>1. \A s \in Tasks : \A d, h \in TaskHandles(s) : Drives(d)' /\ Drives(h)' => d = h
      BY <2>1, <2>5 DEF OneDriver, TaskHandles
    <3>2. \A h \in Handles : Drives(h)' /\ rows'[h[1]] # None => rows'[h[1]].status # "ended"
      BY <2>1, <2>2, <2>5, HandleTask DEF OneDriver, TaskHandles
    <3> QED BY <3>1, <3>2 DEF OneDriver, TaskHandles
  <2> QED BY <2>4, <2>6
<1>2. ASSUME NEW t \in Tasks, NEW k \in Kinds, NEW a \in Assignments, AssignSaves(t, k, a)
      PROVE  Registered' /\ OneDriver'
  <2>1. /\ UNCHANGED <<handles, registry>>
        /\ \A s \in Tasks : /\ rows[s] # None <=> rows'[s] # None
                            /\ rows[s] # None => rows'[s].status = rows[s].status
    <3>1. rows[t] \in Rows /\ rows' = [rows EXCEPT ![t] = [rows[t] EXCEPT !.own[k] = a]]
      BY <1>2 DEF AssignSaves, SaveAssignment
    <3>2. [rows[t] EXCEPT !.own[k] = a] \in Rows
          /\ [rows[t] EXCEPT !.own[k] = a].status = rows[t].status
      BY <3>1, AssignmentsAssumption DEF Rows
    <3> QED BY <1>2, <3>1, <3>2 DEF AssignSaves
  <2>2. Registered'
    BY <2>1, RegistryKept DEF Live
  <2>3. \A h \in Handles : Drives(h)' => Drives(h)
    BY <2>1 DEF Drives, Active
  <2> QED BY <2>1, <2>2, <2>3, FewerDrive, HandleTask DEF OneDriver
<1>3. CASE UNCHANGED <<handles, registry, rows>>
  BY <1>3 DEF Registered, OneDriver, Drives, Active, Live, TaskHandles
<1> QED
  BY <1>1, <1>2, <1>3
     DEF PlacementStep, AssignReleases, CreateGroup, UpdateGroup, SaveGroup

\* Registration: a new handle replaces one whose task has no run.
LEMMA RegisterRuns ==
  ASSUME Types, Registered, OneDriver, UNCHANGED rows,
         NEW new, DOMAIN new \subseteq Tasks, Register(new),
         \A t \in DOMAIN new :
           /\ CanBuild(t) /\ rows[t] # None
           /\ \A h \in TaskHandles(t) : ~Active(h)
           /\ \/ new[t].life = "over"
              \/ new[t].life = "unstarted" /\ rows[t].status = "saved"
  PROVE  Registered' /\ OneDriver'
<1> USE NoneIsNothing DEF Types, TypeOK
<1>1. \A t \in DOMAIN new : NewHandle(t) \in Handles /\ NewHandle(t)[1] = t
  BY Building DEF TaskHandles
<1>2. \A t \in Tasks : registry'[t] = IF t \in DOMAIN new THEN NewHandle(t) ELSE registry[t]
  BY DEF Register
<1>3. \A h \in Handles : handles'[h] =
        IF h[1] \in DOMAIN new /\ h = NewHandle(h[1]) THEN new[h[1]] ELSE handles[h]
  BY DEF Register
<1>4. \A h \in Handles : h[1] \in DOMAIN new => ~Active(h)
  BY HandleTask DEF TaskHandles
<1>5. Registered'
  <2>1. \A t \in Tasks : registry'[t] # None =>
          rows'[t] # None /\ handles'[registry'[t]].life # "unborn"
    BY <1>1, <1>2, <1>3 DEF Registered
  <2>2. \A h \in Handles : Live(h)' => registry'[h[1]] = h
    BY <1>2, <1>3, <1>4, HandleTask DEF Registered, Live, Active
  <2> QED BY <2>1, <2>2 DEF Registered, Live
<1>6. \A h \in Handles : Drives(h)' =>
        IF h[1] \in DOMAIN new THEN h = NewHandle(h[1]) /\ rows[h[1]].status = "saved"
        ELSE Drives(h)
  BY <1>2, <1>3, <1>4, HandleTask DEF Drives, Active
<1>7. \A t \in Tasks : \A d, h \in TaskHandles(t) : Drives(d)' /\ Drives(h)' => d = h
  BY <1>6 DEF OneDriver, TaskHandles
<1>8. \A h \in Handles : Drives(h)' /\ rows'[h[1]] # None => rows'[h[1]].status # "ended"
  BY <1>6 DEF OneDriver
<1> QED BY <1>5, <1>7, <1>8 DEF OneDriver, TaskHandles

\* What a rebuilt handle may do: nothing, or start the task from its checkpoint.
LEMMA RehydratedLife ==
  ASSUME NEW row, NEW group
  PROVE  \/ Rehydrated(row, group).life = "over"
         \/ Rehydrated(row, group).life = "unstarted" /\ row.status = "saved"
  BY DEF Rehydrated

LEMMA RecoveryStepRuns ==
  ASSUME Types, Registered, OneDriver, ReadStands, SweepStands, RecoveryStep
  PROVE  Registered' /\ OneDriver'
<1> USE NoneIsNothing DEF Types, TypeOK
<1>1. CASE UNCHANGED <<handles, registry, rows>>
  BY <1>1 DEF Registered, OneDriver, Drives, Active, Live, TaskHandles
<1>2. CASE RecoverRegisters /\ groups[op.row.group] # None
  <2>1. op \in [pc: {"recovering"}, task: Tasks, row: Rows \cup {None}]
    BY <1>2, CallFields DEF RecoverRegisters
  <2>2. PICK new : new = [s \in {op.task} |-> Rehydrated(op.row, groups[op.row.group])]
    OBVIOUS
  <2>3. /\ rows[op.task] = op.row /\ op.row # None
        /\ \A h \in TaskHandles(op.task) : ~Active(h)
        /\ CanBuild(op.task)
    BY <1>2 DEF RecoverRegisters, ReadStands, CallWell
  <2>4. PICK t \in Tasks : t = op.task
    BY <2>1
  <2>5. /\ DOMAIN new = {t} /\ Register(new) /\ UNCHANGED rows
        /\ new[t] = Rehydrated(rows[t], groups[rows[t].group])
    BY <1>2, <2>2, <2>3, <2>4 DEF RecoverRegisters
  <2>6. new[t].life = "over" \/ (new[t].life = "unstarted" /\ rows[t].status = "saved")
    <3>1. PICK row, group : row = rows[t] /\ group = groups[rows[t].group]
      OBVIOUS
    <3> QED BY <2>5, <3>1, RehydratedLife
  <2>7. CanBuild(t) /\ rows[t] # None /\ \A h \in TaskHandles(t) : ~Active(h)
    BY <2>3, <2>4
  <2> QED BY <2>5, <2>6, <2>7, RegisterRuns
<1>3. CASE SweepRegisters
  <2>1. PICK done \in SUBSET Tasks :
          /\ Register([t \in done |->
               Rehydrated(sweep.rows[t], sweep.groups[sweep.rows[t].group])])
          /\ \A t \in done : sweep.rows[t] # None /\ CanBuild(t)
    BY <1>3 DEF SweepRegisters
  <2>2. PICK new : new = [t \in done |->
          Rehydrated(sweep.rows[t], sweep.groups[sweep.rows[t].group])]
    OBVIOUS
  <2>3. /\ sweep.rows = rows
        /\ \A h \in Handles : ~Active(h)
    BY <1>3 DEF SweepRegisters, SweepStands, Active
  <2>4. ASSUME NEW t \in done
        PROVE  new[t].life = "over" \/ (new[t].life = "unstarted" /\ rows[t].status = "saved")
    <3>1. PICK row, group : row = rows[t] /\ group = sweep.groups[rows[t].group]
      OBVIOUS
    <3> QED BY <2>2, <2>3, <3>1, RehydratedLife
  <2>5. /\ DOMAIN new = done /\ Register(new) /\ UNCHANGED rows
        /\ \A t \in done : /\ CanBuild(t) /\ rows[t] # None
                           /\ \A h \in TaskHandles(t) : ~Active(h)
    BY <1>3, <2>1, <2>2, <2>3 DEF SweepRegisters, TaskHandles
  <2> QED BY <2>4, <2>5, RegisterRuns
<1> QED
  BY <1>1, <1>2, <1>3
     DEF RecoveryStep, RecoverChecks, RecoverReads, RecoverRegisters, SweepReads, SweepReadsGroups

\* The runs of a task that a deletion is done sealing are over or ending.
LEMMA SealedIsQuiet ==
  ASSUME Types, Registered, SealHolds, Deleting, NEW t \in Done
  PROVE  \A h \in TaskHandles(t) : ~Live(h)
<1>1. t \in Tasks
  BY CallFields DEF Types, TypeOK, Done, Deleting
<1> QED BY <1>1, NoneIsNothing, HandleTask DEF Types, TypeOK, Registered, SealHolds, Live, TaskHandles

LEMMA DeletionStepRuns ==
  ASSUME Types, Registered, OneDriver, SealHolds, DeletionStep
  PROVE  Registered' /\ OneDriver'
<1> USE NoneIsNothing DEF Types, TypeOK
<1>1. CASE UNCHANGED <<registry, rows>> /\ \A h \in Handles : handles'[h].life = handles[h].life
  <2>1. Registered'
    BY <1>1, RegistryKept DEF Live
  <2>2. \A h \in Handles : Drives(h)' => Drives(h)
    BY <1>1 DEF Drives, Active
  <2> QED BY <1>1, <2>1, <2>2, FewerDrive DEF OneDriver
<1>2. ASSUME NEW t \in Tasks, DeleteNext(t)
      PROVE  Registered' /\ OneDriver'
  <2>1. \A h \in TaskHandles(t) : ~Live(h)
    <3>1. Deleting /\ t \in Done
      BY <1>2 DEF DeleteNext, Deleting, Done, CallWell
    <3> QED BY <3>1, SealedIsQuiet
  <2>2. /\ registry'[t] = None
        /\ \A s \in Tasks : s # t => registry'[s] = registry[s] /\ rows'[s] = rows[s]
        /\ rows'[t] \in {rows[t], None}
    BY <1>2 DEF DeleteNext, DropTask
  <2>3. \A h \in Handles : \/ handles'[h].life = handles[h].life
                           \/ handles[h].life # "unborn" /\ handles'[h].life = "over" /\ h[1] = t
    <3>1. CASE handles' = handles
      BY <3>1
    <3>2. CASE /\ registry[t] # None /\ handles[registry[t]].life \in {"unstarted", "over"}
               /\ handles' = Retire(registry[t])
      <4>1. PICK g \in Handles : g = registry[t] /\ g[1] = t
        BY <3>2
      <4> QED BY <3>2, <4>1, RetireType
    <3> QED BY <1>2, <3>1, <3>2 DEF DeleteNext
  <2>4. Registered'
    <3>1. \A s \in Tasks : registry'[s] # None =>
            rows'[s] # None /\ handles'[registry'[s]].life # "unborn"
      BY <2>2, <2>3 DEF Registered
    <3>2. \A h \in Handles : Live(h)' => registry'[h[1]] = h
      BY <2>1, <2>2, <2>3, HandleTask DEF Registered, Live, TaskHandles
    <3> QED BY <3>1, <3>2 DEF Registered, Live
  <2>5. \A h \in Handles : Drives(h)' => Drives(h)
    BY <2>2, <2>3, HandleTask DEF Drives, Active
  <2>6. \A h \in Handles : Drives(h)' /\ rows'[h[1]] # None => rows'[h[1]].status # "ended"
    BY <2>2, <2>5, HandleTask DEF OneDriver
  <2> QED BY <2>4, <2>5, <2>6, FewerDrive
<1>3. ASSUME NEW t \in Tasks, SealNext(t)
      PROVE  UNCHANGED <<registry, rows>> /\ \A h \in Handles : handles'[h].life = handles[h].life
  <2>1. CASE registry[t] # None /\ handles' = [handles EXCEPT ![registry[t]].sealed = TRUE]
    <3>1. PICK g \in Handles : g = registry[t]
      BY <2>1
    <3> QED BY <1>3, <2>1, <3>1, SealLives DEF SealNext
  <2>2. CASE handles' \in {handles, unsealAll(op.sealed)}
    BY <1>3, <2>2, SealLives DEF SealNext
  <2> QED BY <1>3, <2>1, <2>2 DEF SealNext
<1>4. ASSUME NEW t \in Tasks, ReleaseNext(t)
      PROVE  UNCHANGED <<registry, rows>> /\ \A h \in Handles : handles'[h].life = handles[h].life
  BY <1>4, SealLives DEF ReleaseNext
<1> QED
  BY <1>1, <1>2, <1>3, <1>4
     DEF DeletionStep, DeleteTask, DeleteGroup, BeginDeletion, NextPhase, Ungroup, Uncache

LEMMA CrashRuns ==
  ASSUME Types, Crash
  PROVE  Registered' /\ OneDriver'
<1>1. \A h \in Handles : handles'[h].life \in {"unborn", "over"}
  BY DEF Crash
<1>2. \A t \in Tasks : registry'[t] = None
  BY DEF Crash
<1> QED BY <1>1, <1>2 DEF Registered, OneDriver, Drives, Active, Live, TaskHandles

-----------------------------------------------------------------------------
(* What the calls under way rely on.                                       *)

\* During a sweep at startup only the sweep goes on, or the process dies.
LEMMA SweepAlone ==
  ASSUME Types, SweepStands, "sweep" \notin Races, Sweeping, Act
  PROVE  SweepReadsGroups \/ SweepRegisters \/ Crash
<1> USE DEF SweepStands
<1>1. op.pc = "idle" /\ ~Quiet
  BY DEF Idle, Quiet
<1>2. ~PlacementStep
  BY <1>1 DEF PlacementStep, CreateTask, AssignSaves, AssignReleases, CreateGroup, UpdateGroup
<1>3. ~DeletionStep
  BY <1>1 DEF DeletionStep, DeleteTask, DeleteGroup, BeginDeletion, SealNext, ReleaseNext,
              DeleteNext, NextPhase, Ungroup, Uncache
<1>4. \A h \in Handles : ~HandleStep(h)
  BY HandleStepEffect
<1>5. RecoveryStep => SweepReadsGroups \/ SweepRegisters
  BY <1>1 DEF RecoveryStep, RecoverChecks, RecoverReads, RecoverRegisters, SweepReads
<1> QED BY <1>2, <1>3, <1>4, <1>5 DEF Act

\* Which calls a step may belong to.
LEMMA PlacementCall ==
  ASSUME PlacementStep
  PROVE  /\ UNCHANGED sweep
         /\ \/ UNCHANGED <<handles, registry, rows, locked, op>>
            \/ op = Idle /\ UNCHANGED op
            \/ op'.pc \in {"idle", "assigning"}
<1>1. ASSUME NEW t, NEW g, NEW own, CreateTask(t, g, own)
      PROVE  op = Idle /\ UNCHANGED <<op, sweep>>
  BY <1>1 DEF CreateTask
<1>2. ASSUME NEW t, NEW k, NEW a, AssignSaves(t, k, a)
      PROVE  op'.pc = "assigning" /\ UNCHANGED sweep
  BY <1>2 DEF AssignSaves
<1>3. ASSUME AssignReleases
      PROVE  op'.pc = "idle" /\ UNCHANGED sweep
  BY <1>3 DEF AssignReleases, Idle
<1>4. ASSUME NEW g, NEW p, CreateGroup(g, p) \/ UpdateGroup(g, p)
      PROVE  UNCHANGED <<handles, registry, rows, locked, op, sweep>>
  BY <1>4 DEF CreateGroup, UpdateGroup, SaveGroup
<1> QED BY <1>1, <1>2, <1>3, <1>4 DEF PlacementStep

LEMMA DeletionOf ==
  ASSUME Types, DeletionStep
  PROVE  /\ Deleting \/ Leaving \/ op = Idle
         /\ op'.pc \in {"idle", "sealing", "releasing", "deleting", "ungrouping", "uncaching"}
         /\ UNCHANGED sweep
<1>1. ASSUME NEW t \in Tasks, SealNext(t) \/ ReleaseNext(t) \/ DeleteNext(t)
      PROVE  /\ Deleting /\ UNCHANGED sweep
             /\ op' = Idle \/ op'.pc = op.pc
  <2>1. op.pc \in {"sealing", "releasing", "deleting"} /\ UNCHANGED sweep
    BY <1>1 DEF SealNext, ReleaseNext, DeleteNext
  <2>2. \/ op' = Idle
        \/ op' = [op EXCEPT !.todo = @ \ {t}]
        \/ op' = [op EXCEPT !.todo = @ \ {t}, !.sealed = @ \cup {registry[t]}]
    BY <1>1 DEF SealNext, ReleaseNext, DeleteNext
  <2>3. op \in [pc: {"sealing", "releasing", "deleting", "ungrouping", "uncaching"},
                group: Groups \cup {None}, ids: SUBSET Tasks, todo: SUBSET Tasks,
                sealed: SUBSET Handles]
    BY <2>1, CallFields DEF Types, TypeOK, Deleting
  <2> QED BY <2>1, <2>2, <2>3 DEF Deleting
<1>2. ASSUME NextPhase \/ Ungroup \/ Uncache
      PROVE  /\ Deleting \/ Leaving
             /\ UNCHANGED sweep
             /\ op'.pc \in {"idle", "sealing", "releasing", "deleting", "ungrouping", "uncaching"}
  <2>1. op \in [pc: {"sealing", "releasing", "deleting", "ungrouping", "uncaching"},
                group: Groups \cup {None}, ids: SUBSET Tasks, todo: SUBSET Tasks,
                sealed: SUBSET Handles] /\ op.todo \subseteq op.ids
    BY <1>2, CallFields DEF Types, TypeOK, CallWell, NextPhase, Ungroup, Uncache, Deleting, Leaving
  <2>2. CASE NextPhase
    <3>1. op' = Idle \/ op' \in Deletions
      BY <2>1, <2>2 DEF NextPhase, Deletions
    <3>2. Deleting /\ UNCHANGED sweep
      BY <2>2 DEF NextPhase, Deleting
    <3>3. op'.pc \in {"idle", "sealing", "releasing", "deleting", "ungrouping", "uncaching"}
      BY <3>1 DEF Deletions, Idle
    <3> QED BY <3>2, <3>3
  <2>3. CASE Ungroup
    <3>1. op' = Idle \/ op' \in Deletions
      BY <2>1, <2>3 DEF Ungroup, Deletions
    <3>2. Leaving /\ UNCHANGED sweep
      BY <2>3 DEF Ungroup, Leaving
    <3>3. op'.pc \in {"idle", "sealing", "releasing", "deleting", "ungrouping", "uncaching"}
      BY <3>1 DEF Deletions, Idle
    <3> QED BY <3>2, <3>3
  <2>4. CASE Uncache
    BY <2>4 DEF Uncache, Deleting, Leaving, Idle
  <2> QED BY <1>2, <2>2, <2>3, <2>4
<1>3. ASSUME NEW ids, NEW g, BeginDeletion(ids, g)
      PROVE  op = Idle /\ UNCHANGED sweep /\ op'.pc = "sealing"
  BY <1>3 DEF BeginDeletion
<1>4. \/ \E t \in Tasks : SealNext(t) \/ ReleaseNext(t) \/ DeleteNext(t)
      \/ NextPhase \/ Ungroup \/ Uncache
      \/ \E ids, g : BeginDeletion(ids, g)
  BY DEF DeletionStep, DeleteTask, DeleteGroup
<1> QED BY <1>1, <1>2, <1>3, <1>4 DEF Deleting, Idle

LEMMA NextReadStands ==
  ASSUME Types, ReadStands, Act
  PROVE  ReadStands'
<1> USE DEF ReadStands, Active
<1>1. ASSUME NEW h \in Handles, HandleStep(h), op.pc = "recovering"
      PROVE  ReadStands'
  <2>1. PICK t \in Tasks : t = op.task /\ \A g \in TaskHandles(t) : ~Active(g)
    BY <1>1, CallFields DEF Types, TypeOK
  <2>2. CASE h[1] = t
    <3>1. /\ ~Active(h) /\ ~MayStart(h)
          /\ op' = op /\ rows' = rows /\ \A g \in TaskHandles(t) : handles'[g] = handles[g] \/ g = h
          /\ handles'[h].life = "over"
      BY <1>1, <2>1, <2>2, HandleStepEffect, HandleTask DEF MayStart, Live, TaskHandles
    <3> QED BY <1>1, <2>1, <3>1
  <2>3. CASE h[1] # t
    <3>1. op' = op /\ rows'[t] = rows[t] /\ \A g \in TaskHandles(t) : handles'[g] = handles[g]
      BY <1>1, <2>1, <2>3, HandleStepEffect DEF TaskHandles
    <3> QED BY <1>1, <2>1, <3>1
  <2> QED BY <2>2, <2>3
<1>2. ASSUME NEW h \in Handles, HandleStep(h), op.pc # "recovering"
      PROVE  ReadStands'
  BY <1>2, HandleStepEffect
<1>3. CASE PlacementStep
  BY <1>3, PlacementCall DEF Idle, TaskHandles
<1>4. CASE RecoveryStep
  <2>1. ASSUME NEW t \in Tasks, RecoverChecks(t)
        PROVE  ReadStands'
    BY <2>1, NoneIsNothing DEF RecoverChecks, MayRecover, Live, TaskHandles
  <2>2. ASSUME RecoverReads
        PROVE  ReadStands'
    <3>1. op \in [pc: {"recovering"}, task: Tasks, row: Rows \cup {None}]
      BY <2>2, CallFields DEF RecoverReads, Types, TypeOK
    <3> QED BY <2>2, <3>1 DEF RecoverReads, Idle, TaskHandles
  <2>3. CASE op' = Idle \/ UNCHANGED <<op, handles, rows>>
    BY <2>3 DEF Idle, TaskHandles
  <2> QED
    BY <1>4, <2>1, <2>2, <2>3
       DEF RecoveryStep, RecoverRegisters, SweepReads, SweepReadsGroups, SweepRegisters
<1>5. CASE DeletionStep
  BY <1>5, DeletionOf
<1>6. CASE Crash
  BY <1>6 DEF Crash, Idle
<1> QED BY <1>1, <1>2, <1>3, <1>4, <1>5, <1>6 DEF Act

LEMMA NextSweepStands ==
  ASSUME Types, SweepStands, "sweep" \notin Races, Act
  PROVE  SweepStands'
<1>1. CASE Sweeping
  <2>1. sweep \in [rows: [Tasks -> Rows \cup {None}], groups: GroupTables \cup {None}]
    BY <1>1 DEF Types, TypeOK, Sweeps, Sweeping
  <2>2. SweepReadsGroups \/ SweepRegisters \/ Crash
    BY <1>1, SweepAlone
  <2>3. CASE SweepReadsGroups
    BY <1>1, <2>1, <2>3 DEF SweepReadsGroups, SweepStands, Sweeping, groupVars
  <2>4. CASE SweepRegisters \/ Crash
    BY <2>4 DEF SweepRegisters, Crash, SweepStands, Sweeping
  <2> QED BY <2>2, <2>3, <2>4
<1>2. CASE ~Sweeping /\ ~SweepReads
  <2>1. UNCHANGED sweep \/ sweep' = Idle
    BY <1>2, HandleStepEffect, PlacementCall, DeletionOf
       DEF Act, RecoveryStep, RecoverChecks, RecoverReads, RecoverRegisters,
           SweepReadsGroups, SweepRegisters, Crash
  <2> QED BY <1>2, <2>1 DEF SweepStands, Sweeping
<1>3. CASE SweepReads
  BY <1>3 DEF SweepReads, Startup, SweepStands, Sweeping
<1> QED BY <1>1, <1>2, <1>3

-----------------------------------------------------------------------------
(* What each phase of a deletion has established.                          *)

\* A step that leaves the call to be no deletion, or leaves it and what it has
\* established alone, keeps all of it.
LEMMA PhaseKept ==
  ASSUME SealHolds, LocksGone,
         \/ op'.pc \notin {"sealing", "releasing", "deleting"}
         \/ UNCHANGED <<op, handles, registry, locked>>
  PROVE  SealHolds' /\ LocksGone'
<1>1. CASE op'.pc \notin {"sealing", "releasing", "deleting"}
  BY <1>1 DEF SealHolds, LocksGone, Deleting, Freed
<1>2. CASE UNCHANGED <<op, handles, registry, locked>>
  BY <1>2 DEF SealHolds, LocksGone, Deleting, Freed, Done
<1> QED BY <1>1, <1>2

LEMMA HandleStepPhase ==
  ASSUME Types, Registered, SealHolds, LocksGone, NEW h \in Handles, HandleStep(h)
  PROVE  SealHolds' /\ LocksGone'
<1>1. SealHolds'
  <2>1. CASE Deleting
    <3>1. UNCHANGED <<op, registry>>
      BY HandleStepEffect
    <3>2. ASSUME NEW g \in op.sealed
          PROVE  /\ handles'[g].life \in {"unstarted", "ending", "over"}
                 /\ handles'[g].life = "unstarted" => handles'[g].sealed
      <4>1. /\ g \in Handles /\ handles[g].life \in {"unstarted", "ending", "over"}
            /\ handles[g].life = "unstarted" => handles[g].sealed
        BY <2>1, CallFields DEF Types, TypeOK, SealHolds
      <4> QED BY <4>1, HandleStepEffect DEF Live
    <3> QED BY <2>1, <3>1, <3>2 DEF SealHolds, Deleting, Done
  <2>2. CASE ~Deleting
    BY <2>2, HandleStepEffect DEF SealHolds, Deleting
  <2> QED BY <2>1, <2>2
<1>2. LocksGone'
  <2>1. Freed' = Freed
    BY HandleStepEffect DEF Freed
  <2>2. ASSUME NEW t \in Freed, NEW k \in Kinds
        PROVE  locked'[k][t] = None
    <3>1. Deleting /\ t \in Done /\ t \in Tasks
      BY CallFields DEF Types, TypeOK, Freed, Deleting, Done
    <3>2. locked[k][t] = None /\ \A g \in TaskHandles(t) : ~Live(g)
      BY <3>1, SealedIsQuiet DEF LocksGone
    <3>3. CASE \E j \in Kinds, r \in Resources : Lock(h, j, r)
      <4>1. h[1] # t
        BY <3>2, <3>3, HandleTask DEF Lock, Live
      <4> QED BY <3>1, <3>2, <3>3, <4>1 DEF Lock, Types, TypeOK
    <3>4. CASE \E j \in Kinds : Unlock(h, j)
      BY <3>1, <3>2, <3>4, HandleTask DEF Unlock, Types, TypeOK
    <3>5. CASE UNCHANGED locked
      BY <3>2, <3>5
    <3> QED
      BY <3>3, <3>4, <3>5
         DEF HandleStep, Start, KillUnstarted, Checkpoint, Detach, Settle, Stamp
  <2> QED BY <2>1, <2>2 DEF LocksGone
<1> QED BY <1>1, <1>2

\* A call that is no deletion keeps what deletions have established: there is none,
\* or it is a task group that is written.
LEMMA OtherStepPhase ==
  ASSUME SealHolds, LocksGone, RecoveryStep \/ PlacementStep \/ Crash
  PROVE  SealHolds' /\ LocksGone'
<1>1. CASE RecoveryStep
  <2>1. \/ op'.pc \notin {"sealing", "releasing", "deleting"}
        \/ UNCHANGED <<op, handles, registry, locked>>
    <3>1. ASSUME NEW t, RecoverChecks(t)
          PROVE  op'.pc = "recovering"
      BY <3>1 DEF RecoverChecks
    <3>2. ASSUME RecoverReads
          PROVE  op'.pc \in {"idle", "recovering"}
      <4>1. op'.pc = "recovering" \/ op' = Idle
        BY <3>2 DEF RecoverReads
      <4> QED BY <4>1 DEF Idle
    <3>3. ASSUME RecoverRegisters
          PROVE  op'.pc = "idle"
      BY <3>3 DEF RecoverRegisters, Idle
    <3>4. ASSUME SweepRegisters
          PROVE  op'.pc = "idle"
      BY <3>4 DEF SweepRegisters, Idle
    <3>5. ASSUME SweepReads \/ SweepReadsGroups
          PROVE  UNCHANGED <<op, handles, registry, locked>>
      BY <3>5 DEF SweepReads, SweepReadsGroups
    <3> QED BY <1>1, <3>1, <3>2, <3>3, <3>4, <3>5 DEF RecoveryStep
  <2> QED BY <2>1, PhaseKept
<1>2. CASE PlacementStep
  BY <1>2, PlacementCall, PhaseKept DEF Idle
<1>3. CASE Crash
  BY <1>3, PhaseKept DEF Crash, Idle
<1> QED BY <1>1, <1>2, <1>3

LEMMA DeletionStepPhase ==
  ASSUME Types, Registered, SealHolds, LocksGone, DeletionStep
  PROVE  SealHolds' /\ LocksGone'
<1> USE NoneIsNothing DEF Types, TypeOK
<1>1. ASSUME NEW ids, NEW g, BeginDeletion(ids, g)
      PROVE  SealHolds' /\ LocksGone'
  BY <1>1 DEF BeginDeletion, SealHolds, LocksGone, Deleting, Done, Freed
<1>2. CASE op' = Idle
  BY <1>2, PhaseKept DEF Idle
<1>3. ASSUME NEW t \in Tasks, SealNext(t), op' # Idle
      PROVE  SealHolds' /\ LocksGone'
  <2>1. /\ Deleting /\ op.pc = "sealing" /\ t \in op.todo /\ op.todo \subseteq op.ids
        /\ op \in [pc: {"sealing"}, group: Groups \cup {None}, ids: SUBSET Tasks,
                   todo: SUBSET Tasks, sealed: SUBSET Handles]
    BY <1>3, CallFields DEF SealNext, Deleting, CallWell
  <2>2. CASE registry[t] = None /\ op' = [op EXCEPT !.todo = @ \ {t}] /\ UNCHANGED handles
    <3>1. /\ op'.pc = "sealing" /\ op'.ids = op.ids /\ op'.sealed = op.sealed
          /\ Done' = Done \cup {t} /\ Freed' = {} /\ Deleting'
      BY <2>1, <2>2 DEF Done, Freed, Deleting
    <3>2. UNCHANGED <<handles, registry>>
      BY <1>3, <2>2 DEF SealNext
    <3> QED BY <2>1, <2>2, <3>1, <3>2 DEF SealHolds, LocksGone
  <2>3. CASE /\ registry[t] # None /\ ~Live(registry[t])
             /\ op' = [op EXCEPT !.todo = @ \ {t}, !.sealed = @ \cup {registry[t]}]
             /\ handles' = [handles EXCEPT ![registry[t]].sealed = TRUE]
    <3>1. PICK h \in Handles : h = registry[t] /\ h[1] = t
      BY <2>3
    <3>2. op' = [op EXCEPT !.todo = @ \ {t}, !.sealed = @ \cup {h}]
      BY <2>3, <3>1
    <3>3. /\ op'.pc = "sealing" /\ op'.ids = op.ids /\ op'.sealed = op.sealed \cup {h}
          /\ op'.todo = op.todo \ {t}
      BY <2>1, <3>2
    <3>4. Done' = Done \cup {t} /\ Freed' = {} /\ Deleting'
      BY <2>1, <3>3 DEF Done, Freed, Deleting
    <3>5. /\ registry' = registry
          /\ handles'[h].sealed /\ handles'[h].life \in {"unstarted", "ending", "over"}
          /\ \A g \in Handles : g # h => handles'[g] = handles[g]
      <4>1. handles[h].life # "unborn" /\ ~Live(h)
        BY <2>3, <3>1 DEF Registered
      <4> QED BY <1>3, <2>3, <3>1, <4>1 DEF SealNext, Live, HandleRecords
    <3>6. \A g \in op.sealed \cup {h} :
            /\ g[1] \in op.ids /\ handles'[g].life \in {"unstarted", "ending", "over"}
            /\ handles'[g].life = "unstarted" => handles'[g].sealed
      BY <2>1, <3>1, <3>5 DEF SealHolds
    <3> QED BY <2>1, <3>1, <3>3, <3>4, <3>5, <3>6 DEF SealHolds, LocksGone
  <2> QED BY <1>3, <2>2, <2>3 DEF SealNext
<1>4. ASSUME NEW t \in Tasks, ReleaseNext(t), op' # Idle
      PROVE  SealHolds' /\ LocksGone'
  <2>1. /\ Deleting /\ op.pc = "releasing" /\ t \in op.todo /\ op.todo \subseteq op.ids
        /\ op \in [pc: {"releasing"}, group: Groups \cup {None}, ids: SUBSET Tasks,
                   todo: SUBSET Tasks, sealed: SUBSET Handles]
    BY <1>4, CallFields DEF ReleaseNext, Deleting, CallWell
  <2>2. /\ op' = [op EXCEPT !.todo = @ \ {t}] /\ UNCHANGED <<handles, registry>>
        /\ locked' = [k \in Kinds |-> [locked[k] EXCEPT ![t] = None]]
    BY <1>4 DEF ReleaseNext
  <2>3. /\ op'.pc = "releasing" /\ op'.ids = op.ids /\ op'.sealed = op.sealed
        /\ op'.todo = op.todo \ {t}
    BY <2>1, <2>2
  <2>4. Done' = Done /\ Freed' = Freed \cup {t} /\ Deleting'
    BY <2>1, <2>3 DEF Done, Freed, Deleting
  <2>5. \A s \in Freed \cup {t}, k \in Kinds : locked'[k][s] = None
    BY <2>1, <2>2 DEF LocksGone, Freed
  <2> QED BY <2>1, <2>2, <2>3, <2>4, <2>5 DEF SealHolds, LocksGone
<1>5. ASSUME NEW t \in Tasks, DeleteNext(t), op' # Idle
      PROVE  SealHolds' /\ LocksGone'
  <2>1. /\ Deleting /\ op.pc = "deleting" /\ t \in op.todo /\ op.todo \subseteq op.ids
        /\ op \in [pc: {"deleting"}, group: Groups \cup {None}, ids: SUBSET Tasks,
                   todo: SUBSET Tasks, sealed: SUBSET Handles]
    BY <1>5, CallFields DEF DeleteNext, Deleting, CallWell
  <2>2. op' = [op EXCEPT !.todo = @ \ {t}] /\ UNCHANGED locked
    BY <1>5 DEF DeleteNext
  <2>3. /\ op'.pc = "deleting" /\ op'.ids = op.ids /\ op'.sealed = op.sealed
    BY <2>1, <2>2
  <2>4. Done' = Done /\ Freed' = Freed /\ Deleting'
    BY <2>1, <2>3 DEF Done, Freed, Deleting
  <2>5. registry'[t] = None /\ \A s \in Tasks : s # t => registry'[s] = registry[s]
    BY <1>5 DEF DeleteNext
  <2>6. \A g \in Handles : handles'[g] = handles[g] \/ handles'[g].life = "over"
    <3>1. CASE registry[t] # None /\ handles' = Retire(registry[t])
      <4>1. PICK h \in Handles : h = registry[t]
        BY <3>1
      <4> QED BY <3>1, <4>1 DEF Retire
    <3> QED BY <1>5, <3>1 DEF DeleteNext
  <2>7. \A g \in op.sealed :
          /\ handles'[g].life \in {"unstarted", "ending", "over"}
          /\ handles'[g].life = "unstarted" => handles'[g].sealed
    BY <2>1, <2>6 DEF SealHolds
  <2>8. \A s \in Done : s \in Tasks
    BY <2>1 DEF Done
  <2> QED BY <2>1, <2>2, <2>3, <2>4, <2>5, <2>7, <2>8 DEF SealHolds, LocksGone
<1>6. ASSUME NextPhase, op' # Idle
      PROVE  SealHolds' /\ LocksGone'
  <2>1. /\ Deleting /\ op.todo = {} /\ UNCHANGED <<handles, registry, locked>>
        /\ op \in [pc: {"sealing", "releasing", "deleting", "ungrouping", "uncaching"},
                   group: Groups \cup {None}, ids: SUBSET Tasks,
                   todo: SUBSET Tasks, sealed: SUBSET Handles]
    BY <1>6, CallFields DEF NextPhase, Deleting
  <2>2. CASE op.pc = "sealing"
    <3>1. op' = [op EXCEPT !.pc = "releasing", !.todo = op.ids]
      BY <1>6, <2>2 DEF NextPhase
    <3>2. /\ op'.pc = "releasing" /\ op'.ids = op.ids /\ op'.sealed = op.sealed
          /\ op'.todo = op.ids
      BY <2>1, <3>1
    <3>3. Done' = Done /\ Freed' = {} /\ Deleting'
      BY <2>1, <2>2, <3>2 DEF Done, Freed, Deleting
    <3> QED BY <2>1, <3>2, <3>3 DEF SealHolds, LocksGone
  <2>3. CASE op.pc = "releasing"
    <3>1. op' = [op EXCEPT !.pc = "deleting", !.todo = op.ids]
      BY <1>6, <2>3 DEF NextPhase
    <3>2. /\ op'.pc = "deleting" /\ op'.ids = op.ids /\ op'.sealed = op.sealed
      BY <2>1, <3>1
    <3>3. Done' = Done /\ Freed' = Freed /\ Deleting'
      BY <2>1, <2>3, <3>2 DEF Done, Freed, Deleting
    <3> QED BY <2>1, <3>2, <3>3 DEF SealHolds, LocksGone
  <2>4. CASE op.pc = "deleting"
    <3>1. op' = [op EXCEPT !.pc = "ungrouping"]
      BY <1>6, <2>4 DEF NextPhase
    <3>2. op'.pc = "ungrouping"
      BY <2>1, <3>1
    <3> QED BY <3>2, PhaseKept
  <2> QED BY <2>1, <2>2, <2>3, <2>4 DEF Deleting
<1>7. ASSUME Ungroup, op' # Idle
      PROVE  SealHolds' /\ LocksGone'
  <2>1. op \in [pc: {"ungrouping"}, group: Groups \cup {None}, ids: SUBSET Tasks,
                todo: SUBSET Tasks, sealed: SUBSET Handles]
    BY <1>7, CallFields DEF Ungroup, Leaving
  <2>2. op' = [op EXCEPT !.pc = "uncaching"]
    BY <1>7 DEF Ungroup
  <2>3. op'.pc = "uncaching"
    BY <2>1, <2>2
  <2> QED BY <2>3, PhaseKept
<1> QED
  BY <1>1, <1>2, <1>3, <1>4, <1>5, <1>6, <1>7
     DEF DeletionStep, DeleteTask, DeleteGroup, Uncache

-----------------------------------------------------------------------------
(* Records, their locks and their groups.                                  *)

\* What writes the records.
LEMMA RowsChange ==
  ASSUME Act
  PROVE  \/ \E h \in Handles : HandleStep(h)
         \/ \E t \in Tasks, g \in Groups, own \in [Kinds -> Assignments] : CreateTask(t, g, own)
         \/ \E t \in Tasks, k \in Kinds, a \in Assignments : AssignSaves(t, k, a)
         \/ \E t \in Tasks : DeleteNext(t)
         \/ UNCHANGED rows
<1>1. RecoveryStep => UNCHANGED rows
  BY DEF RecoveryStep, RecoverChecks, RecoverReads, RecoverRegisters, SweepReads,
         SweepReadsGroups, SweepRegisters
<1>2. DeletionStep => UNCHANGED rows \/ \E t \in Tasks : DeleteNext(t)
  BY DEF DeletionStep, DeleteTask, DeleteGroup, BeginDeletion, SealNext, ReleaseNext,
         NextPhase, Ungroup, Uncache
<1>3. PlacementStep =>
        \/ \E t \in Tasks, g \in Groups, own \in [Kinds -> Assignments] : CreateTask(t, g, own)
        \/ \E t \in Tasks, k \in Kinds, a \in Assignments : AssignSaves(t, k, a)
        \/ UNCHANGED rows
  BY DEF PlacementStep, AssignReleases, CreateGroup, UpdateGroup, SaveGroup
<1> QED BY <1>1, <1>2, <1>3 DEF Act, Crash

\* Only a creation adds a record, and no record changes its group.
LEMMA NoNewMembers ==
  ASSUME Types, Act,
         ~(\E t \in Tasks, g \in Groups, own \in [Kinds -> Assignments] : CreateTask(t, g, own))
  PROVE  \A t \in Tasks : rows'[t] # None => rows[t] # None /\ rows'[t].group = rows[t].group
<1> USE DEF Types, TypeOK
<1>1. CASE \E h \in Handles : HandleStep(h)
  BY <1>1, HandleStepEffect
<1>2. ASSUME NEW t \in Tasks, NEW k \in Kinds, NEW a \in Assignments, AssignSaves(t, k, a)
      PROVE  \A s \in Tasks : rows'[s] # None => rows[s] # None /\ rows'[s].group = rows[s].group
  <2>1. rows[t] \in Rows /\ rows' = [rows EXCEPT ![t] = [rows[t] EXCEPT !.own[k] = a]]
    BY <1>2 DEF AssignSaves, SaveAssignment
  <2>2. [rows[t] EXCEPT !.own[k] = a].group = rows[t].group
    BY <2>1 DEF Rows
  <2> QED BY <2>1, <2>2, NoneIsNothing
<1>3. ASSUME NEW t \in Tasks, DeleteNext(t)
      PROVE  \A s \in Tasks : rows'[s] # None => rows[s] # None /\ rows'[s].group = rows[s].group
  BY <1>3 DEF DeleteNext, DropTask
<1>4. CASE UNCHANGED rows
  BY <1>4
<1> QED BY <1>1, <1>2, <1>3, <1>4, RowsChange

LEMMA NextLocks ==
  ASSUME Types, Registered, LocksGone, LocksHaveRecords, Act
  PROVE  LocksHaveRecords'
<1> USE NoneIsNothing DEF Types, TypeOK
<1>1. ASSUME NEW h \in Handles, HandleStep(h)
      PROVE  LocksHaveRecords'
  <2>1. \A t \in Tasks : rows[t] # None <=> rows'[t] # None
    BY <1>1, HandleStepEffect
  <2>2. CASE \E k \in Kinds, r \in Resources : Lock(h, k, r)
    <3>1. rows[h[1]] # None
      BY <2>2, HandleTask DEF Lock, Registered, Live
    <3> QED BY <2>1, <2>2, <3>1, HandleTask DEF Lock, LocksHaveRecords
  <2>3. CASE \E k \in Kinds : Unlock(h, k)
    BY <2>1, <2>3, HandleTask DEF Unlock, LocksHaveRecords
  <2>4. CASE UNCHANGED locked
    BY <2>1, <2>4 DEF LocksHaveRecords
  <2> QED
    BY <1>1, <2>2, <2>3, <2>4
       DEF HandleStep, Start, KillUnstarted, Checkpoint, Detach, Settle, Stamp
<1>2. ASSUME NEW t \in Tasks, DeleteNext(t)
      PROVE  LocksHaveRecords'
  <2>1. t \in Freed
    BY <1>2 DEF DeleteNext, Freed, CallWell, Deleting
  <2> QED BY <1>2, <2>1 DEF DeleteNext, DropTask, LocksGone, LocksHaveRecords
<1>3. ASSUME NEW t \in Tasks, ReleaseNext(t)
      PROVE  LocksHaveRecords'
  <2>1. \A k \in Kinds, s \in Tasks : locked'[k][s] \in {locked[k][s], None}
    BY <1>3 DEF ReleaseNext
  <2> QED BY <1>3, <2>1 DEF ReleaseNext, LocksHaveRecords
<1>4. CASE AssignReleases
  <2>1. \A k \in Kinds, s \in Tasks : locked'[k][s] \in {locked[k][s], None}
    BY <1>4, CallFields DEF AssignReleases
  <2> QED BY <1>4, <2>1 DEF AssignReleases, LocksHaveRecords
<1>5. ASSUME NEW t \in Tasks, NEW g \in Groups, NEW own \in [Kinds -> Assignments],
             CreateTask(t, g, own)
      PROVE  LocksHaveRecords'
  BY <1>5 DEF CreateTask, InsertTask, LocksHaveRecords
<1>6. ASSUME NEW t \in Tasks, NEW k \in Kinds, NEW a \in Assignments, AssignSaves(t, k, a)
      PROVE  LocksHaveRecords'
  <2>1. \A s \in Tasks : rows[s] # None => rows'[s] # None
    <3>1. rows[t] \in Rows /\ rows' = [rows EXCEPT ![t] = [rows[t] EXCEPT !.own[k] = a]]
      BY <1>6 DEF AssignSaves, SaveAssignment
    <3>2. [rows[t] EXCEPT !.own[k] = a] \in Rows
      BY <3>1, AssignmentsAssumption DEF Rows
    <3> QED BY <3>1, <3>2
  <2> QED BY <1>6, <2>1 DEF AssignSaves, LocksHaveRecords
<1>7. CASE UNCHANGED <<rows, locked>>
  BY <1>7 DEF LocksHaveRecords
<1>8. RecoveryStep => UNCHANGED <<rows, locked>>
  BY DEF RecoveryStep, RecoverChecks, RecoverReads, RecoverRegisters, SweepReads,
         SweepReadsGroups, SweepRegisters
<1>9. DeletionStep => UNCHANGED <<rows, locked>> \/ \E t \in Tasks : DeleteNext(t) \/ ReleaseNext(t)
  BY DEF DeletionStep, DeleteTask, DeleteGroup, BeginDeletion, SealNext,
         NextPhase, Ungroup, Uncache
<1>10. PlacementStep => \/ UNCHANGED <<rows, locked>>
                        \/ AssignReleases
                        \/ \E t \in Tasks, k \in Kinds, a \in Assignments : AssignSaves(t, k, a)
                        \/ \E t \in Tasks, g \in Groups, own \in [Kinds -> Assignments] :
                             CreateTask(t, g, own)
  BY DEF PlacementStep, CreateGroup, UpdateGroup, SaveGroup
<1>11. Crash => UNCHANGED <<rows, locked>>
  BY DEF Crash
<1> QED
  BY <1>1, <1>2, <1>3, <1>4, <1>5, <1>6, <1>7, <1>8, <1>9, <1>10, <1>11 DEF Act

\* The tables of task groups change at a save, at the end of a deletion, and when
\* another process loads them.
LEMMA GroupsChange ==
  ASSUME Act
  PROVE  \/ UNCHANGED groupVars
         \/ \E g \in Groups, p \in Placements : CreateGroup(g, p) \/ UpdateGroup(g, p)
         \/ Ungroup \/ Uncache \/ Crash
<1>1. CASE \E h \in Handles : HandleStep(h)
  BY <1>1
     DEF HandleStep, Start, KillUnstarted, Checkpoint, Detach, Settle, Stamp, Lock, Unlock
<1>2. RecoveryStep => UNCHANGED groupVars
  BY DEF RecoveryStep, RecoverChecks, RecoverReads, RecoverRegisters, SweepReads,
         SweepReadsGroups, SweepRegisters
<1>3. DeletionStep => UNCHANGED groupVars \/ Ungroup \/ Uncache
  BY DEF DeletionStep, DeleteTask, DeleteGroup, BeginDeletion, SealNext, ReleaseNext,
         DeleteNext, NextPhase
<1>4. \/ ~PlacementStep \/ UNCHANGED groupVars
      \/ \E g \in Groups, p \in Placements : CreateGroup(g, p) \/ UpdateGroup(g, p)
  BY DEF PlacementStep, CreateTask, AssignSaves, AssignReleases
<1> QED BY <1>1, <1>2, <1>3, <1>4 DEF Act

\* Every step but a deletion's own goes on with a deletion as it was, or ends it.
LEMMA DeletionKept ==
  ASSUME Types, Act, ~DeletionStep
  PROVE  UNCHANGED op \/ op'.pc \in {"idle", "recovering", "assigning"}
<1>1. CASE \E h \in Handles : HandleStep(h)
  BY <1>1, HandleStepEffect
<1>2. CASE PlacementStep
  BY <1>2, PlacementCall
<1>3. CASE RecoveryStep
  <2>1. ASSUME NEW t, RecoverChecks(t)
        PROVE  op'.pc = "recovering"
    BY <2>1 DEF RecoverChecks
  <2>2. ASSUME RecoverReads
        PROVE  op'.pc = "recovering" \/ op' = Idle
    BY <2>2 DEF RecoverReads
  <2>3. ASSUME RecoverRegisters \/ SweepRegisters
        PROVE  op' = Idle
    BY <2>3 DEF RecoverRegisters, SweepRegisters
  <2>4. ASSUME SweepReads \/ SweepReadsGroups
        PROVE  UNCHANGED op
    BY <2>4 DEF SweepReads, SweepReadsGroups
  <2> QED BY <1>3, <2>1, <2>2, <2>3, <2>4 DEF RecoveryStep, Idle
<1>4. CASE Crash
  BY <1>4 DEF Crash, Idle
<1> QED BY <1>1, <1>2, <1>3, <1>4 DEF Act

LEMMA NextMembers ==
  ASSUME Types, MembersListed, Act
  PROVE  MembersListed'
<1> USE NoneIsNothing DEF Types, TypeOK
<1>1. CASE ~DeletionStep
  <2>1. CASE op'.pc \in {"idle", "recovering", "assigning"}
    BY <2>1 DEF MembersListed, Deleting, Leaving
  <2>2. CASE UNCHANGED op /\ (Deleting \/ Leaving)
    <3>1. \A t \in Tasks : rows'[t] # None => rows[t] # None /\ rows'[t].group = rows[t].group
      <4>1. \A t, g, own : ~CreateTask(t, g, own)
        BY <2>2 DEF CreateTask, Deleting, Leaving, Idle
      <4> QED BY <4>1, NoNewMembers
    <3> QED BY <2>2, <3>1 DEF MembersListed, TasksInGroup, Remaining, Deleting, Leaving
  <2>3. CASE UNCHANGED op /\ ~(Deleting \/ Leaving)
    BY <2>3 DEF MembersListed, Deleting, Leaving
  <2> QED BY <1>1, <2>1, <2>2, <2>3, DeletionKept
<1>2. CASE DeletionStep
  <2>0. \A t \in Tasks : rows'[t] # None => rows[t] # None /\ rows'[t].group = rows[t].group
    <3>1. CASE \E t \in Tasks : DeleteNext(t)
      BY <3>1 DEF DeleteNext, DropTask
    <3>2. CASE UNCHANGED rows
      BY <3>2
    <3> QED
      BY <1>2, <3>1, <3>2
         DEF DeletionStep, DeleteTask, DeleteGroup, BeginDeletion, SealNext, ReleaseNext,
             NextPhase, Ungroup, Uncache
  <2>1. CASE op' = Idle
    BY <2>1 DEF MembersListed, Deleting, Leaving, Idle
  <2>2. ASSUME NEW t \in Tasks, DeleteTask(t)
        PROVE  MembersListed'
    BY <2>2 DEF DeleteTask, BeginDeletion, MembersListed
  <2>3. ASSUME NEW g \in Groups, DeleteGroup(g)
        PROVE  MembersListed'
    BY <2>3 DEF DeleteGroup, BeginDeletion, MembersListed, Remaining, Leaving, TasksInGroup
  <2>4. ASSUME (Deleting \/ Leaving), op' # Idle,
               \/ \E t \in Tasks : SealNext(t) \/ ReleaseNext(t) \/ DeleteNext(t)
               \/ NextPhase \/ Ungroup
        PROVE  MembersListed'
    <3>1. op \in [pc: {"sealing", "releasing", "deleting", "ungrouping", "uncaching"},
                  group: Groups \cup {None}, ids: SUBSET Tasks, todo: SUBSET Tasks,
                  sealed: SUBSET Handles] /\ op.todo \subseteq op.ids
      BY <2>4, CallFields DEF CallWell
    <3>2. /\ op'.group = op.group
          /\ \/ Remaining \subseteq Remaining'
             \/ \E t \in Tasks : Remaining \ {t} \subseteq Remaining' /\ rows'[t] = None
      <4>1. ASSUME NEW t \in Tasks, SealNext(t) \/ ReleaseNext(t)
            PROVE  op'.group = op.group /\ Remaining' = Remaining
        <5>1. \/ op' = [op EXCEPT !.todo = @ \ {t}]
              \/ op' = [op EXCEPT !.todo = @ \ {t}, !.sealed = @ \cup {registry[t]}]
          BY <2>4, <4>1 DEF SealNext, ReleaseNext
        <5>2. op'.group = op.group /\ op'.pc = op.pc /\ op'.ids = op.ids
          BY <3>1, <5>1
        <5>3. op.pc \in {"sealing", "releasing"}
          BY <4>1 DEF SealNext, ReleaseNext
        <5> QED BY <5>2, <5>3 DEF Remaining, Leaving
      <4>2. ASSUME NEW t \in Tasks, DeleteNext(t)
            PROVE  op'.group = op.group /\ Remaining \ {t} \subseteq Remaining' /\ rows'[t] = None
        <5>1. /\ op' = [op EXCEPT !.todo = @ \ {t}] /\ op.pc = "deleting"
              /\ rows'[t] = None
          BY <2>4, <4>2 DEF DeleteNext, DropTask
        <5>2. op'.group = op.group /\ op'.pc = "deleting" /\ op'.todo = op.todo \ {t}
          BY <3>1, <5>1
        <5>3. Remaining = op.todo
          BY <5>1 DEF Remaining, Leaving
        <5>4. Remaining' = op.todo \ {t}
          BY <5>2 DEF Remaining, Leaving
        <5> QED BY <5>1, <5>2, <5>3, <5>4
      <4>3. ASSUME NextPhase
            PROVE  op'.group = op.group /\ Remaining \subseteq Remaining'
        <5>1. CASE op.pc = "sealing"
          <6>1. op' = [op EXCEPT !.pc = "releasing", !.todo = op.ids]
            BY <4>3, <5>1 DEF NextPhase
          <6>2. op'.group = op.group /\ op'.pc = "releasing" /\ op'.ids = op.ids
            BY <3>1, <6>1
          <6> QED BY <5>1, <6>2 DEF Remaining, Leaving
        <5>2. CASE op.pc = "releasing"
          <6>1. op' = [op EXCEPT !.pc = "deleting", !.todo = op.ids]
            BY <4>3, <5>2 DEF NextPhase
          <6>2. op'.group = op.group /\ op'.pc = "deleting" /\ op'.todo = op.ids
            BY <3>1, <6>1
          <6> QED BY <5>2, <6>2 DEF Remaining, Leaving
        <5>3. CASE op.pc = "deleting"
          <6>1. op' = [op EXCEPT !.pc = "ungrouping"] /\ op.todo = {}
            BY <2>4, <4>3, <5>3 DEF NextPhase
          <6>2. op'.group = op.group
            BY <3>1, <6>1
          <6> QED BY <5>3, <6>1, <6>2 DEF Remaining
        <5> QED BY <4>3, <5>1, <5>2, <5>3 DEF NextPhase
      <4>4. ASSUME Ungroup
            PROVE  op'.group = op.group /\ Remaining \subseteq Remaining'
        <5>1. op' = [op EXCEPT !.pc = "uncaching"] /\ op.pc = "ungrouping"
          BY <2>4, <4>4 DEF Ungroup
        <5>2. op'.group = op.group
          BY <3>1, <5>1
        <5> QED BY <5>1, <5>2 DEF Remaining, Leaving
      <4> QED BY <2>4, <4>1, <4>2, <4>3, <4>4
    <3>3. op.group # None => TasksInGroup(op.group) \subseteq Remaining
      BY <2>4 DEF MembersListed
    <3>4. op'.group # None => TasksInGroup(op.group)' \subseteq Remaining'
      BY <2>0, <3>2, <3>3 DEF TasksInGroup
    <3> QED BY <3>2, <3>4 DEF MembersListed, TasksInGroup
  <2>5. ASSUME \/ \E t \in Tasks : SealNext(t) \/ ReleaseNext(t) \/ DeleteNext(t)
               \/ NextPhase \/ Ungroup
        PROVE  Deleting \/ Leaving
    BY <2>5 DEF SealNext, ReleaseNext, DeleteNext, NextPhase, Ungroup, Deleting, Leaving
  <2> QED BY <1>2, <2>1, <2>2, <2>3, <2>4, <2>5 DEF DeletionStep, Uncache
<1> QED BY <1>1, <1>2

\* A deletion that has dropped its group's record only has the cache left.
LEMMA UncachingStays ==
  ASSUME Types, Act, op.pc = "uncaching", ~Uncache, ~Crash
  PROVE  UNCHANGED op
<1>1. ~DeletionStep
  BY DEF DeletionStep, DeleteTask, DeleteGroup, BeginDeletion, SealNext, ReleaseNext,
         DeleteNext, NextPhase, Ungroup, Idle
<1>2. RecoveryStep => UNCHANGED op
  BY DEF RecoveryStep, RecoverRegisters, SweepRegisters, RecoverReads, RecoverChecks,
         SweepReads, SweepReadsGroups, Idle
<1>3. PlacementStep => UNCHANGED op
  <2>1. \A t, g, own : ~CreateTask(t, g, own)
    BY DEF CreateTask, Idle
  <2>2. ~AssignReleases /\ \A t, k, a : ~AssignSaves(t, k, a)
    BY DEF AssignReleases, AssignSaves, Idle
  <2> QED BY <2>1, <2>2 DEF PlacementStep, CreateGroup, UpdateGroup, SaveGroup
<1> QED BY <1>1, <1>2, <1>3, HandleStepEffect DEF Act

LEMMA NextCached ==
  ASSUME Types, CachedAreStored, Act
  PROVE  CachedAreStored'
<1> USE DEF Types, TypeOK, GroupTables
<1>1. ASSUME NEW g \in Groups, NEW p \in Placements, CreateGroup(g, p) \/ UpdateGroup(g, p)
      PROVE  CachedAreStored'
  <2>1. p # None
    BY PlacementsAssumption, NoneIsNothing
  <2> QED BY <1>1, <2>1 DEF CreateGroup, UpdateGroup, SaveGroup, StoreGroup, CachedAreStored
<1>2. CASE Ungroup
  <2>1. op \in [pc: {"ungrouping"}, group: Groups \cup {None}, ids: SUBSET Tasks,
                todo: SUBSET Tasks, sealed: SUBSET Handles]
    BY <1>2, CallFields DEF Ungroup, Leaving
  <2>2. CASE DropGroup(op.group) /\ op' = [op EXCEPT !.pc = "uncaching"]
    <3>1. op'.pc = "uncaching" /\ op'.group = op.group
      BY <2>1, <2>2
    <3>2. \A g \in Groups : g # op.group => storeGroups'[g] = storeGroups[g]
      BY <2>2 DEF DropGroup
    <3>3. groups' = groups /\ op.pc # "uncaching"
      BY <1>2 DEF Ungroup
    <3> QED BY <3>1, <3>2, <3>3 DEF CachedAreStored
  <2>3. CASE UNCHANGED <<groups, storeGroups>>
    BY <1>2, <2>3 DEF Ungroup, CachedAreStored
  <2> QED BY <1>2, <2>2, <2>3 DEF Ungroup
<1>3. CASE Uncache
  BY <1>3, NoneIsNothing DEF Uncache, CachedAreStored
<1>4. CASE Crash
  BY <1>4 DEF Crash, Loaded, CachedAreStored
<1>5. CASE UNCHANGED groupVars /\ ~Ungroup /\ ~Uncache /\ ~Crash
  <2>1. op.pc = "uncaching" => UNCHANGED op
    BY <1>5, UncachingStays
  <2> QED BY <1>5, <2>1 DEF CachedAreStored, groupVars
<1> QED BY <1>1, <1>2, <1>3, <1>4, <1>5, GroupsChange

LEMMA NextGroups ==
  ASSUME Types, CachedAreStored, MembersListed, RecordsHaveGroups, Act
  PROVE  RecordsHaveGroups'
<1> USE NoneIsNothing DEF Types, TypeOK
<1>1. ASSUME NEW t \in Tasks, NEW g \in Groups, NEW own \in [Kinds -> Assignments],
             CreateTask(t, g, own)
      PROVE  RecordsHaveGroups'
  <2>1. groups[g] # None /\ (g = Global \/ storeGroups[g] # None) /\ UNCHANGED groupVars
    BY <1>1 DEF CreateTask, CachedAreStored, Idle
  <2>2. rows'[t].group = g /\ \A s \in Tasks : s # t => rows'[s] = rows[s]
    BY <1>1 DEF CreateTask, InsertTask
  <2> QED BY <2>1, <2>2 DEF RecordsHaveGroups, groupVars
<1>2. CASE ~(\E t \in Tasks, g \in Groups, own \in [Kinds -> Assignments] : CreateTask(t, g, own))
  <2>1. \A t \in Tasks : rows'[t] # None => rows[t] # None /\ rows'[t].group = rows[t].group
    BY <1>2, NoNewMembers
  <2>2. ASSUME NEW t \in Tasks, rows'[t] # None, NEW g, g = rows[t].group
        PROVE  groups'[g] # None /\ (g = Global \/ storeGroups'[g] # None)
    <3>1. /\ rows[t] # None /\ g \in Groups
          /\ groups[g] # None /\ (g = Global \/ storeGroups[g] # None)
      BY <2>1, <2>2 DEF RecordsHaveGroups, Rows
    <3>2. ASSUME NEW h \in Groups, NEW p \in Placements, CreateGroup(h, p) \/ UpdateGroup(h, p)
          PROVE  groups'[g] # None /\ (g = Global \/ storeGroups'[g] # None)
      BY <3>1, <3>2, PlacementsAssumption DEF CreateGroup, UpdateGroup, SaveGroup, StoreGroup, GroupTables
    <3>3. CASE Ungroup \/ Uncache
      <4>1. g # op.group
        BY <2>2, <3>1, <3>3
           DEF Ungroup, Uncache, MembersListed, CallWell, Leaving, Remaining, TasksInGroup
      <4> QED BY <3>1, <3>3, <4>1 DEF Ungroup, Uncache, DropGroup, GroupTables, groupVars
    <3>4. CASE Crash
      <4>1. storeGroups' = storeGroups /\ groups' = Loaded(storeGroups) /\ NoPools # None
        BY <3>4 DEF Crash, NoPools
      <4> QED BY <3>1, <4>1 DEF Loaded
    <3>5. CASE UNCHANGED groupVars
      BY <3>1, <3>5 DEF groupVars
    <3> QED BY <3>2, <3>3, <3>4, <3>5, GroupsChange
  <2> QED BY <2>1, <2>2 DEF RecordsHaveGroups
<1> QED BY <1>1, <1>2

-----------------------------------------------------------------------------
(* The invariant holds.                                                    *)

LEMMA NextPhases ==
  ASSUME Types, Registered, SealHolds, LocksGone, Act
  PROVE  SealHolds' /\ LocksGone'
  BY HandleStepPhase, OtherStepPhase, DeletionStepPhase DEF Act

LEMMA NextRuns ==
  ASSUME Types, Registered, OneDriver, ReadStands, SweepStands, SealHolds, Act
  PROVE  Registered' /\ OneDriver'
  BY HandleStepRuns, PlacementStepRuns, RecoveryStepRuns, DeletionStepRuns, CrashRuns DEF Act

LEMMA InitInv == Init => TaskInv
<1> SUFFICES ASSUME Init PROVE TaskInv
  OBVIOUS
<1>1. Types
  BY InitTypes
<1>2. Registered /\ OneDriver
  BY NoneIsNothing, HandleTask
     DEF Init, Registered, OneDriver, Drives, Active, Live, TaskHandles, Handles
<1>3. ReadStands /\ SweepStands /\ SealHolds /\ MembersListed
  BY DEF Init, Idle, ReadStands, SweepStands, SealHolds, MembersListed, Deleting, Leaving, Sweeping
<1>4. LocksGone /\ NoOrphans
  BY DEF Init, Idle, LocksGone, Freed, NoOrphans, LocksHaveRecords, RecordsHaveGroups
<1>5. CachedAreStored
  BY DEF Init, Loaded, CachedAreStored
<1> QED BY <1>1, <1>2, <1>3, <1>4, <1>5 DEF TaskInv

LEMMA StutterInv ==
  ASSUME TaskInv, Types', UNCHANGED <<handles, registry, rows, groupVars, locked, op, sweep>>
  PROVE  TaskInv'
<1> USE DEF TaskInv
<1>2. Registered' /\ OneDriver'
  BY DEF Registered, OneDriver, Drives, Active, Live, TaskHandles
<1>3. ReadStands'
  BY DEF ReadStands, Active, TaskHandles
<1>7. SweepStands'
  <2>1. UNCHANGED <<handles, rows, groups, op, sweep>> /\ SweepStands
    BY DEF groupVars
  <2> QED BY <2>1 DEF SweepStands, Sweeping
<1>4. SealHolds' /\ LocksGone'
  BY DEF SealHolds, LocksGone, Deleting, Done, Freed
<1>5. MembersListed' /\ CachedAreStored'
  BY DEF MembersListed, CachedAreStored, Deleting, Leaving, Remaining, TasksInGroup, groupVars
<1>6. NoOrphans'
  BY DEF NoOrphans, LocksHaveRecords, RecordsHaveGroups, groupVars
<1> QED BY <1>2, <1>3, <1>4, <1>5, <1>6, <1>7

LEMMA NextInv ==
  ASSUME "sweep" \notin Races
  PROVE  TaskInv /\ [Next]_vars => TaskInv'
<1> SUFFICES ASSUME TaskInv, [Next]_vars PROVE TaskInv'
  OBVIOUS
<1>1. Types'
  BY NextTypes DEF TaskInv
<1>0. CASE ~Act
  <2>1. UNCHANGED <<handles, registry, rows, groupVars, locked, op, sweep>>
    BY <1>0 DEF Act, Next, LookUpGroup, vars, groupVars
  <2> QED BY <1>1, <2>1, StutterInv
<1> SUFFICES ASSUME Act PROVE TaskInv'
  BY <1>0
<1> USE DEF TaskInv
<1>2. Registered' /\ OneDriver'
  BY NextRuns
<1>3. ReadStands' /\ SweepStands'
  BY NextReadStands, NextSweepStands
<1>4. SealHolds' /\ LocksGone'
  BY NextPhases
<1>5. MembersListed' /\ CachedAreStored'
  BY NextMembers, NextCached
<1>6. LocksHaveRecords' /\ RecordsHaveGroups'
  BY NextLocks, NextGroups DEF NoOrphans
<1> QED BY <1>1, <1>2, <1>3, <1>4, <1>5, <1>6 DEF NoOrphans

LEMMA InvHolds ==
  ASSUME "sweep" \notin Races
  PROVE  Spec => []TaskInv
<1>1. TaskInv /\ [Next]_vars => TaskInv'
  BY NextInv
<1> QED BY <1>1, InitInv, PTL DEF Spec

\* The registry and the runs agree (manager.go:88, :319, :529): what it hands
\* out has a record, and every live run is the one it hands out.
THEOREM RunsKnown ==
  ASSUME "sweep" \notin Races
  PROVE  Spec => []RunsAreKnown
<1>1. TaskInv => RunsAreKnown
  BY HandleTask DEF TaskInv, Registered, RunsAreKnown
<1> QED BY <1>1, InvHolds, PTL

\* Deletion strands nothing (manager.go:537, :659): no lock without its task's
\* record, no record without its group, whatever fails or crashes in between.
THEOREM NothingOrphaned ==
  ASSUME "sweep" \notin Races
  PROVE  Spec => []NoOrphans
<1>1. TaskInv => NoOrphans
  BY DEF TaskInv
<1> QED BY <1>1, InvHolds, PTL

-----------------------------------------------------------------------------
(* What a step may never do.                                               *)

\* Terminal tasks "recover for inspection only" (manager.go:85): the status a
\* run or a reassignment writes is never over a terminal outcome.
LEMMA NextEnded ==
  ASSUME Types, OneDriver, Act,
         NEW t \in Tasks, rows[t] # None, rows'[t] # None, rows[t].status = "ended"
  PROVE  rows'[t].status = "ended"
<1> USE NoneIsNothing DEF Types, TypeOK
<1>1. ASSUME NEW h \in Handles, HandleStep(h)
      PROVE  rows'[t].status = "ended"
  <2>1. CASE h[1] = t
    <3>1. ~Drives(h)
      BY <2>1, HandleTask DEF OneDriver
    <3>2. rows' = rows
      BY <1>1, <3>1, HandleStepEffect DEF Drives, Active, Live
    <3> QED BY <3>2
  <2>2. CASE h[1] # t
    BY <1>1, <2>2, HandleStepEffect
  <2> QED BY <2>1, <2>2
<1>2. ASSUME NEW s \in Tasks, NEW g \in Groups, NEW own \in [Kinds -> Assignments],
             CreateTask(s, g, own)
      PROVE  rows'[t].status = "ended"
  BY <1>2 DEF CreateTask, InsertTask
<1>3. ASSUME NEW s \in Tasks, NEW k \in Kinds, NEW a \in Assignments, AssignSaves(s, k, a)
      PROVE  rows'[t].status = "ended"
  <2>1. rows[s] \in Rows /\ rows' = [rows EXCEPT ![s] = [rows[s] EXCEPT !.own[k] = a]]
    BY <1>3 DEF AssignSaves, SaveAssignment
  <2>2. [rows[s] EXCEPT !.own[k] = a].status = rows[s].status
    BY <2>1 DEF Rows
  <2> QED BY <2>1, <2>2
<1>4. ASSUME NEW s \in Tasks, DeleteNext(s)
      PROVE  rows'[t].status = "ended"
  BY <1>4 DEF DeleteNext, DropTask
<1>5. CASE UNCHANGED rows
  BY <1>5
<1> QED BY <1>1, <1>2, <1>3, <1>4, <1>5, RowsChange

\* An abandoned deletion left the records alone and opened what it had sealed.
LEMMA NextAbandons ==
  ASSUME Types, SealHolds, Act, op.pc \in {"sealing", "releasing"}, op'.pc = "idle"
  PROVE  /\ rows' = rows
         /\ \A h \in op.sealed : ~handles'[h].sealed
<1> USE DEF Types, TypeOK
<1>1. Deleting /\ op # Idle /\ op.sealed \subseteq Handles
  BY CallFields DEF Deleting, Idle
<1>2. ASSUME NEW t \in Tasks, SealNext(t)
      PROVE  rows' = rows /\ handles' = unsealAll(op.sealed)
  <2>1. CASE \E h : op' = [op EXCEPT !.todo = @ \ {t}, !.sealed = @ \cup {h}]
    <3>1. op'.pc = op.pc
      BY <1>1, <2>1, CallFields
    <3> QED BY <3>1
  <2>2. CASE op' = [op EXCEPT !.todo = @ \ {t}]
    <3>1. op'.pc = op.pc
      BY <1>1, <2>2, CallFields
    <3> QED BY <3>1
  <2> QED BY <1>2, <2>1, <2>2 DEF SealNext
<1>3. ASSUME NEW t \in Tasks, ReleaseNext(t)
      PROVE  rows' = rows /\ handles' = unsealAll(op.sealed)
  <2>1. CASE op' = [op EXCEPT !.todo = @ \ {t}]
    <3>1. op'.pc = op.pc
      BY <1>1, <2>1, CallFields
    <3> QED BY <3>1
  <2> QED BY <1>3, <2>1 DEF ReleaseNext
<1>4. ~NextPhase
  <2>1. \A new : new \in {"releasing", "deleting"} => [op EXCEPT !.pc = new, !.todo = op.ids].pc = new
    BY <1>1, CallFields
  <2>2. NextPhase => op'.pc \in {"releasing", "deleting"}
    BY <2>1 DEF NextPhase
  <2> QED BY <2>2
<1>5. Crash => rows' = rows /\ \A h \in op.sealed : ~handles'[h].sealed
  BY <1>1 DEF Crash, SealHolds
<1>6. ~(\E t \in Tasks : DeleteTask(t) \/ DeleteNext(t)) /\ ~(\E g \in Groups : DeleteGroup(g))
  BY <1>1 DEF DeleteTask, DeleteNext, DeleteGroup, BeginDeletion
<1>7. ~Ungroup /\ ~Uncache
  BY DEF Ungroup, Uncache
<1>8. DeletionStep => rows' = rows /\ handles' = unsealAll(op.sealed)
  BY <1>2, <1>3, <1>4, <1>6, <1>7 DEF DeletionStep
<1>9. ~RecoveryStep
  BY <1>1 DEF RecoveryStep, RecoverChecks, RecoverReads, RecoverRegisters, SweepReads,
              SweepReadsGroups, SweepRegisters
<1>10. ~PlacementStep
  BY <1>1 DEF PlacementStep, CreateTask, AssignSaves, AssignReleases, CreateGroup,
              UpdateGroup, SaveGroup
<1>11. ~(\E h \in Handles : HandleStep(h))
  BY HandleStepEffect
<1> QED BY <1>1, <1>5, <1>8, <1>9, <1>10, <1>11, SealLives DEF Act

\* A deletion that gives up before it deletes (manager.go:684) leaves every
\* member's record as it was, and every handle it had sealed open.
THEOREM AbandonsWhole ==
  ASSUME "sweep" \notin Races
  PROVE  Spec => AbandonedWhole
<1>1. ASSUME TaskInv, [Next]_vars
      PROVE  [op.pc \in {"sealing", "releasing"} /\ op'.pc = "idle" =>
                /\ \A t \in op.ids : rows'[t] = rows[t]
                /\ \A h \in op.sealed : ~handles'[h].sealed]_vars
  <2>1. CASE Act
    BY <1>1, <2>1, NextAbandons DEF TaskInv
  <2>2. CASE ~Act
    BY <1>1, <2>2 DEF Act, Next, LookUpGroup, vars
  <2> QED BY <2>1, <2>2
<1> QED BY <1>1, InvHolds, PTL DEF Spec, AbandonedWhole

\* A record with a terminal outcome says so for as long as it is there
\* (manager.go:85), whoever runs, recovers or reassigns its task.
THEOREM EndsStand ==
  ASSUME "sweep" \notin Races
  PROVE  Spec => EndedStands
<1>1. ASSUME TaskInv, [Next]_vars
      PROVE  [\A t \in Tasks :
                (rows[t] # None /\ rows'[t] # None /\ rows[t].status = "ended")
                  => rows'[t].status = "ended"]_vars
  <2>1. CASE Act
    BY <1>1, <2>1, NextEnded DEF TaskInv
  <2>2. CASE ~Act
    BY <1>1, <2>2 DEF Act, Next, LookUpGroup, vars
  <2> QED BY <2>1, <2>2
<1> QED BY <1>1, InvHolds, PTL DEF Spec, EndedStands

-----------------------------------------------------------------------------
(* The cache of task groups.                                               *)

LEMMA InitCache == Init => CacheInv
<1> SUFFICES ASSUME Init PROVE CacheInv
  OBVIOUS
<1>1. Types
  BY InitTypes
<1> QED BY <1>1 DEF Init, Idle, CacheInv, CacheAgrees, AskedAreCached, Deleting, Leaving

\* A deletion keeps to the group it was asked to delete, and uncaches it last.
LEMMA SameGroup ==
  ASSUME Types, DeletionStep, Deleting \/ Leaving, op' # Idle
  PROVE  op'.group = op.group /\ (op'.pc = "uncaching" => Ungroup)
<1>1. /\ op \in [pc: {"sealing", "releasing", "deleting", "ungrouping", "uncaching"},
                 group: Groups \cup {None}, ids: SUBSET Tasks, todo: SUBSET Tasks,
                 sealed: SUBSET Handles]
      /\ op # Idle
  BY CallFields DEF Types, TypeOK, Idle, Deleting, Leaving
<1>2. /\ \A pc : [op EXCEPT !.pc = pc].group = op.group /\ [op EXCEPT !.pc = pc].pc = pc
      /\ \A pc : /\ [op EXCEPT !.pc = pc, !.todo = op.ids].group = op.group
                 /\ [op EXCEPT !.pc = pc, !.todo = op.ids].pc = pc
  BY <1>1
<1>3. ASSUME NEW t, SealNext(t) \/ ReleaseNext(t) \/ DeleteNext(t)
      PROVE  op'.group = op.group /\ op'.pc \in {"sealing", "releasing", "deleting"}
  <2>1. op.pc \in {"sealing", "releasing", "deleting"}
    BY <1>3 DEF SealNext, ReleaseNext, DeleteNext
  <2>2. \/ op' = [op EXCEPT !.todo = @ \ {t}]
        \/ op' = [op EXCEPT !.todo = @ \ {t}, !.sealed = @ \cup {registry[t]}]
    BY <1>1, <1>3 DEF SealNext, ReleaseNext, DeleteNext
  <2>3. op'.group = op.group /\ op'.pc = op.pc
    <3>1. CASE op' = [op EXCEPT !.todo = @ \ {t}]
      BY <1>1, <3>1
    <3>2. CASE op' = [op EXCEPT !.todo = @ \ {t}, !.sealed = @ \cup {registry[t]}]
      BY <1>1, <3>2
    <3> QED BY <2>2, <3>1, <3>2
  <2> QED BY <2>1, <2>3
<1>4. NextPhase => op'.group = op.group /\ op'.pc \in {"releasing", "deleting", "ungrouping"}
  BY <1>2 DEF NextPhase
<1>5. Ungroup => op'.group = op.group
  BY <1>2 DEF Ungroup
<1> QED BY <1>1, <1>3, <1>4, <1>5
       DEF DeletionStep, Uncache, DeleteTask, DeleteGroup, BeginDeletion

\* The waiting deletions change when one is asked for, one begins, or all die.
LEMMA AskedKept ==
  ASSUME Act
  PROVE  UNCHANGED asked \/ Crash \/ \E g \in Groups : DeleteGroup(g)
<1>1. CASE \E h \in Handles : HandleStep(h)
  BY <1>1
     DEF HandleStep, Start, KillUnstarted, Checkpoint, Detach, Settle, Stamp, Lock, Unlock
<1>2. RecoveryStep => UNCHANGED asked
  BY DEF RecoveryStep, RecoverChecks, RecoverReads, RecoverRegisters, SweepReads,
         SweepReadsGroups, SweepRegisters
<1>3. DeletionStep => UNCHANGED asked \/ \E g \in Groups : DeleteGroup(g)
  BY DEF DeletionStep, DeleteTask, SealNext, ReleaseNext, DeleteNext, NextPhase, Ungroup,
         Uncache
<1>4. PlacementStep => UNCHANGED asked
  BY DEF PlacementStep, CreateTask, AssignSaves, AssignReleases, CreateGroup, UpdateGroup,
         SaveGroup
<1> QED BY <1>1, <1>2, <1>3, <1>4 DEF Act

LEMMA NextAsked ==
  ASSUME Races = {}, CacheInv, [Next]_vars
  PROVE  AskedAreCached'
<1> USE NoneIsNothing DEF CacheInv, AskedAreCached
<1>1. CASE \E g \in Groups : LookUpGroup(g)
  BY <1>1 DEF LookUpGroup, MayDelete, Cascading, Deleting, Leaving, groupVars
<1>2. CASE UNCHANGED vars
  BY <1>2 DEF vars, Deleting, Leaving
<1>3. CASE Crash
  BY <1>3 DEF Crash
<1>4. CASE Act /\ ~Crash
  <2> SUFFICES ASSUME NEW g \in asked'
               PROVE  groups'[g] # None /\ ~((Deleting \/ Leaving)' /\ op'.group = g)
    OBVIOUS
  <2>1. /\ g \in asked /\ g \in Groups
        /\ ~(\E h \in Groups : DeleteGroup(h) /\ h = g)
    BY <1>4, AskedKept DEF DeleteGroup, Types, TypeOK
  <2>2. groups'[g] # None
    <3>1. ASSUME NEW h \in Groups, NEW p \in Placements, CreateGroup(h, p) \/ UpdateGroup(h, p)
          PROVE  groups'[g] # None
      BY <2>1, <3>1, PlacementsAssumption
         DEF CreateGroup, UpdateGroup, SaveGroup, Types, TypeOK, GroupTables
    <3>2. CASE Uncache
      <4>1. op.group # g
        BY <2>1, <3>2 DEF Uncache, Leaving
      <4> QED BY <2>1, <3>2, <4>1 DEF Uncache, Types, TypeOK, GroupTables
    <3>3. CASE Ungroup
      BY <2>1, <3>3 DEF Ungroup
    <3>4. CASE UNCHANGED groupVars
      BY <2>1, <3>4 DEF groupVars
    <3> QED BY <1>4, <3>1, <3>2, <3>3, <3>4, GroupsChange
  <2>3. ~((Deleting \/ Leaving)' /\ op'.group = g)
    <3>1. CASE ~DeletionStep
      BY <1>4, <2>1, <3>1, DeletionKept DEF Deleting, Leaving
    <3>2. CASE DeletionStep /\ (Deleting \/ Leaving)
      BY <2>1, <3>2, SameGroup DEF Deleting, Leaving, Idle
    <3>3. CASE DeletionStep /\ op = Idle
      <4>1. (\E t \in Tasks : DeleteTask(t)) \/ (\E h \in Groups : DeleteGroup(h))
        BY <3>3 DEF DeletionStep, SealNext, ReleaseNext, DeleteNext, NextPhase, Ungroup,
                    Uncache, Idle
      <4>2. ASSUME NEW ids, NEW h, BeginDeletion(ids, h)
            PROVE  op'.group = h
        BY <4>2 DEF BeginDeletion
      <4> QED BY <2>1, <4>1, <4>2 DEF DeleteTask, DeleteGroup
    <3> QED BY <3>1, <3>2, <3>3, DeletionOf
  <2> QED BY <2>2, <2>3
<1> QED BY <1>1, <1>2, <1>3, <1>4 DEF Act, Next

LEMMA NextCache ==
  ASSUME Races = {}
  PROVE  CacheInv /\ [Next]_vars => CacheInv'
<1> SUFFICES ASSUME CacheInv, [Next]_vars PROVE CacheInv'
  OBVIOUS
<1> USE NoneIsNothing DEF CacheInv
<1>1. Types' /\ AskedAreCached'
  BY NextTypes, NextAsked
<1>2. CASE UNCHANGED vars
  <2>1. CacheAgrees'
    BY <1>2 DEF vars, groupVars, CacheAgrees, Loaded
  <2> QED BY <1>1, <1>2, <2>1 DEF vars, groupVars, Deleting, Leaving
<1>3. ASSUME NEW g \in Groups, NEW p \in Placements, CreateGroup(g, p) \/ UpdateGroup(g, p)
      PROVE  CacheInv'
  <2>1. /\ storeGroups' = [storeGroups EXCEPT ![g] = p] /\ groups' = [groups EXCEPT ![g] = p]
        /\ UNCHANGED op /\ p # None
    BY <1>3, PlacementsAssumption DEF CreateGroup, UpdateGroup, SaveGroup, StoreGroup
  <2>2. op.pc = "uncaching" => op.group # g
    BY <1>3 DEF CreateGroup, UpdateGroup, MayUpdate, Types, CallWell, Leaving
  <2>3. CacheAgrees'
    BY <2>1 DEF CacheAgrees, Loaded, Types, TypeOK, GroupTables
  <2> QED BY <1>1, <2>1, <2>2, <2>3 DEF Types, TypeOK, GroupTables, Deleting, Leaving
<1>4. CASE Crash
  BY <1>1, <1>4 DEF Crash, Idle, CacheAgrees, Deleting, Leaving, Loaded
<1>5. CASE Uncache
  <2>1. op.group \in Groups \ {Global} /\ storeGroups[op.group] = None /\ op.pc = "uncaching"
    BY <1>5, CallFields DEF Uncache, Types, TypeOK, CallWell, Leaving
  <2>2. /\ groups' = [groups EXCEPT ![op.group] = None] /\ storeGroups' = storeGroups
        /\ op' = Idle
    BY <1>5 DEF Uncache
  <2>3. CacheAgrees'
    BY <2>1, <2>2 DEF CacheAgrees, Loaded, Types, TypeOK, GroupTables
  <2> QED BY <1>1, <2>2, <2>3 DEF Idle, Deleting, Leaving
<1>6. CASE Ungroup
  <2>1. Leaving /\ op.pc = "ungrouping" /\ op.group \in Groups /\ groups' = groups
    BY <1>6, CallFields DEF Ungroup, Types, TypeOK, CallWell, Leaving
  <2>2. CASE op' = Idle
    <3>1. storeGroups' = storeGroups
      BY <1>6, <2>2, CallFields, <2>1 DEF Ungroup, Idle, Types, TypeOK
    <3> QED BY <1>1, <2>1, <2>2, <3>1 DEF Idle, CacheAgrees, Loaded, Deleting, Leaving
  <2>3. CASE op' # Idle
    <3>1. op'.group = op.group /\ op'.pc = "uncaching" /\ DropGroup(op.group)
      <4>1. op' = [op EXCEPT !.pc = "uncaching"] /\ DropGroup(op.group)
        BY <1>6, <2>3 DEF Ungroup
      <4> QED BY <2>1, <4>1, CallFields DEF Types, TypeOK
    <3>2. CacheAgrees'
      BY <2>1, <3>1 DEF CacheAgrees, Loaded, DropGroup, Types, TypeOK, GroupTables
    <3> QED BY <1>1, <2>1, <3>1, <3>2 DEF DropGroup, Types, TypeOK, GroupTables, Leaving
  <2> QED BY <2>2, <2>3
<1>9. ASSUME NEW g \in Groups, LookUpGroup(g)
      PROVE  CacheInv'
  <2>1. CacheAgrees'
    BY <1>9 DEF LookUpGroup, groupVars, CacheAgrees, Loaded
  <2> QED BY <1>1, <1>9, <2>1 DEF LookUpGroup, groupVars, Deleting, Leaving
<1>7. CASE UNCHANGED groupVars /\ Act /\ ~Ungroup /\ ~Uncache /\ ~Crash
  <2>1. op.pc = "uncaching" => UNCHANGED op
    BY <1>7, UncachingStays
  <2>2. CacheAgrees'
    BY <1>7, <2>1 DEF CacheAgrees, Loaded, groupVars
  <2>3. op'.pc = "uncaching" => UNCHANGED op
    <3>1. DeletionStep => op'.pc # "uncaching"
      <4>1. CASE Deleting \/ Leaving
        BY <1>7, <4>1, SameGroup DEF Idle
      <4>2. CASE op = Idle
        BY <4>2 DEF DeletionStep, DeleteTask, DeleteGroup, BeginDeletion, SealNext,
           ReleaseNext, DeleteNext, NextPhase, Ungroup, Uncache, Idle
      <4> QED BY <4>1, <4>2, DeletionOf
    <3> QED BY <1>7, <3>1, DeletionKept
  <2>4. (Deleting \/ Leaving)' /\ op'.group # None => groups'[op'.group] # None
    <3>1. CASE UNCHANGED op
      BY <1>7, <3>1 DEF Deleting, Leaving, groupVars
    <3>2. CASE ~DeletionStep /\ ~(UNCHANGED op)
      BY <1>7, <3>2, DeletionKept DEF Deleting, Leaving
    <3>3. CASE DeletionStep /\ (Deleting \/ Leaving)
      BY <1>7, <3>3, SameGroup DEF Deleting, Leaving, groupVars, Idle
    <3>4. CASE DeletionStep /\ op = Idle
      <4>1. (\E t \in Tasks : DeleteTask(t)) \/ (\E g \in Groups : DeleteGroup(g))
        BY <3>4 DEF DeletionStep, SealNext, ReleaseNext, DeleteNext, NextPhase, Ungroup,
                    Uncache, Idle
      <4>2. ASSUME NEW ids, NEW g, BeginDeletion(ids, g)
            PROVE  op'.group = g
        BY <4>2 DEF BeginDeletion
      <4> QED BY <1>7, <4>1, <4>2 DEF DeleteTask, DeleteGroup, AskedAreCached, groupVars
    <3> QED BY <1>7, <3>1, <3>2, <3>3, <3>4, DeletionOf
  <2> QED BY <1>1, <1>7, <2>2, <2>3, <2>4 DEF groupVars
<1> QED BY <1>2, <1>3, <1>4, <1>5, <1>6, <1>7, <1>9, GroupsChange DEF Act, Next

\* The cache of task groups says what the store says (manager.go:102), but for
\* the group a deletion is about to uncache, as long as no caller edits or
\* deletes a group while it is being deleted.
THEOREM CacheHolds ==
  ASSUME Races = {}
  PROVE  Spec => []CacheAgrees
<1>1. CacheInv /\ [Next]_vars => CacheInv'
  BY NextCache
<1>2. CacheInv => CacheAgrees
  BY DEF CacheInv
<1> QED BY <1>1, <1>2, InitCache, PTL DEF Spec

=============================================================================
