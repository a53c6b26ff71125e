------------------------------- MODULE Engine -------------------------------
(***************************************************************************)
(* The run of a task (tasks/engine.go, tasks/tasks.go) over its durable    *)
(* record (tasks.Repository as sqlite/tasks.go implements it), and the     *)
(* effect log its handlers write through workflows.Do (workflows/base.go). *)
(*                                                                         *)
(* A handle is one Task value with its engine: created fresh or recovered  *)
(* from the record, started at most once, steered by Suspend, Resume,      *)
(* Detach and Kill from other goroutines.  The run loop takes the engine's *)
(* mutex for short sections only, so a step of a run is one such section,  *)
(* one repository call, or one thing a handler does, and steering calls    *)
(* fall between any two of them.  The repository may fail any write        *)
(* without effect, a context may end under a write, a handler may do       *)
(* anything a handler may, and the process may crash.                      *)
(*                                                                         *)
(* RecoverTask hands out a new handle whenever the registered one is not   *)
(* running, which it already is not while a finished run is being stamped. *)
(* OneRun restricts the callers to recovering a task whose earlier handles *)
(* are spent, or lost with their process.                                  *)
(***************************************************************************)
EXTENDS Naturals, FiniteSets

CONSTANTS
  Tasks,       \* task ids
  Handles,     \* Task values, each created or recovered once
  TaskOf,      \* the task a handle is of
  States,      \* the states of the workflow's graph
  Initial,     \* the graph's initial state
  Keys,        \* the keys of the effects handlers run through Do
  MaxEffects,  \* bound: how often the model counts one effect
  CanCrash,    \* the process may crash
  CanFail,     \* the repository may fail a write
  CanExpire,   \* a context may end of itself: the caller's, or at a Timeout's deadline
  CanStray,    \* handlers may leave a goroutine behind that checkpoints
  OneRun,      \* callers recover a task only after its earlier handles are spent
  None         \* no state, no record

ASSUME TaskOfAssumption == TaskOf \in [Handles -> Tasks]
ASSUME InitialAssumption == Initial \in States
ASSUME BoundAssumption == MaxEffects \in Nat
ASSUME FaultsAssumption == {CanCrash, CanFail, CanExpire, CanStray, OneRun} \subseteq BOOLEAN
ASSUME NoneStateAssumption == None \notin States \cup Handles

Statuses == {"notStarted", "running", "suspended", "killed", "failed", "done"}
Terminal == {"done", "killed"}
Live == {"running", "suspended"}

\* Where a run is.  A handle "new" or "recovered" waits for Start; "refused"
\* and "returned" handles are spent; "lost" ones died with their process.
Unstarted == {"new", "recovered"}
InHandler == {"handling", "midcheck", "midwrite"}
InLoop == InHandler \cup
  {"boundary", "suspending", "parking", "parked", "entering", "entered", "harvesting"}
Leaving == {"exiting", "stamping", "teardown", "epilogue"}
Spent == {"unborn", "refused", "returned", "lost"}

Engines ==
  [pc: Unstarted \cup InLoop \cup Leaving \cup Spent,
   state: Statuses,                \* engine.state
   sealed: BOOLEAN,                \* engine.sealed
   detachWanted: BOOLEAN,          \* engine.detachWanted
   detachDone: BOOLEAN,            \* engine.detachDone
   current: States \cup {None},    \* engine.current, None for ""
   next: States \cup {None},       \* the loop's next state
   effects: SUBSET Keys,           \* Base.effects of the instance
   output: BOOLEAN,                \* engine.output is set
   err: BOOLEAN,                   \* the run's error is not nil
   stampFailed: BOOLEAN,           \* MarkTerminal failed
   status: Statuses,               \* Task.Status, the handle's mirror
   stray: States \cup {None},      \* the state a stray checkpoint is about to stamp
   taken: BOOLEAN,                 \* it has taken its snapshot
   blob: SUBSET Keys]              \* that snapshot

Records ==
  [status: Statuses, state: States \cup {None}, log: SUBSET Keys, output: BOOLEAN]

ASSUME NoneRecordAssumption == None \notin Records

VARIABLES
  eng,  \* the handles
  rec,  \* the durable record of each task, None when there is none
  ran,  \* how often each effect of each task ran in the outside world
  known, \* the registry: the handle the manager has of each task, or None
  lost  \* history: the effects of each task that ran, last of all in a run whose
        \* record of them was refused, overwritten, or cut off by a crash

vars == <<eng, rec, ran, known, lost>>

TablesOK ==
  /\ eng \in [Handles -> Engines]
  /\ rec \in [Tasks -> Records \cup {None}]
  /\ ran \in [Tasks -> [Keys -> 0 .. MaxEffects]]
  /\ known \in [Tasks -> Handles \cup {None}]
  /\ \A h \in Handles : eng[h].pc \in InHandler =>
       eng[h].current # None /\ eng[h].current = eng[h].next

TypeOK == TablesOK /\ lost \in [Tasks -> SUBSET Keys]

NewEngine ==
  [pc |-> "unborn", state |-> "notStarted", sealed |-> FALSE,
   detachWanted |-> FALSE, detachDone |-> FALSE, current |-> None, next |-> None,
   effects |-> {}, output |-> FALSE, err |-> FALSE, stampFailed |-> FALSE,
   status |-> "notStarted", stray |-> None, taken |-> FALSE, blob |-> {}]

Init ==
  /\ eng = [h \in Handles |-> NewEngine]
  /\ rec = [t \in Tasks |-> None]
  /\ ran = [t \in Tasks |-> [k \in Keys |-> 0]]
  /\ known = [t \in Tasks |-> None]
  /\ lost = [t \in Tasks |-> {}]

-----------------------------------------------------------------------------
(* The repository.                                                         *)

Log(t) == IF rec[t] = None THEN {} ELSE rec[t].log

\* The log is replaced: what the new one lacks of the old is lost, what it has of
\* the lost is found.
SaveCheckpoint(t, status, state, log) ==
  /\ rec[t] # None
  /\ rec' = [rec EXCEPT ![t].status = status, ![t].state = state, ![t].log = log]
  /\ lost' = [lost EXCEPT ![t] = (@ \cup rec[t].log) \ log]

MarkTerminal(t, outcome, output) ==
  /\ rec[t] # None
  /\ rec' = [rec EXCEPT ![t].status = outcome, ![t].output = output]

\* A write of t's record returns an error: the store failed or the row is gone.
WriteFails(t) == (CanFail \/ rec[t] = None) /\ UNCHANGED rec

-----------------------------------------------------------------------------
(* What of an instance is durable: the log of the effects it ran.  Input and *)
(* durable state travel with it and decide nothing here.                     *)

Snapshot(e) == e.effects

\* Slip: the instance is restored without its effect log.
RestoreEmpty(e, log) == [e EXCEPT !.effects = {}]

RestoreInstance(e, log) == [e EXCEPT !.effects = log]

-----------------------------------------------------------------------------
(* Handles.                                                                *)

isRunning(h) == eng[h].state \in Live /\ ~eng[h].detachDone

\* The handle owns no run, will never own one, and left nothing behind.
Over(h) ==
  /\ eng[h].pc \in Spent \/ (eng[h].pc \in Unstarted /\ eng[h].sealed)
  /\ eng[h].stray = None
BeingDeleted(t) == known[t] # None /\ eng[known[t]].sealed
Recoverable(t) ==
  rec[t] # None /\ ~BeingDeleted(t) /\ (known[t] # None => ~isRunning(known[t]))
OthersOver(h) == \A g \in Handles \ {h} : TaskOf[g] = TaskOf[h] => Over(g)

CreateTask(h) ==
  /\ \A g \in Handles : TaskOf[g] = TaskOf[h] => eng[g].pc = "unborn"
  /\ rec' = [rec EXCEPT ![TaskOf[h]] =
       [status |-> "notStarted", state |-> None, log |-> {}, output |-> FALSE]]
  /\ eng' = [eng EXCEPT ![h].pc = "new", ![h].next = Initial]
  /\ known' = [known EXCEPT ![TaskOf[h]] = h]
  /\ UNCHANGED <<ran, lost>>

\* The handle takes the record as it is, its snapshot's effect log included.
RecoverTask(h) ==
  LET r == rec[TaskOf[h]] IN
    /\ eng[h].pc = "unborn" /\ Recoverable(TaskOf[h])
    /\ OneRun => OthersOver(h)
    /\ eng' = [eng EXCEPT ![h] =
                 RestoreInstance([@ EXCEPT !.pc = "recovered", !.next = r.state,
                                           !.status = r.status], r.log)]
    /\ known' = [known EXCEPT ![TaskOf[h]] = h]
    /\ UNCHANGED <<rec, ran, lost>>

\* ErrNoCheckpoint, ErrAlreadyTerminal, or a snapshot that is not there: every
\* Start of the handle refuses.
StartRefused(h) ==
  /\ eng[h].pc = "recovered"
  /\ eng[h].status \in {"notStarted"} \cup Terminal \/ eng[h].next = None
  /\ eng' = [eng EXCEPT ![h].pc = "refused"]
  /\ UNCHANGED <<rec, ran, known, lost>>

Startable(h) ==
  \/ eng[h].pc = "new"
  \/ /\ eng[h].pc = "recovered" /\ eng[h].next # None
     /\ eng[h].status \notin {"notStarted"} \cup Terminal

\* A kill latched before Start: context.Canceled, or ErrTaskDeleted if sealed.
StartKilled(h) ==
  /\ Startable(h)
  /\ eng[h].state = "killed"
  /\ eng' = [eng EXCEPT ![h].pc = "refused", ![h].status = "killed"]
  /\ UNCHANGED <<rec, ran, known, lost>>

\* Slip: Start does not look at the seal.
StartSealed(h) ==
  /\ Startable(h) /\ eng[h].state = "notStarted"
  /\ eng' = [eng EXCEPT ![h].pc = "boundary", ![h].state = "running"]
  /\ UNCHANGED <<rec, ran, known, lost>>

\* A sealed engine refuses with ErrTaskDeleted and stays as it is.
Start(h) ==
  /\ Startable(h)
  /\ ~eng[h].sealed /\ eng[h].state = "notStarted"
  /\ eng' = [eng EXCEPT ![h].pc = "boundary",
                        ![h].state = IF eng[h].status = "suspended"
                                     THEN "suspended" ELSE "running"]
  /\ UNCHANGED <<rec, ran, known, lost>>

-----------------------------------------------------------------------------
(* The run loop.                                                           *)

\* A checkpoint is written under the context of the run or of the handler, which
\* ends with a kill, with the run, with the caller's context, or at a deadline.
\* Whether an ended context stops the write is the repository's affair.
ContextEnds(h) == CanExpire \/ eng[h].state = "killed" \/ eng[h].pc \in Spent

CheckpointFails(h) ==
  WriteFails(TaskOf[h]) \/ (ContextEnds(h) /\ UNCHANGED rec)

Exits(e, failed) == [e EXCEPT !.pc = "exiting", !.err = failed]

\* The rest of the boundary's critical section: kill first, then detach, then
\* the end of the graph, then the next state.
Decide(e) ==
  CASE e.state = "killed" -> Exits(e, TRUE)
    [] e.state = "suspended" /\ e.detachWanted ->
         Exits([e EXCEPT !.detachDone = TRUE], TRUE)
    [] OTHER -> [e EXCEPT !.pc = IF e.next = None THEN "harvesting" ELSE "entering"]

Boundary(h) ==
  LET e == [eng[h] EXCEPT !.current = None] IN
    /\ eng[h].pc = "boundary"
    /\ eng' = [eng EXCEPT ![h] =
                 IF e.next # None /\ e.state = "suspended"
                 THEN [e EXCEPT !.pc = "suspending"] ELSE Decide(e)]
    /\ UNCHANGED <<rec, ran, known, lost>>

\* A failed checkpoint aborts the run; the last good one stands.
SaveSuspended(h) ==
  /\ eng[h].pc = "suspending"
  /\ \/ /\ SaveCheckpoint(TaskOf[h], "suspended", eng[h].next, Snapshot(eng[h]))
        /\ eng' = [eng EXCEPT ![h].pc = "parking"]
     \/ /\ CheckpointFails(h) /\ UNCHANGED lost
        /\ eng' = [eng EXCEPT ![h] = Exits(@, TRUE)]
  /\ UNCHANGED <<ran, known>>

\* Back under the mutex: wait while suspended and not detaching.
Park(h) ==
  /\ eng[h].pc = "parking"
  /\ eng' = [eng EXCEPT ![h] =
               IF @.state = "suspended" /\ ~@.detachWanted
               THEN [@ EXCEPT !.pc = "parked"] ELSE Decide(@)]
  /\ UNCHANGED <<rec, ran, known, lost>>

\* Slip: the state is entered although its checkpoint failed.
SaveRunningAnyway(h) ==
  /\ eng[h].pc = "entering"
  /\ \/ SaveCheckpoint(TaskOf[h], "running", eng[h].next, Snapshot(eng[h]))
     \/ CheckpointFails(h) /\ UNCHANGED lost
  /\ eng' = [eng EXCEPT ![h].pc = "entered"]
  /\ UNCHANGED <<ran, known>>

\* The checkpoint before a state; it also fails when the state has no handler.
SaveRunning(h) ==
  /\ eng[h].pc = "entering"
  /\ \/ /\ SaveCheckpoint(TaskOf[h], "running", eng[h].next, Snapshot(eng[h]))
        /\ eng' = [eng EXCEPT ![h].pc = "entered"]
     \/ /\ CheckpointFails(h) /\ UNCHANGED lost
        /\ eng' = [eng EXCEPT ![h] = Exits(@, TRUE)]
  /\ UNCHANGED <<ran, known>>

Enter(h) ==
  /\ eng[h].pc = "entered"
  /\ eng' = [eng EXCEPT ![h].pc = "handling", ![h].current = eng[h].next]
  /\ UNCHANGED <<rec, ran, known, lost>>

HandlerReturns(h, next) ==
  /\ eng[h].pc = "handling"
  /\ eng' = [eng EXCEPT ![h].pc = "boundary", ![h].next = next]
  /\ UNCHANGED <<rec, ran, known, lost>>

HandlerFails(h) ==
  /\ eng[h].pc = "handling"
  /\ eng' = [eng EXCEPT ![h] = Exits(@, TRUE)]
  /\ UNCHANGED <<rec, ran, known, lost>>

\* Output may fail, which fails the run.
Harvest(h) ==
  /\ eng[h].pc = "harvesting"
  /\ eng' = [eng EXCEPT ![h] = Exits(@, FALSE), ![h].output = TRUE]
     \/ eng' = [eng EXCEPT ![h] = Exits(@, TRUE)]
  /\ UNCHANGED <<rec, ran, known, lost>>

\* finish: the outcome is settled under the mutex and stamped outside it.
Finish(h) ==
  /\ eng[h].pc = "exiting"
  /\ eng' = [eng EXCEPT ![h] =
               IF @.detachDone THEN [@ EXCEPT !.pc = "teardown"]
               ELSE [@ EXCEPT !.pc = "stamping",
                              !.state = IF eng[h].state = "killed" THEN "killed"
                                        ELSE IF eng[h].err THEN "failed" ELSE "done"]]
  /\ UNCHANGED <<rec, ran, known, lost>>

Stamp(h) ==
  /\ eng[h].pc = "stamping"
  /\ \/ /\ MarkTerminal(TaskOf[h], eng[h].state, eng[h].output)
        /\ eng' = [eng EXCEPT ![h].pc = "teardown"]
     \/ /\ WriteFails(TaskOf[h])
        /\ eng' = [eng EXCEPT ![h].pc = "teardown", ![h].stampFailed = TRUE]
  /\ UNCHANGED <<ran, known, lost>>

Teardown(h) ==
  /\ eng[h].pc = "teardown"
  /\ eng' = [eng EXCEPT ![h].pc = "epilogue"]
  /\ UNCHANGED <<rec, ran, known, lost>>

\* Start brings the handle's fields current and returns.
Epilogue(h) ==
  /\ eng[h].pc = "epilogue"
  /\ eng' = [eng EXCEPT ![h].pc = "returned", ![h].status = eng[h].state]
  /\ UNCHANGED <<rec, ran, known, lost>>

-----------------------------------------------------------------------------
(* Inside a handler.                                                       *)

\* The checkpoint of the run's latest effect was refused: it is in memory only.
Forgone(h) ==
  lost' = [lost EXCEPT ![TaskOf[h]] = @ \cup (eng[h].effects \ Log(TaskOf[h]))]

\* Slip: the effect's record waits for the next state's checkpoint.
DoUnrecorded(h, k) ==
  /\ eng[h].pc = "handling"
  /\ k \notin eng[h].effects
  /\ ran[TaskOf[h]][k] < MaxEffects
  /\ ran' = [ran EXCEPT ![TaskOf[h]][k] = @ + 1]
  /\ lost' = [lost EXCEPT ![TaskOf[h]] = @ \ {k}]
  /\ eng' = [eng EXCEPT ![h].effects = @ \cup {k}]
  /\ UNCHANGED <<rec, known>>

\* Do runs an effect its log does not hold, records it in memory, checkpoints.
Do(h, k) ==
  /\ eng[h].pc = "handling"
  /\ k \notin eng[h].effects
  /\ ran[TaskOf[h]][k] < MaxEffects
  /\ ran' = [ran EXCEPT ![TaskOf[h]][k] = @ + 1]
  /\ lost' = [lost EXCEPT ![TaskOf[h]] = @ \ {k}]
  /\ eng' = [eng EXCEPT ![h].pc = "midcheck", ![h].effects = @ \cup {k}]
  /\ UNCHANGED <<rec, known>>

\* midCheckpoint reads the engine under the mutex, then writes outside it.
Executing(h) == isRunning(h) /\ eng[h].current # None

MidCheck(h) ==
  /\ eng[h].pc = "midcheck"
  /\ \/ /\ Executing(h)
        /\ eng' = [eng EXCEPT ![h].pc = "midwrite"]
        /\ UNCHANGED lost
     \/ /\ ~Executing(h)
        /\ eng' = [eng EXCEPT ![h].pc = "handling"]
        /\ Forgone(h)
  /\ UNCHANGED <<rec, ran, known>>

\* Only this goroutine adds to the log, so its snapshot is that of the write.
MidWrite(h) ==
  /\ eng[h].pc = "midwrite"
  /\ \/ SaveCheckpoint(TaskOf[h], "running", eng[h].current, Snapshot(eng[h]))
     \/ CheckpointFails(h) /\ Forgone(h)
  /\ eng' = [eng EXCEPT ![h].pc = "handling"]
  /\ UNCHANGED <<ran, known>>

\* A goroutine a handler left behind calls Checkpoint: it checks, takes its
\* snapshot and writes it while the run goes on.
StrayCheck(h) ==
  /\ CanStray
  /\ eng[h].pc \in InLoop \cup Leaving /\ eng[h].stray = None
  /\ Executing(h)
  /\ eng' = [eng EXCEPT ![h].stray = eng[h].current]
  /\ UNCHANGED <<rec, ran, known, lost>>

StraySnapshot(h) ==
  /\ eng[h].stray # None /\ ~eng[h].taken
  /\ eng' = [eng EXCEPT ![h].taken = TRUE, ![h].blob = Snapshot(eng[h])]
  /\ UNCHANGED <<rec, ran, known, lost>>

StrayWrite(h) ==
  /\ eng[h].stray # None /\ eng[h].taken
  /\ \/ SaveCheckpoint(TaskOf[h], "running", eng[h].stray, eng[h].blob)
     \/ CheckpointFails(h) /\ UNCHANGED lost
  /\ eng' = [eng EXCEPT ![h].stray = None, ![h].taken = FALSE, ![h].blob = {}]
  /\ UNCHANGED <<ran, known>>

-----------------------------------------------------------------------------
(* Steering, from any goroutine.                                           *)

InProcess(h) == eng[h].pc \notin {"unborn", "lost"}
Signal(pc) == IF pc = "parked" THEN "parking" ELSE pc
Inert(h) == eng[h].detachWanted \/ eng[h].detachDone

Suspend(h) ==
  /\ InProcess(h) /\ ~Inert(h)
  /\ eng[h].state = "running"
  /\ eng' = [eng EXCEPT ![h].state = "suspended"]
  /\ UNCHANGED <<rec, ran, known, lost>>

Resume(h) ==
  /\ InProcess(h) /\ ~Inert(h)
  /\ eng[h].state = "suspended"
  /\ eng' = [eng EXCEPT ![h].state = "running", ![h].pc = Signal(@)]
  /\ UNCHANGED <<rec, ran, known, lost>>

\* Slip: a parked run is not signalled.
DetachQuietly(h) ==
  /\ InProcess(h) /\ ~Inert(h) /\ eng[h].state = "suspended"
  /\ eng' = [eng EXCEPT ![h].detachWanted = TRUE]
  /\ UNCHANGED <<rec, ran, known, lost>>

Detach(h) ==
  /\ InProcess(h) /\ ~Inert(h)
  /\ eng[h].state = "suspended"
  /\ eng' = [eng EXCEPT ![h].detachWanted = TRUE, ![h].pc = Signal(@)]
  /\ UNCHANGED <<rec, ran, known, lost>>

\* Before Start the kill latches; after it, it wakes a parked run.
Kill(h) ==
  /\ InProcess(h) /\ ~eng[h].detachDone
  /\ eng[h].state \in Live \cup {"notStarted"}
  /\ eng' = [eng EXCEPT ![h].state = "killed", ![h].pc = Signal(@)]
  /\ UNCHANGED <<rec, ran, known, lost>>

-----------------------------------------------------------------------------
(* Deletion, as the manager performs it on the handle it knows.  It holds   *)
(* the task registry throughout, which keeps creation and recovery out, not *)
(* Start or steering.                                                       *)

Seal(h) ==
  /\ known[TaskOf[h]] = h
  /\ ~isRunning(h) /\ ~eng[h].sealed
  /\ eng' = [eng EXCEPT ![h].sealed = TRUE]
  /\ UNCHANGED <<rec, ran, known, lost>>

\* Releasing the task's locks failed: the deletion is abandoned.
Unseal(h) ==
  /\ known[TaskOf[h]] = h
  /\ eng[h].sealed
  /\ eng' = [eng EXCEPT ![h].sealed = FALSE]
  /\ UNCHANGED <<rec, ran, known, lost>>

\* The handle leaves the registry; the row goes, unless the store fails.
DeleteRow(t) ==
  /\ rec' = [rec EXCEPT ![t] = None] \/ WriteFails(t)
  /\ known' = [known EXCEPT ![t] = None]
  /\ UNCHANGED <<eng, ran, lost>>

DeleteRecord(h) == known[TaskOf[h]] = h /\ eng[h].sealed /\ DeleteRow(TaskOf[h])

\* A task the registry does not know has nothing to seal.
DeleteUnknown(t) == known[t] = None /\ rec[t] # None /\ DeleteRow(t)

-----------------------------------------------------------------------------
\* The effects of a task whose record is under way.
Due(t) ==
  UNION {eng[h].effects : h \in {g \in Handles :
    TaskOf[g] = t /\ eng[g].pc \in {"midcheck", "midwrite"}}}

\* The process dies with every handle in it.
Crash ==
  /\ CanCrash
  /\ \E h \in Handles : InProcess(h)
  /\ eng' = [h \in Handles |->
               IF InProcess(h) THEN [NewEngine EXCEPT !.pc = "lost"] ELSE eng[h]]
  /\ known' = [t \in Tasks |-> None]
  /\ lost' = [t \in Tasks |-> lost[t] \cup (Due(t) \ Log(t))]
  /\ UNCHANGED <<rec, ran>>

RunStep(h) ==
  \/ Boundary(h) \/ SaveSuspended(h) \/ Park(h) \/ SaveRunning(h) \/ Enter(h)
  \/ MidCheck(h) \/ MidWrite(h)
  \/ Harvest(h) \/ Finish(h) \/ Stamp(h) \/ Teardown(h) \/ Epilogue(h)

HandlerStep(h) ==
  \/ \E next \in States \cup {None} : HandlerReturns(h, next)
  \/ HandlerFails(h)

StrayStep(h) == StrayCheck(h) \/ StraySnapshot(h) \/ StrayWrite(h)

HandleStep(h) ==
  \/ CreateTask(h) \/ RecoverTask(h)
  \/ StartRefused(h) \/ StartKilled(h) \/ Start(h)
  \/ RunStep(h) \/ HandlerStep(h) \/ StrayStep(h)
  \/ \E k \in Keys : Do(h, k)
  \/ Suspend(h) \/ Resume(h) \/ Detach(h) \/ Kill(h)
  \/ Seal(h) \/ Unseal(h) \/ DeleteRecord(h)

Next ==
  \/ \E h \in Handles : HandleStep(h)
  \/ \E t \in Tasks : DeleteUnknown(t)
  \/ Crash

Spec == Init /\ [][Next]_vars

\* The goroutine of a run is scheduled, and its handlers return: a handler that
\* waits for something watches the context a kill cancels.
Fairness == \A h \in Handles : WF_vars(RunStep(h)) /\ WF_vars(HandlerStep(h))

FairSpec == Spec /\ Fairness

-----------------------------------------------------------------------------
(* Safety.                                                                 *)

Record(h) == rec[TaskOf[h]]

\* A live run has its record: a deletion seals the engine first, so no run is
\* ever checkpointing into nothing (engine.go:271).
LiveHasRecord == \A h \in Handles : isRunning(h) => Record(h) # None

\* While a state executes or is about to, the record, unless deleted after a
\* kill, says to resume there, and every effect it holds is in the run's memory.
ResumesHere ==
  \A h \in Handles :
    (/\ eng[h].pc \in {"entered", "handling", "midcheck", "midwrite"}
     /\ Record(h) # None)
      => /\ Record(h).status = "running" /\ Record(h).state = eng[h].next
         /\ Record(h).log \subseteq eng[h].effects

\* A parked run, and one that detached where it was parked, is recoverable
\* paused at its next state with every effect it ran; and no signal is lost: it
\* waits only while suspended and not detaching (engine.go:143).
ParkedIsDurable(h) ==
  (/\ \/ eng[h].pc \in {"parking", "parked"}
      \/ eng[h].detachDone /\ eng[h].next # None /\ eng[h].pc \in Leaving
   /\ Record(h) # None)
    => /\ Record(h).status = "suspended" /\ Record(h).state = eng[h].next
       /\ Record(h).log = eng[h].effects
ParkedMustWait(h) ==
  eng[h].pc = "parked" => eng[h].state = "suspended" /\ ~eng[h].detachWanted

ParkedWell == \A h \in Handles : ParkedIsDurable(h) /\ ParkedMustWait(h)

\* What a recovery would find of a run is true of it, at any of its steps.
RecordIsTrue == ResumesHere /\ ParkedWell

\* "Do runs effect at most once per key for the life of the task", and when a
\* checkpoint fails "only a crash before then repeats the effect" (base.go:125,
\* :138): what the comment says, not what holds (engine_effect_repeats.cfg).
EffectOnce == \A t \in Tasks, k \in Keys : ran[t][k] <= 1

-----------------------------------------------------------------------------
(* Action properties.                                                      *)

\* A terminal outcome stands: nothing overwrites it, and its run is never
\* executed again; only deletion removes it.
TerminalStands ==
  [][\A t \in Tasks :
       (rec[t] # None /\ rec'[t] # None /\ rec[t].status \in Terminal)
         => rec'[t] = rec[t]]_vars

\* What remains of "at most once" (base.go:125): an effect runs again only if,
\* since it last ran, the record has not had it or has lost it: the checkpoint
\* that Do made of it was refused, or a crash came before, or a goroutine's older
\* snapshot overwrote it; and no later checkpoint made up for that.
RepeatsOnlyTheLost ==
  [][\A t \in Tasks, k \in Keys :
       ran[t][k] > 0 /\ ran'[t][k] # ran[t][k] => k \in lost[t]]_vars

-----------------------------------------------------------------------------
(* Liveness.                                                               *)

Underway(h) == eng[h].pc \in InLoop \cup Leaving

\* A killed run ends, parked or not; so does one asked to detach: detached, or
\* with the outcome that came first (engine.go:155).
AskedRunEnds ==
  \A h \in Handles :
    Underway(h) /\ (eng[h].state = "killed" \/ eng[h].detachWanted) ~> ~Underway(h)

-----------------------------------------------------------------------------
(* What the engine promises of a record: TaskLifecycle, which it implements *)
(* while a task has one run at a time.                                      *)

Life == INSTANCE TaskLifecycle
  WITH Tasks <- Tasks, States <- States, Keys <- Keys, None <- None,
       rec <- rec, ran <- ran

\* Every step of a run, of a steering call, of a deletion and of a crash is a
\* step of the record's life or leaves record and world alone: no outcome is
\* overwritten, no effect leaves the log, none it holds runs again, and no
\* output comes without an outcome.
ImplementsLifecycle == Life!Spec

=============================================================================
