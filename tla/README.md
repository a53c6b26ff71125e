# A TLA+ development for rogojin

rogojin runs workflows as durable tasks: a task is a graph of states whose
handlers do side effects over the network, leasing proxies, accounts and
payment profiles while they run, checkpointing as they go so that a crash or a
pause can be recovered from. This directory models the parts of it where
goroutines, a durable store and failures meet, checks them with TLC, and proves
with TLAPS the safety of the resource manager, of a task's run and its record,
of the email listener's cursor, of the bus and of the schema migrations.

Source paths below are relative to the repository (`leasing/manager.go`);
`PROJECT.json` maps every definition that models code to its lines.

## 1. Inventory

| Component | State it keeps | Operations | Interacts with |
|---|---|---|---|
| Leasing manager `leasing/` | pool of records, groups, strategies, `bindings` (task -> durably locked resource), `holders` (live leases); a mirror of its repository | `Acquire`, `Lock`, `Release`, `Unlock`, `ReleaseStaleLock`, `Add`, `Update`, `Delete`, `CreateGroup`, `UpdateGroup`, `DeleteGroup`, `NewManager` | its repository; strategies, called under its mutex; tasks, by id only |
| Strategies `leasing/roundrobin.go`, `proxies/bayesian.go` | a cursor that is never reset; nothing | `Select` | called by the leasing manager |
| Proxies, accounts, payments `proxies/`, `accounts/`, `payments/` | a leasing manager each; proxies tally outcomes, accounts and their groups name an inbox | `ReleaseOutcome`, `Update`, `UpdateGroup`, the guard `accounts.NewManager` installs | leasing; accounts are asked by email before a deletion |
| Task engine `tasks/engine.go` | status, seal, detach flags, executing state, output | run loop, `Suspend`, `Resume`, `Detach`, `Kill`, `midCheckpoint`, `finish`, `seal` | the workflow instance's handlers; the task repository |
| Task handle `tasks/tasks.go` | mirror of the record | `Start`, `Record` | its engine |
| Task manager `tasks/manager.go` | registry of handles, cache of task groups | `CreateTask`, `RecoverTask`, `RecoverAll`, `DeleteTask`, `AssignResource`, groups | engines (seal), leasing managers (unlock), repository |
| Workflow base `workflows/base.go` | the effect log of an instance | `Do`, `Once`, `Snapshot`, `restore` | the engine's mid-state checkpoint |
| Policies `workflows/policy.go` | none | `Retry`, `Timeout`, backoffs | wrap handlers |
| Bus `comms/` | topics, subscribers, bounded buffers | `Publish`, `Subscribe`, `Close` | tasks and listeners |
| Email `email/` | listeners, cursors, subscriptions | `Add`, `Listen`, backfill, `Delete`, `Close` | vendors (IMAP), accounts, repository |
| Stores `sqlite/` | tables; ledger of migrations | one statement per port method | everybody |
| Scaffold, command line, examples | none that lives on | code generation | none |

### What is hard here

- **Waiting on a condition variable.** `Acquire` and `Lock` loop over a
  `sync.Cond`; whether every change that could end a wait broadcasts, and
  whether a cancelled context ever reaches a parked call, is nothing a test
  with a timeout can settle.
- **A store that mirrors memory.** Every operation writes the store first. A
  cascade that fails half way, or a crash, must leave rows a new manager
  accepts, with bindings that match them.
- **Two ways to own a resource.** Leases are counted, locks are durable, and
  they overlap: locks are taken on leased pools, survive their lease, and are
  given up while leases live.
- **A run steered from outside.** The run loop holds its mutex for short
  sections only: a suspend, a detach, a kill, a deletion or a recovery falls
  between any two of them, and the repository may fail at each.
- **Listeners that outlive their registration.** The last unsubscribe returns
  before the listener's goroutine has noticed; the next Listen establishes
  another, and both know the inbox. One of them may be about to write a cursor.
- **Effects that must not repeat.** `Do` promises an effect at most once per
  key; what remains of that when checkpoints fail or handles are recovered is
  a question about long sequences.

- **Numbers at their edges.** A rotation cursor over a list that changes
  length, a backoff computed in floats and converted to a duration.
- **Two managers, two locks.** An inbox is deleted under the email manager's
  mutex while the accounts that name it change under another.

`PROJECT.json` lists these hazards at their lines with the properties that
cover each, what they leave out of it, and why the one that is left has none.

## 2. Modules

| Module | What it is |
|---|---|
| `Leasing` | the leasing manager: one action per operation, `acquire` as a process of passes |
| `LockService` | what the leasing manager promises: an abstract lock service |
| `LeasingProofs` | proofs: the inductive invariant `Consistent` and what follows from it; no wake-up is lost; leases are counted, capped, and keep their resource pooled; `Leasing` implements `LockService` |
| `Engine` | a task's run: handles, the run loop, steering, effects, record, deletion, recovery |
| `TaskLifecycle` | what the engine promises of a task's durable record: its life, from creation to an outcome that stands |
| `EngineProofs` | proofs: types, live runs and their records, that `Engine` implements `TaskLifecycle`, and which effects may run again |
| `TaskManager` | the registry over several tasks: recovery, reassignment, task groups, deletion and its cascade, beside runs |
| `TaskManagerProofs` | proofs: the inductive invariants `TaskInv` and `CacheInv`, and every property the run checks |
| `EmailListener` | one inbox: its subscriptions, the listeners that serve it, the cursor, backfills, `Close` |
| `EmailProofs` | proofs: the listener's registration, and that the cursor skips nothing and never goes back |
| `CommsBus` | the in-memory bus: publishes, subscriptions, receivers |
| `CommsBusProofs` | proofs: payloads are accounted for, no closed channel is sent to |
| `Migrations` | the schema ledger of a database file, opened by processes of different releases |
| `MigrationsProofs` | proofs: the ledger is the schema, an upgrade is whole |
| `Hosts` | the packages over a leasing manager: proxies with outcomes and rotation, accounts with the inboxes they name and the guard on deleting one, payments |
| `HostsProofs` | proofs: every property of `Hosts`, and the invariant of the service it is built on |
| `Policies` | one run of a handler under a stack of `Retry` and `Timeout` |
| `PoliciesProofs` | proofs: runs within the product of the attempts, at most one that begins late, and the delays of `ExpBackoff` |
| `MCLeasing`, `MCEngine`, `MCTaskManager`, `MCEmailListener`, `MCCommsBus`, `MCMigrations`, `MCHosts`, `MCPolicies` | instances for TLC |

How they compose: `Leasing` instantiates `LockService` under a refinement mapping
and implements it; `Hosts` is built on that same `LockService`, so that what
proxies, accounts and the email manager do is modelled over what the leasing
manager is proved to promise rather than over its waiting loop. `Engine`
instantiates `TaskLifecycle` in the same way and is proved to implement it;
`TaskManager` has runs reduced to the phases of it that a manager can observe.

Operators whose comment begins with *Slip* are deliberate variants of the
definition that follows them, each with one plausible mistake; no specification
uses them. Each property is known to fail when the slip `PROJECT.json` pairs it
with replaces its definition.

### Leasing

State and code: `pool`, `groups`, `bindings`, `holders` are the manager's maps;
`storeGroups`, `storeRows` are its repository; `up` says whether a manager
exists. `pc`, `req`, `lease`, `ctx` are the calls: a call is `ready` between
`Request` and its next pass, `parked` in `cond.Wait`, `holding` while the
caller has its lease, `spent` once released. A method body runs under the
mutex, so it is one action; `acquire` releases it in `cond.Wait` only, so one
iteration is one action. `Broadcast` moves parked calls to `ready`. The watcher
goroutine of a call is `Watch`: `Cancel` ends the context, `Watch` is its
broadcast, and the two are separate because anything can happen in between.

`SaveRow`, `DeleteRows`, `SaveGroup` and `DeleteGroupRow` are the statements of
the repository as `sqlite/proxies.go` has them: one row or group each, with
nothing cascading in the store. A group's strategy may pick any candidate or
fail. Fields of the model (a
proxy's address, an outcome count) and a group's strategy instance are kept in
`Hosts`, with `Update` and `UpdateGroup`, which touch nothing else. Failed
repository writes that leave everything as it was are not actions; those after which something else happens are
(`PassFails`, `DeleteGroupStops`, `RestartStops`).

### Engine

A handle is one Task value with its engine: `eng[h]`. Its `pc` says where the
goroutine in `Start` is; every section under the mutex, every repository call,
every return of a handler is one step. `rec` is the durable row with the
snapshot reduced to the effect log; `ran` counts what really happened outside;
`known` is the manager's registry. `Snapshot` and `RestoreInstance` are what of
an instance reaches the row and comes back from it. `Do` sets the executing
handler on its way through `midCheckpoint`: the check under the mutex, then the write. A
goroutine a handler left behind (`CanStray`) takes three steps, the check, the
snapshot and the write, with anything in between, so that what it writes may be
older than what the run has written meanwhile. It calls `Checkpoint` and not `Do`,
whose map is the handler's alone: `Base` has no lock. A checkpoint fails when the store
does (`CanFail`), when the row is gone, and when its context has ended: with a kill,
with the run, or of itself (`CanExpire`: the caller's context, of which the run's is a
child, or a `Timeout` above the handler). An ended context need not stop a
write; a stamp is written under a context of its own.

`lost` is history: the effects whose latest record was refused (`Forgone`), cut off by
a crash (`Due`), or dropped by a checkpoint with an older log. A later checkpoint that
has them finds them again, and running one again begins its account anew.

`CreateTask`, `RecoverTask` and the deletion are the task manager's, restricted
to what they do to one task. `OneRun` restricts *callers*: they recover a task
once its earlier handles are spent, with nothing of theirs left running, or lost
with their process. What happens when they do not is the run
`engine_recovered_while_ending` and `engine_older_handle.cfg`.

`RecordIsTrue` has two parts: `ResumesHere`, while a state executes, and
`ParkedWell`, while the run is parked or detached where it was parked.
`ImplementsLifecycle` reads `rec` and `ran` alone and hides every handle:
`TaskLifecycle` says that a record is created once, checkpointed while open with a
log that only grows, closed with an outcome that then stands, removed by
deletion, and that no effect its log holds runs again. A failed outcome is open to
another recovery, and no failed run leaves an output.

### TaskManager

`registry`, `groups` are the manager's maps, `rows`, `storeGroups` its
repository, `locked` what the leasing managers of each kind hold durably for its
tasks (the bindings of `Leasing`, with `fits` to judge them). A manager method
holds `taskRegistryMu` from beginning to end, so at most one is under way: `op`
says which and how far it is, and each engine it seals, each store it writes,
each task it releases is a step. Runs do not take that mutex: `Start`, `Settle`,
`Stamp`, `Lock` fall between any two steps of `op`. So do `CreateGroup` and
`UpdateGroup`, which take only the cache's mutex, and the reads of `RecoverAll`
(`sweep`), which come before it takes any.

The section *The repository* of the module has the statements of
`sqlite/tasks.go` that the manager and the runs use.

`DeleteTask` is the cascade of `DeleteGroup` over one task without the group:
both seal, then release, then delete, and both abandon in the same way.
`handles` are the Task values ever built, a run being what `Engine` details:
`starting` before its first checkpoint, `running`, `ending` between the settling
of the outcome and its stamp, `over`. A handler locks only while `running`: a
killed or finished run's context refuses. Failing reads and the methods'
validations leave everything as it was and are not actions. The group an id
names, the workflow a record names and the kinds of locks are not validated by
the store, but only a missing group has consequences modelled here: a missing
workflow fails recovery in the same way.

*Callers* start only the handle built last, recover a task when its earlier
runs have returned, sweep at startup, and do not edit a group they are deleting.
Nothing in the manager enforces this. `Races` lifts the last two restrictions: `"sweep"`, a
sweep beside other calls; `"update"` and `"delete"`, an edit or a second deletion of a
group that is being deleted. `DeleteGroup` looks the group up before it takes the
registry's mutex (`LookUpGroup`) and not again under it: `asked` has the groups
whose deletion waits for it, and the group may change or go before its turn comes.
A goroutine that a handler leaves behind is not modelled here: the context of a done
or failed run is cancelled only after its teardown (`tasks/engine.go:110`), and until
then such a goroutine could still take a lock.

### EmailListener

`row` is the cursor in the repository's row, `inbox` in the manager's inventory;
`registered` is the inbox's entry in `m.listeners`. `listener` holds every
listener ever established, because a goroutine that has been stopped goes on
until it notices: `pc` is where `run` and `serveOnce` are, `stop` is the closed
channel, `subs` the set it serves. A section under the manager's mutex is one
step, and so is a call to the server; between them anything happens. `Become`,
`Goto`, `Continue` and `HangUp` are how a step leaves its listener; `HangUp` is
`serveOnce` returning, with or without an error.

The server is modelled as `listener.go` and `vendors.go` use it. Mail is its UID;
`Select` reports UIDVALIDITY and one below UIDNEXT; `FetchSince` returns what is
above a UID; `Idle` returns for an update, also for one that came since
`Select` and was kept, or when its interval passes. A mailbox may be renumbered
at any time, upwards, and a session of the old numbering then fails at its next
call: both are assumptions about the vendor. A call also fails when `stop` is
closed, whose watcher cancels its context, and `MaxFaults` times otherwise.

`offered` and `since` are history: the mail, numbered as the cursor is, that was
offered to an open channel, and where what it is owed begins. The sender filter
and the buffer decide after the offer, and neither changes anything else, so
they are abstracted; a drop at a full buffer is documented and counts as
offered. `Owed` says what a subscription that joins between a fan-out and the
advance is owed: not the mail that has just been handed on. `Delete` is
modelled here without the question it puts to the accounts manager, which refuses
more and is in `Hosts`. A second `Close` of the manager, which waits for nothing
new, has no action.

### CommsBus

`mu` is the bus lock, held by a publish only over its fan-out; `phase`, `topic`
and `ch` are a subscription's registration and its buffered channel; `call` is
the publish under way in each publisher, with the subscriptions it has not yet
offered to and the drops it still has to report. Each send, each report and each
section under the lock is a step; receiving is one at any time. The order of
the map's iteration is any order. `log`, `since`, `upto`, `got`, `missed` and
`reports` are history: what was published, when a subscription was there to be
owed it, and what became of it. `Close` is two steps, and a second `Close` does
nothing. The drop handler may do anything but wait for ever; calls it makes into
the bus are those of another publisher.

### Migrations

`file` is what is committed: the header's counter, the ledger, and how often
each migration's SQL really took effect. `tx` is a process's transaction, which
only the holder of the write lock `writer` can have: it reads the committed
ledger, gathers what it ran and what it noted, and `Commit` alone adds them to
the file. Counting executions, instead of assuming that SQL refuses to run
twice, is what makes a lost race visible. `Init` admits the files the code has
to refuse: one with the old counter, and one whose ledger lost a row below
another.

### Hosts

`kind` says whose manager it is; `lockedBy` and `uses` are the leasing manager as
`LockService` has it, one group whose members take any number of holders.
`order` is the pool in its order (`Manager.order`), `tally` and `ref` what the
models keep on a row, `groupRef` and `strategy` what the group keeps, `rows` the
store. `cursor` is the rotation of the strategy instance, which never comes back
to the list's length and is replaced by `UpdateGroup` only when the strategy's
name changes. A pin leaves it alone; a lock that cannot be persisted has moved it
(`LockFails`).

`ReleaseOutcome` is three sections: `Report` takes the lease's `sync.Once`,
`Tally` is `Update` in the pool and the store, `Release` frees the hold; anything
else may fall between them, and that a deletion may not is `OutcomesKept`. `ForwardingEmail` reads an account's own inbox or
its group's. `DeleteEmail`, `AskHeld`, `AskLocked` and `DropEmail` are the email
manager's `Delete`: its mutex is held throughout, so no other email operation runs
meanwhile, but leases, locks, releases, links and group changes do, since the
guard's two questions take the accounts manager's mutex one at a time. `since` and
`picks` are history for the properties.

### Policies

`stack` is what `On` was given, outermost first; `level` says who is running or
being answered, `attempt` where each `Retry` is, `passed` which deadlines have gone
by. The handler returns anything whenever it likes, also after its context has
ended; a deadline and a kill may fall between any two steps; a timer may fire at
any moment of a wait and may win the `select` against a context that has ended.
`ExpBackoff` validates nothing, and neither does the model: bases and caps are any
durations, positive or not, and the factor any fraction `factor / over`, also zero or negative. It
computes the product exactly where the code rounds to a float64 (`power` is
`math.Pow`), cuts it to a whole number and converts it to a duration, between `Least` and
`MaxDuration`, where Go leaves an out-of-range conversion to the platform:
`toDuration` is both results.

## 3. What is checked

| Run | Instance | Shows |
|---|---|---|
| `leasing_safety` | 2 resources, 2 groups, 2 tasks, 2 calls, policies {-2,-1,0,2}, 5 kinds of request | the inductive invariant of the proofs (types, store mirrored, bindings, rows always load, locks against counts), exclusive locks, no deletion under a lease, leases counted and capped, no lost wake-up, acquire keeps locks, a grant is what was asked |
| `leasing_promise` | as `leasing_safety`, one policy, fair | `Leasing` implements `LockService`; cancelled calls return; a call that can end does |
| `engine_safety` | 1 task, 2 handles, 2 states, 1 effect; failures, contexts that end, crashes | live runs have records, a record is true of its run at every step, and the engine implements `TaskLifecycle` |
| `engine_promises` | 1 state, 2 handles, 1 effect; contexts that end, crashes, stray checkpoints, fair | an effect runs again only if the record of its last run was refused, overwritten or cut off by a crash; runs asked to end do |
| `tasks_safety` | 2 tasks with 2 handles each, 2 task groups, 1 kind, a resource in one of 2 pools; failures of unlocking and of both deletions, crashes | registered tasks have records and runs are known, no lock outlives its record and no record its group, cache and store agree, an abandoned deletion leaves all as it was, terminal outcomes stand |
| `email_safety` | 2 subscriptions, 2 listeners, 2 messages, one renumbering, 1 failure, crashes, `Idle` with its interval | the registered listener runs and is wanted, the cursor skips nothing and never goes back |
| `email_promises` | 2 subscriptions with backfills, 1 listener, 1 message, one renumbering, 1 failure, `Idle` without its interval, fair | mail reaches a subscription that stays; stopped listeners and `Close` end |
| `comms_bus` | 2 publishers, 2 subscriptions, 2 topics, 3 payloads, buffers of 1 (asked for 0), publishers fair | each subscription sees what it is owed, in order, but for what was dropped; drops are reported; no send on a closed channel; publishes return though nobody receives |
| `migrations` | 3 processes of 3 releases, 2 stores, up to 3 migrations; failures, crashes, files to be refused | the ledger is the schema, an open store has its schema, an upgrade is whole |
| `hosts` | 2 resources, 2 tasks, 2 leases, 2 inboxes; each kind; restarts, failing stores; 5 picks, 1 outcome a row | types; outcomes survive and are reported under a lease only; rotation is even over any list that stands; a guarded deletion of an inbox met no task that used its accounts throughout and reports the locks that stood throughout |
| `policies` | 8 stacks (each policy, both orders, nestings, no attempts), 12 backoffs, durations from -16 to 15, fair | runs within the product of the attempts; at most one run begins after a retry's context ended; delays as documented wherever that is 1 or more; a killed run returns though no timer fires |

Why these bounds are enough to meet the interesting cases. Two tasks and two
resources in two groups are what a pin conflict, a lock contended by another
task, a stale lock and a cascade over one of two groups take; two calls let one
park while the other acts, and share a resource that admits two. A third lease
against a cap of two is left to the theorem `CapsHold`, which holds for any
number of calls. Policies cover the invalid, the unlimited, the default and a
shared cap. Two handles make every recovery after every way a run can end; a
third would only repeat it, as a handle's past reaches its successor through
the record alone. Two states tell "resume here" from "resume elsewhere".
`MaxEffects = 2` counts an effect to its first repetition, which is where
`RepeatsOnlyTheLost` asks for a reason; `engine_promises` leaves `CanFail` out, as a
context that ends refuses the same checkpoints, and a stamp or a deletion that
fails is in `engine_safety` and in the theorem. In `tasks_safety` two tasks are what a cascade needs to
fail between members, one in the group and one outside it what tells their fates
apart; a second handle is a recovery after an abandoned or a half-done deletion;
the two pools make one assignment stale. It uses symmetry between the tasks.
`CHECK_DEADLOCK FALSE` in the Engine and TaskManager runs: handles run out, and
a system whose runs have ended really stops.
In `email_safety` a second listener is what makes the first one superseded, two
messages are one before and one after a fetch, and one renumbering is the only
way the cursor starts again. `email_promises` leaves `Idle`'s interval out
because it would hide a lost update; one listener is enough there, as one that
has been stopped owes nothing to anybody. Here, too, listeners, subscriptions
and mail run out, and the system may stop. In `comms_bus` a buffer of one and
three payloads make a subscription receive, miss and receive again, and both
subscriptions miss the same payload; it runs out of payloads and stops. In
`migrations` the three releases know one, three and three migrations of one
store and one, one and two of the other, so that a process can find the file
older, newer and as new as itself in one store while the other is behind.
In `hosts` five picks take a list of two twice around and once more, with the
cursor beyond any list's length; two resources make lists of one and of two, so
the list changes under the cursor. Two inboxes tell an account's own from its
group's. `MaxTally` ends a history that only counts. In `policies` the nestings
have a retry inside a retry, with and without a deadline between, and the
backoffs grow by whole factors and by one and a half within the cap, past the cap and past
the longest duration, decay to nothing, start at zero and below, have a cap of zero and
below, and a factor of zero and one that turns the sign; 15 is enough for all of these. A run ends, and so does
the system.

Fairness. `Leasing`: a woken call takes its pass and a cancelled call's watcher
runs (`WF` per call): goroutines are not starved and `sync.Mutex` hands the
lock to a waiter. Nothing is assumed of releases or unlocks: callers may hold
for ever, and `WaitersServed` is stated so that other calls may take what a
waiting call wants. `Engine`: the goroutine of a run is scheduled and its
handler returns (`WF` per handle on `RunStep` and `HandlerStep`); nothing is
assumed of those who steer. `EmailListener`: a listener's goroutine runs and the
server answers it, with an error if it likes (`WF` per listener on `Serve`). A
backfill is fair only where it need not wait for the server, which may never
answer it; that `Close` returns all the same is what cancelling it is for.
Renumberings and failures are bounded, so they end. `CommsBus`: a publisher goes
on and the drop handler returns (`WF` per publisher); receivers and closers owe
nothing, which is the point of `NobodyStalls`. `Policies`: a handler returns and
the goroutine goes on (`WF` on `Step`), and no timer need ever fire. `Hosts` has no
liveness.

### Where the code and its documentation disagree

One run states what a comment says and ends in a counterexample.

- `engine_recovered_while_ending`: between settling the outcome and stamping
  it a run is no longer live while its record is; recovering then yields a
  second run of a task that is done (`tasks/manager.go:342`,
  `tasks/tasks.go:45`). It is why the theorems about `Engine` assume `OneRun`.

Seven more configurations do the same and are kept beside the project's runs, as
`<name>.cfg` for the module `MCEngine`, `MCTaskManager` or `MCPolicies`; TLC stops at
each with the behaviour described.

- `engine_effect_repeats`: `Do` runs an effect "at most once per key for the life of
  the task" and "only a crash before then repeats" one whose checkpoint failed
  (`workflows/base.go:125`, `:134`). The checkpoint goes out under the handler's context;
  that ends with the caller's or at a `Timeout`'s deadline, the write is refused, the run
  fails, and the recovered run repeats the effect: no crash, and a healthy
  store. `RepeatsOnlyTheLost` is what remains of the promise.
- `engine_stray_overwrites`: `midCheckpoint` checks under the mutex and writes outside it,
  so the call "after the run exits" that it means to refuse can write after the
  terminal stamp (`tasks/engine.go:213-226`). For the same reason a goroutine's older
  snapshot can drop an effect that the handler has checkpointed, which counts as lost
  in `engine_promises`.
- `engine_older_handle`: recovering a task that has an unstarted handle replaces it in the
  registry and leaves it startable. Started, it is a run that `DeleteTask`, which
  "refuses a running task", does not see (`tasks/manager.go:88`, `:517`).
- `tasks_update_beside_delete`: an `UpdateGroup` between the deletion of a group's row and
  that of its cache entry writes the row back, and the group is there again after a
  restart (`tasks/manager.go:701`; "the cache and the store never diverge", `:102`).
- `tasks_delete_twice`: of two `DeleteGroup` calls that have both found the group the second
  cascades over one that is gone, and drops from the cache what a `CreateGroup` has
  just made (`tasks/manager.go:655`, `:701-705`, same comment).
- `tasks_sweep_beside_calls`: a task that ends while `RecoverAll` is reading is rehydrated
  from its old record and runs again (`tasks/manager.go:377`; "terminal tasks recover
  for inspection only", `:84`).
- `policies_backoff`: an `ExpBackoff` whose delay comes to nothing, by decay or from a
  base of zero, waits the whole cap: the test that catches overflow catches these too
  (`workflows/policy.go:29`, comment at `:24`).

More were met without a run of their own:

- a suspend and detach issued during the last handler exit as `ErrDetached` with
  a record still `running`: the boundary after the last state writes no suspended
  checkpoint (`tasks/engine.go:146`, `:159-169`, comment at `:341`). The record
  is still true of the run and recovery resumes its last state, which is why
  `RecordIsTrue` speaks of runs that detached where they were parked;
- a `Retry` whose context ends during the wait returns the context's error, not
  the handler's last one (`workflows/policy.go:60`, comment at `:36`);
- a `Permanent` error that an inner `Retry` returns has lost its mark, so an outer
  `Retry` runs the state again (`workflows/policy.go:53`);
- an account can be leased after the guard's answer and before the inbox's row
  goes, so a guarded deletion does not mean that no task uses the inbox's accounts
  when it returns; `DeletionGuarded` says what remains (`email/manager.go:182`);
- an account may be linked to another inbox while it is leased: the guard reads
  the row as it is, the holder has the copy it was given
  (`accounts/manager.go:47`);
- a handle wired before a reassignment can lock a resource of the old place after
  the stale lock was dropped; the recovered task, wired to the new place, is
  bound to the old resource, which its next lease returns
  (`tasks/manager.go:501`, comment at `:91`);
- a process that has opened a store goes on using it after a newer release has
  migrated the file: the ledger is read at `Open` only, so what
  `sqlite/migrate.go:78` refuses to open it does not refuse to keep open;
- a kill between the harvest and `finish` stamps `killed` with an output
  (`tasks/engine.go:393`, `workflows/workflows.go:114`);
- a run whose first checkpoint fails is stamped `failed` with nothing to recover
  from (`tasks/engine.go:379`);
- the email manager's `Close` waits for the registered listeners only: one that
  the last unsubscribe stopped just before may still dial after `Close` has
  returned (`email/manager.go:199-201`): `closing.pc = "returned"` does not
  imply that every listener is `gone`.

## 4. What is proved

For all values of the constants that satisfy the named assumptions of each module
(in `Leasing`: `Global` a group, policies integers, requests of the right type,
finitely many tasks and calls; in `Policies`: stacks sequences of decorators, bases and
caps durations, factors fractions; in
`TaskManager` and `Hosts`: `None` no pool, resource, group, row, email or use, so
that a table's "nothing there" cannot be mistaken for an entry):

- `LeasingProofs`: `Consistent` is inductive: types, `NothingWhenDown`,
  `StoreAgrees`, `BindingsMatchOwners`, `StoreLoads`, `OwnersUse`. The parts
  need each other. `StoreLoads` says no task owns two rows, which makes the
  bindings rebuilt by `Restart` the owners; `StoreAgrees` carries that from
  the store to the pool; with `BindingsMatchOwners` a task without binding owns
  nothing, so `PassLocks` gives it its only row; and `OwnersUse` bounds the
  counts under a lock, `LockExclusive` being its reading as sets and sums. From
  it: `TypeCorrect`, `StoreMirrored`, `BindingsAreOwners`, `AlwaysLoads`,
  `LocksAreExclusive`, and the action properties `LocksSurviveAcquire` and
  `GrantsAreHonoured`. `NoWakeupIsLost` needs one thing more, `PinIsBusy`: a call
  whose own task was meanwhile locked elsewhere stays parked, and nobody may
  then lock the resource it is pinned to, which would fail its pin without a
  wake-up. Nobody can, because that resource is still leased; that in turn holds
  because a call parks on a pin only while the pin is leased, a policy that is
  valid admitting at least one holder. It is also why locking needs no broadcast.
  `LeasesAreCounted` (each count is the cardinality of the calls holding) gives
  `NeverRemovedInUse` and `CapsHold`. `Implements` maps each action of `Leasing`
  to one of `LockService` or to a stutter, with the owners stored on the rows as
  locks and the calls that hold as uses.
- `EmailProofs`, for any number of subscriptions, listeners, messages,
  renumberings and failures: `TypeCorrect`, `RegisteredRuns`, `SkipsNothing` and
  the action property `CursorAdvances`. `NothingSkipped` is not inductive: the
  advance is safe because of what was true at the read, two server calls
  earlier. `EmailInv` adds what carries it over: `OneWriter`, that the registered
  listener's reading of the cursor is still the cursor (nobody else may write
  it, and `Delete` refuses while somebody is attached, by `RegisteredIsWanted`),
  `HandedOver`, that all the advance will pass has been offered, and `Mirrored`,
  that no session is newer than the mailbox, so that a reset goes forward.
- `EngineProofs`, for any tasks, handles, graph and effects, with failing writes,
  contexts that end and crashes. While a task has one run at a time (`OneRun`) and no
  goroutine is left behind (`~CanStray`), without either of which `OutcomesStand` is
  false: `LiveRunsRecorded`, `RecordTellsTheRun`, `EngineImplementsLifecycle` and
  `OutcomesStand`. The invariant says that a
  record has at most one *owner*: a handle owns its task's record from its birth
  until it is spent, or until a deletion has sealed it and taken it from the
  registry before its start (`OneOwner`). `Local` is what an engine knows of
  itself, `Durable` what the owner's engine knows of the record: that while it
  writes the record is open and holds no effect it has forgotten. A step of one
  handle then leaves every other handle's part alone, since a non-owner's part
  says nothing of the record. `RecordsOwned` makes a task without handles a task
  without record, so a creation starts from nothing.
  Under `OneRun` alone, with goroutines left behind as well: `TypeCorrect` and
  `RepeatsAccounted`, from an invariant of their own. `EffectInv` speaks of *holders*: a
  task's record has as holder its owner, or the one stray checkpoint of a run that has
  ended, and never two (`OneHolder`). An effect that has run is in the holder's memory or
  in `lost` (`Remembered`), and in the record, in `lost`, or due with the holder's next
  write (`Kept`, `Pending`), which is what a recovery reads; a stray goroutine's snapshot has nothing
  its engine's memory lacks (`Fit`), and a task without a handle has no effects yet
  (`Begun`), so that a creation starts from none. So `Do`, which runs what its
  memory does not hold, repeats only what is lost, however old the snapshots that
  arrive.
- `TaskManagerProofs`, for any tasks, groups, kinds of resource, pools and number of
  handles, with crashes, failing reads and writes and any interleaving of runs with
  the calls: `TypeCorrect` whatever callers do not order; `RunsKnown`,
  `NothingOrphaned`, `AbandonsWhole` and `EndsStand` as long as callers sweep at startup
  only (`"sweep" \notin Races`); `CacheHolds` as long as they neither edit nor delete a
  group that is being deleted either (`Races = {}`). Section 3 says what goes wrong otherwise.
  `CacheHolds` needs that a group whose deletion waits is cached (`AskedAreCached`): the
  lookup was true when it was made, and nobody else may have deleted it since.
  `TaskInv` says what each phase of a call has established and still relies on:
  a recovery, that what it read is so, since nobody else runs the task
  (`ReadStands`, `OneDriver`); a deletion, that what it sealed cannot run
  (`SealHolds`), that whom it is done releasing holds nothing and cannot lock again
  (`LocksGone`, which is where the seal is needed), and that no member has joined
  since it listed them (`MembersListed`). `NoOrphans` holds at the last step because of
  the latter two. `Registered` ties live runs to the registry.
- `CommsBusProofs`, for any subscriptions, publishers, topics and buffers:
  `TypeCorrect`, `PayloadsAccounted`, `NeverSendsOnClosed`. The strengthening says
  what a publish under way knows: its payload is the latest of the log while it has
  the lock, those it has still to offer it to are open and were there before it
  (`CallWell`), and no two publishes are of one payload (`Distinct`), so that a
  report is of a drop of one's own.
- `MigrationsProofs`, for any processes, stores and releases: `TypeCorrect`,
  `LedgerHolds`, `UpgradesAreWhole`. What a transaction has read of the committed
  ledger stays true until its end, as only the holder of the write lock commits;
  and a history without a gap is an initial segment of the versions, whose length
  is the last one, which is what lets the code take a count for a version.

- `HostsProofs`, for any resources, tasks, calls and inboxes, whichever package
  is on top: `TypeCorrect`, `OutcomesAreKept`, `RotatesEvenly` and the action property
  `DeletionsGuarded`. `PoolInv` is the base: rows mirror the pool, and a lease is a use
  of a pooled resource, which is why a tally finds its row. `GuardInv` says what the
  guard's first question leaves true while the second is asked: a task that uses a
  referencing account *throughout* can only become rarer. `TurnInv` says what
  round robin has done with the list that stands: the members at the places from
  some `lo` up to the cursor, around the end, are one pick ahead of the rest
  (`Turning`); it needs the candidates listed once each (`OfferedOnce`), which
  follows from the pool's order. The actions of `Hosts` that touch leases or
  locks are built from those of `LockService`, so that they do what the service allows
  holds by construction and is a lemma only (`HostsUseTheService`), used to carry over
  the service's invariant: `OwnerIsAlone`, that a locked resource has one user, who
  works for its owner.
- `PoliciesProofs`, for any stack and any backoff: `RunsLateOnce`, `RunsBounded` and
  `DelaysHold`. A level that has seen a late run
  has an ended context for as long as its call is open, and every level below it
  has then seen one too (`LateWell`); so nobody waits under it (`WaitsInTime`), and
  only a wait begins another run. For `AttemptsBounded` the invariant keeps accounts
  (`Counted`): `c[i]` is how often the handler had run when level `i`'s current call
  began, `w[i]` how often one call of it may run the handler; each attempt before the
  current one has cost the level `w[i + 1]` at most, and what has been answered is
  within its account (`Answered`). `DelaysHold` is about integers alone: the documented
  delay is compared by cross-multiplication, `Quotient` says what the cut to a whole number
  keeps, and `DelaysFit` that a delay of one or more is either a duration, converted
  as it is, or beyond every duration, where both conversions end at the cap. The product over the stack
  and the powers are recursive functions; `Induction` and `Recursion`, at the head of
  the module, stand in for the library's theorems on them: they take sets for
  predicates and functions for steps, and follow from the least element of a set of
  naturals (`WFMin`).

Every safety invariant and every action property the passing runs check is thus a
theorem. The configurations that end in a counterexample check `TerminalStands`,
`EffectOnce`, `LiveHasRecord`, `CacheAgrees`, `EndedStands` and `BackoffAsCommented` where
the hypotheses of those theorems do not hold, or, for `EffectOnce` and
`BackoffAsCommented`, where nothing makes them true.
Model-checked only: all liveness (`CancelledReturns`, `WaitersServed`,
`AskedRunEnds`, `MailArrives`, `GoroutinesEnd`, `NobodyStalls`, `KilledReturns`), which with
`ENABLED` is beyond the prover.

## 5. Not modelled, and what is left

Not modelled for good: what of `email/vendors.go` is not the mailbox seam
(authentication, tokens, IMAP framing, MIME parsing), JSON and row
encodings, the scaffold and the command line (a generator), the example,
`typed.go` (conversions over the manager), the Beta draws of
`proxies/bayesian.go` (any candidate may be drawn) and URL formatting.

Left, in this order:

1. `TaskManager`: a second kind of resource, so that a release fails for one and
   succeeds for another; `RegisterWorkflow`; operation without a repository. The
   instance is at what TLC can visit in minutes as it is.
2. A composition of `TaskManager` with a lock service per kind, with leases beside
   locks: a killed run's lease against the deletion's release.
3. Proofs: what is left is under "Model-checked only".
