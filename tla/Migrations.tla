----------------------------- MODULE Migrations -----------------------------
(***************************************************************************)
(* The schema ledger of a database file (sqlite/migrate.go), opened by     *)
(* several processes, each with the migrations its release knows of each   *)
(* store.                                                                  *)
(*                                                                         *)
(* migrate runs in one immediate transaction: whoever has begun is the     *)
(* file's only writer, and what it executes reaches the file at Commit or  *)
(* not at all.  A step is one statement.  Statements and commits may fail, *)
(* processes may crash, and the file may be one that was written before    *)
(* there was a ledger or whose ledger lost a row.  A begin that waits for  *)
(* the writer past the busy timeout fails and changes nothing.             *)
(***************************************************************************)
EXTENDS Naturals, FiniteSets

CONSTANTS
  Processes,   \* processes that open the file
  Stores,      \* the names stores keep their history under
  MaxVersion,  \* the longest list of migrations
  Known,       \* how many migrations of a store a process knows
  None         \* nobody has the write lock; no store

ASSUME VersionAssumption == MaxVersion \in Nat
ASSUME KnownAssumption == Known \in [Processes -> [Stores -> 0 .. MaxVersion]]
ASSUME NoneAssumption == None \notin Stores \cup Processes

Versions == 1 .. MaxVersion

Files ==
  [userVersion: BOOLEAN,                    \* the header counter is set
   ledger: BOOLEAN,                         \* there is a ledger
   recorded: [Stores -> SUBSET Versions],   \* the versions the ledger has
   executed: [Stores -> [Versions -> Nat]]] \* how often each step took effect

Transactions ==
  [stage: {"none", "begun", "applying", "recording"},
   store: Stores \cup {None},
   i: Versions \cup {MaxVersion + 1},  \* the next step
   ran: SUBSET Versions,               \* steps executed in the transaction
   noted: SUBSET Versions]             \* and recorded in it

NoTx == [stage |-> "none", store |-> None, i |-> 1, ran |-> {}, noted |-> {}]

VARIABLES
  file,    \* what is committed
  writer,  \* the process that has the write lock, or None
  tx,      \* the transaction of each process
  open     \* the stores each process has opened

vars == <<file, writer, tx, open>>

TypeOK ==
  /\ file \in Files
  /\ writer \in Processes \cup {None}
  /\ tx \in [Processes -> Transactions]
  /\ \A p \in Processes : tx[p].stage # "none" <=> writer = p
  /\ open \in [Processes -> SUBSET Stores]

\* A ledger with a row missing below one it has.
Gapped(versions) == \E v \in versions : \E w \in 1 .. v : w \notin versions

\* The file: a fresh one, one from before the ledger, or one whose ledger was
\* edited after some release had migrated it.
Init ==
  /\ \E recorded \in [Stores -> SUBSET Versions], old \in BOOLEAN :
       LET top(s) == {v \in Versions : \E w \in recorded[s] : v <= w} IN
         /\ \A s \in Stores : recorded[s] = {} \/ Gapped(recorded[s])
         /\ file = [userVersion |-> old,
                    ledger |-> \E s \in Stores : recorded[s] # {},
                    recorded |-> recorded,
                    executed |-> [s \in Stores |->
                      [v \in Versions |-> IF v \in top(s) THEN 1 ELSE 0]]]
         /\ old => ~file.ledger
  /\ writer = None
  /\ tx = [p \in Processes |-> NoTx]
  /\ open = [p \in Processes |-> {}]

-----------------------------------------------------------------------------
\* Slip: the transaction takes the write lock only when it writes.
BeginDeferred(p, s) ==
  /\ tx[p].stage = "none"
  /\ writer' = p
  /\ tx' = [tx EXCEPT ![p] = [NoTx EXCEPT !.stage = "begun", !.store = s]]
  /\ UNCHANGED <<file, open>>

Begin(p, s) ==
  /\ writer = None
  /\ writer' = p
  /\ tx' = [tx EXCEPT ![p] = [NoTx EXCEPT !.stage = "begun", !.store = s]]
  /\ UNCHANGED <<file, open>>

\* The transaction is over without effect.
Rollback(p) ==
  /\ writer' = None
  /\ tx' = [tx EXCEPT ![p] = NoTx]

rejectPreLedger == file.userVersion

applied(s) == Cardinality(file.recorded[s])

\* A file from before the ledger, a history with a gap, one newer than the release.
Refused(p) ==
  LET s == tx[p].store IN
    \/ rejectPreLedger
    \/ Gapped(file.recorded[s])
    \/ applied(s) > Known[p][s]

Refuse(p) ==
  /\ tx[p].stage = "begun" /\ Refused(p)
  /\ Rollback(p)
  /\ UNCHANGED <<file, open>>

\* The ledger is there and says where to go on.
Resume(p) ==
  /\ tx[p].stage = "begun" /\ ~Refused(p)
  /\ tx' = [tx EXCEPT ![p].stage = "applying", ![p].i = applied(tx[p].store) + 1]
  /\ UNCHANGED <<file, writer, open>>

Finished(p) == tx[p].i > Known[p][tx[p].store]

\* apply: the step's SQL, then its row.
Execute(p) ==
  /\ tx[p].stage = "applying" /\ ~Finished(p)
  /\ tx' = [tx EXCEPT ![p].stage = "recording", ![p].ran = @ \cup {tx[p].i}]
  /\ UNCHANGED <<file, writer, open>>

Record(p) ==
  /\ tx[p].stage = "recording"
  /\ tx' = [tx EXCEPT ![p].stage = "applying", ![p].noted = @ \cup {tx[p].i},
                      ![p].i = @ + 1]
  /\ UNCHANGED <<file, writer, open>>

\* What the transaction did reaches the file.
Written(p) ==
  LET s == tx[p].store IN
    [file EXCEPT !.ledger = TRUE,
                 !.recorded[s] = @ \cup tx[p].noted,
                 !.executed[s] = [v \in Versions |->
                   IF v \in tx[p].ran THEN @[v] + 1 ELSE @[v]]]

Commit(p) ==
  /\ tx[p].stage = "applying" /\ Finished(p)
  /\ file' = Written(p)
  /\ Rollback(p)
  /\ open' = [open EXCEPT ![p] = @ \cup {tx[p].store}]

\* Slip: a failed step keeps the steps before it.
FailKeeps(p) ==
  /\ tx[p].stage \in {"applying", "recording"}
  /\ file' = Written(p)
  /\ Rollback(p)
  /\ UNCHANGED open

\* A statement or the commit fails.
Fail(p) ==
  /\ tx[p].stage # "none"
  /\ Rollback(p)
  /\ UNCHANGED <<file, open>>

\* The process dies; its transaction is undone when the file is next opened.
Crash(p) ==
  /\ tx[p].stage # "none" \/ open[p] # {}
  /\ writer' = IF writer = p THEN None ELSE writer
  /\ tx' = [tx EXCEPT ![p] = NoTx]
  /\ open' = [open EXCEPT ![p] = {}]
  /\ UNCHANGED file

Next ==
  \E p \in Processes :
    \/ \E s \in Stores : Begin(p, s)
    \/ Refuse(p) \/ Resume(p) \/ Execute(p) \/ Record(p) \/ Commit(p)
    \/ Fail(p) \/ Crash(p)

Spec == Init /\ [][Next]_vars

-----------------------------------------------------------------------------
(* Properties.                                                             *)

\* The ledger and the schema tell one story, whoever opened the file, failed
\* or crashed: no step took effect twice, none is recorded that did not, and
\* in a history without gap none took effect unrecorded.
HistoryIsSchema ==
  \A s \in Stores, v \in Versions :
    /\ file.executed[s][v] <= 1
    /\ v \in file.recorded[s] => file.executed[s][v] = 1
    /\ ~Gapped(file.recorded[s]) /\ file.executed[s][v] = 1 => v \in file.recorded[s]

\* And a store is handed out on a file that has all its migrations, and keeps
\* them while other processes and other stores migrate the file further.
OpenHasItsSchema ==
  \A p \in Processes : \A s \in open[p] : 1 .. Known[p][s] \subseteq file.recorded[s]

LedgerIsTrue == HistoryIsSchema /\ OpenHasItsSchema

\* "an upgrade all-or-nothing" (migrate.go:43): a change of the file takes one
\* store from a history without gap to the last version its process knows, and
\* touches no other store and no file from before the ledger.
UpgradeWhole ==
  [][file' # file =>
       /\ ~file.userVersion /\ ~file'.userVersion
       /\ \E p \in Processes, s \in Stores :
            /\ ~Gapped(file.recorded[s])
            /\ file.recorded[s] \subseteq file'.recorded[s]
            /\ file'.recorded[s] = 1 .. Known[p][s]
            /\ \A r \in Stores \ {s} :
                 /\ file'.recorded[r] = file.recorded[r]
                 /\ file'.executed[r] = file.executed[r]]_vars

=============================================================================
