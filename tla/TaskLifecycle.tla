--------------------------- MODULE TaskLifecycle ---------------------------
(***************************************************************************)
(* What a task's durable record promises whoever recovers it (the contract *)
(* of tasks.Repository in tasks/tasks.go and of the effect log in          *)
(* workflows/base.go), without runs, steering, deletion's seal or crashes: *)
(* a record is created once, checkpointed until it has an outcome that     *)
(* stands, and removed; its log only grows, what the log holds is not run  *)
(* again, and an output comes with an outcome.                             *)
(***************************************************************************)
EXTENDS Naturals

CONSTANTS Tasks, States, Keys, None

VARIABLES
  rec,  \* the record of each task, or None
  ran   \* how often each effect of each task ran in the outside world

vars == <<rec, ran>>

Terminal == {"done", "killed"}
Open(t) == rec[t] # None /\ rec[t].status \notin Terminal

Init ==
  /\ rec = [t \in Tasks |-> None]
  /\ ran = [t \in Tasks |-> [k \in Keys |-> 0]]

Create(t) ==
  /\ rec[t] = None
  /\ rec' = [rec EXCEPT ![t] =
       [status |-> "notStarted", state |-> None, log |-> {}, output |-> FALSE]]
  /\ UNCHANGED ran

\* A later checkpoint holds every effect an earlier one did.
Checkpoint(t, status, state, log) ==
  /\ Open(t)
  /\ rec[t].log \subseteq log
  /\ rec' = [rec EXCEPT ![t].status = status, ![t].state = state, ![t].log = log]
  /\ UNCHANGED ran

\* A failed run is open to another recovery and leaves no output.
End(t, outcome, output) ==
  /\ Open(t)
  /\ output => outcome \in Terminal
  /\ rec' = [rec EXCEPT ![t].status = outcome, ![t].output = output]
  /\ UNCHANGED ran

Effect(t, k) ==
  /\ rec[t] # None => k \notin rec[t].log
  /\ ran' = [ran EXCEPT ![t][k] = @ + 1]
  /\ UNCHANGED rec

Remove(t) ==
  /\ rec' = [rec EXCEPT ![t] = None]
  /\ UNCHANGED ran

Next ==
  \E t \in Tasks :
    \/ Create(t) \/ Remove(t)
    \/ \E status \in {"running", "suspended"}, state \in States, log \in SUBSET Keys :
         Checkpoint(t, status, state, log)
    \/ \E outcome \in Terminal \cup {"failed"}, output \in BOOLEAN : End(t, outcome, output)
    \/ \E k \in Keys : Effect(t, k)

Spec == Init /\ [][Next]_vars

=============================================================================
