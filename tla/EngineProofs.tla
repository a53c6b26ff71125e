---------------------------- MODULE EngineProofs ----------------------------
(***************************************************************************)
(* Theorems about Engine, for any tasks, handles, graph and effects, while *)
(* a task has one run at a time (OneRun); writes may fail, contexts end and *)
(* the process crash.  Without goroutines left behind: what the record says *)
(* of a run, that a live run has one, that outcomes stand, and that the     *)
(* engine implements TaskLifecycle.  With them too: the types, and which    *)
(* effects may run again.                                                   *)
(***************************************************************************)
EXTENDS Engine, TLAPS

-----------------------------------------------------------------------------
(* The inductive invariant.  A handle owns its task's record from its birth *)
(* until it is spent, or given up before its start; a task has one owner,   *)
(* and what holds of the record holds of it.                                *)

Running(e) == e.state \in Live /\ ~e.detachDone
OwnerAs(e, mine) == e.pc \notin Spent /\ (e.pc \in Unstarted /\ e.sealed => mine)
Mine(h) == known[TaskOf[h]] = h
Owner(h) == OwnerAs(eng[h], Mine(h))

\* Between the boundary and the end of a state.
AtState == {"suspending", "parking", "parked", "entering", "entered"} \cup InHandler
Writing == InLoop \cup {"exiting", "stamping"}

\* What an engine knows of itself.
Local(e) ==
  /\ e.stray = None
  /\ e.pc = "unborn" => e = NewEngine
  /\ e.pc \in InHandler => e.current # None /\ e.current = e.next
  /\ Running(e) => e.pc \in InLoop \cup {"exiting"} /\ ~e.sealed
  /\ e.pc \in Unstarted \cup InLoop => ~e.detachDone /\ ~e.output /\ ~e.err
  /\ e.pc = "new" => e.next = Initial /\ e.effects = {}
  /\ e.pc \in AtState => e.next # None
  /\ e.pc = "exiting" => (e.output => ~e.err)
  /\ e.pc = "stamping" =>
       /\ e.state \in {"killed", "failed", "done"} /\ ~e.detachDone
       /\ e.output => e.state # "failed"
  /\ e.pc = "parked" => e.state = "suspended" /\ ~e.detachWanted

\* What it knows of the record it owns.
Durable(e, r, mine) ==
  /\ e.pc \in Unstarted \/ Running(e) => mine /\ r # None
  /\ r # None =>
       /\ e.pc = "new" => r.status = "notStarted" /\ r.log = {}
       /\ e.pc = "recovered" => r.status = e.status /\ r.log = e.effects
       /\ e.pc \in Writing => r.status \notin Terminal /\ r.log \subseteq e.effects
       /\ e.pc \in {"entered"} \cup InHandler => r.status = "running" /\ r.state = e.next
       /\ \/ e.pc \in {"parking", "parked"}
          \/ e.detachDone /\ e.next # None /\ e.pc \in Leaving
          => r.status = "suspended" /\ r.state = e.next /\ r.log = e.effects

OneOwner ==
  \A g, h \in Handles : g # h /\ TaskOf[g] = TaskOf[h] => ~(Owner(g) /\ Owner(h))

RecordsOwned ==
  \A t \in Tasks :
    /\ rec[t] # None => \E g \in Handles : TaskOf[g] = t /\ eng[g].pc # "unborn"
    /\ known[t] # None => TaskOf[known[t]] = t /\ eng[known[t]].pc # "unborn"

IInv ==
  /\ TablesOK
  /\ \A h \in Handles : Local(eng[h])
  /\ \A h \in Handles : Owner(h) => Durable(eng[h], rec[TaskOf[h]], Mine(h))
  /\ OneOwner
  /\ RecordsOwned

-----------------------------------------------------------------------------
(* Steps of one handle.                                                    *)

LEMMA NewEngineTyped == NewEngine \in Engines /\ NewEngine.pc = "unborn" /\ Local(NewEngine)
<1>1. NewEngine \in Engines
  BY DEF NewEngine, Engines, Spent, Statuses
<1>2. Local(NewEngine)
  BY DEF NewEngine, Local, Running, Live, InHandler, Unstarted, InLoop, AtState
<1> QED BY <1>1, <1>2 DEF NewEngine

\* A handle that does not own the record does not depend on it.
LEMMA OwnerRuns ==
  ASSUME IInv, NEW h \in Handles
  PROVE  /\ eng[h].pc \in Writing => Owner(h)
         /\ Running(eng[h]) => Owner(h)
<1>1. \A pc : pc \in Writing => pc \notin Spent \cup Unstarted
  BY DEF Writing, InLoop, InHandler, Unstarted, Spent
<1>2. Running(eng[h]) => eng[h].pc \in Writing
  BY DEF IInv, Local, Writing
<1> QED BY <1>1, <1>2 DEF Owner, OwnerAs

\* A handle takes a step, on its own or on the record it owns.
LEMMA HandleKeeps ==
  ASSUME IInv, NEW h \in Handles, NEW e \in Engines, NEW r \in Records \cup {None},
         eng' = [eng EXCEPT ![h] = e], rec' = [rec EXCEPT ![TaskOf[h]] = r],
         UNCHANGED known, ran' \in [Tasks -> [Keys -> 0 .. MaxEffects]],
         eng[h].pc # "unborn", e.pc # "unborn", Local(e),
         Owner(h) \/ r = rec[TaskOf[h]], rec[TaskOf[h]] = None => r = None,
         OwnerAs(e, Mine(h)) => Owner(h) /\ Durable(e, r, Mine(h))
  PROVE  IInv'
<1>1. /\ TablesOK /\ OneOwner /\ RecordsOwned /\ TaskOf[h] \in Tasks
      /\ \A g \in Handles : TaskOf[g] \in Tasks /\ Local(eng[g])
      /\ \A g \in Handles : Owner(g) => Durable(eng[g], rec[TaskOf[g]], Mine(g))
  BY TaskOfAssumption DEF IInv
<1>2. /\ \A g \in Handles : eng'[g] = IF g = h THEN e ELSE eng[g]
      /\ \A t \in Tasks : rec'[t] = IF t = TaskOf[h] THEN r ELSE rec[t]
  BY <1>1 DEF TablesOK
<1>3. \A g \in Handles : Local(eng'[g])
  BY <1>1, <1>2
<1>4. TablesOK'
  <2>1. eng' \in [Handles -> Engines] /\ rec' \in [Tasks -> Records \cup {None}]
    BY <1>1 DEF TablesOK
  <2>2. \A g \in Handles : eng'[g].pc \in InHandler =>
          eng'[g].current # None /\ eng'[g].current = eng'[g].next
    BY <1>3 DEF Local
  <2> QED BY <1>1, <2>1, <2>2 DEF TablesOK
<1>5. \A g \in Handles : Mine(g)' = Mine(g)
  BY DEF Mine
<1>6. \A g \in Handles : Owner(g)' => Owner(g)
  BY <1>2, <1>5 DEF Owner
<1>7. ASSUME NEW g \in Handles, Owner(g)' PROVE Durable(eng'[g], rec'[TaskOf[g]], Mine(g)')
  <2>1. CASE g = h
    BY <1>1, <1>2, <1>5, <1>7, <2>1 DEF Owner
  <2>2. CASE g # h
    <3>1. rec'[TaskOf[g]] = rec[TaskOf[g]]
      BY <1>1, <1>2, <1>6, <1>7, <2>2 DEF OneOwner
    <3> QED BY <1>1, <1>2, <1>5, <1>6, <1>7, <2>2, <3>1
  <2> QED BY <2>1, <2>2
<1>8. OneOwner'
  BY <1>1, <1>6 DEF OneOwner
<1>9. RecordsOwned'
  <2>1. \A g \in Handles : eng'[g].pc = "unborn" <=> eng[g].pc = "unborn"
    BY <1>2
  <2>2. \A t \in Tasks : rec'[t] # None => rec[t] # None
    BY <1>1, <1>2
  <2>3. \A t \in Tasks : known[t] # None => known[t] \in Handles
    BY <1>1 DEF TablesOK
  <2> QED BY <1>1, <2>1, <2>2, <2>3 DEF RecordsOwned
<1>10. (\A g \in Handles : Local(eng[g]))'
  BY <1>3
<1>11. (\A g \in Handles : Owner(g) => Durable(eng[g], rec[TaskOf[g]], Mine(g)))'
  BY <1>7
<1> QED BY <1>4, <1>8, <1>9, <1>10, <1>11 DEF IInv

\* Often the record stands.
LEMMA EngineKeeps ==
  ASSUME IInv, NEW h \in Handles, NEW e \in Engines, eng' = [eng EXCEPT ![h] = e],
         UNCHANGED <<rec, known>>, ran' \in [Tasks -> [Keys -> 0 .. MaxEffects]],
         eng[h].pc # "unborn", e.pc # "unborn", Local(e),
         OwnerAs(e, Mine(h)) => Owner(h) /\ Durable(e, rec[TaskOf[h]], Mine(h))
  PROVE  IInv'
<1>1. rec \in [Tasks -> Records \cup {None}] /\ TaskOf[h] \in Tasks
  BY TaskOfAssumption DEF IInv, TablesOK
<1>2. rec' = [rec EXCEPT ![TaskOf[h]] = rec[TaskOf[h]]] /\ rec[TaskOf[h]] \in Records \cup {None}
  BY <1>1
<1> QED BY <1>2, HandleKeeps

Facts(h) ==
  /\ eng \in [Handles -> Engines] /\ rec \in [Tasks -> Records \cup {None}]
  /\ ran \in [Tasks -> [Keys -> 0 .. MaxEffects]] /\ known \in [Tasks -> Handles \cup {None}]
  /\ TaskOf[h] \in Tasks /\ eng[h] \in Engines /\ rec[TaskOf[h]] \in Records \cup {None}
  /\ Local(eng[h]) /\ (Mine(h) => eng[h].pc # "unborn")
  /\ Owner(h) => Durable(eng[h], rec[TaskOf[h]], Mine(h))

LEMMA FactsHold ==
  ASSUME IInv, NEW h \in Handles
  PROVE  Facts(h)
<1>1. Mine(h) => known[TaskOf[h]] # None
  BY NoneStateAssumption DEF Mine
<1> QED BY TaskOfAssumption, <1>1 DEF IInv, TablesOK, Facts, RecordsOwned, Mine

USE DEF Unstarted, InLoop, InHandler, Leaving, Spent, AtState, Writing, Live, Terminal

LEMMA StartKilledKeeps ==
  ASSUME IInv, NEW h \in Handles, StartKilled(h)
  PROVE  IInv'
<1> DEFINE e == eng'[h]
<1>1. Facts(h)
  BY FactsHold
<1>2. e = [eng[h] EXCEPT !.pc = "refused", !.status = "killed"] /\ eng' = [eng EXCEPT ![h] = e] /\ UNCHANGED <<rec, ran, known>>
  BY <1>1 DEF Facts, StartKilled
<1>3. e \in Engines
  <2> HIDE DEF e
  <2> QED BY <1>1, <1>2 DEF Facts, Engines, Statuses
<1>4. Local(e) /\ eng[h].pc # "unborn" /\ e.pc # "unborn"
  BY <1>1 DEF Facts, Engines, Local, Running, StartKilled, Startable
<1>5. OwnerAs(e, Mine(h)) => Owner(h) /\ Durable(e, rec[TaskOf[h]], Mine(h))
  BY <1>1 DEF Facts, Engines, Local, Owner, OwnerAs, Durable, Running, StartKilled, Startable
<1> QED BY <1>1, <1>2, <1>3, <1>4, <1>5, EngineKeeps DEF Facts

LEMMA StartRefusedKeeps ==
  ASSUME IInv, NEW h \in Handles, StartRefused(h)
  PROVE  IInv'
<1> DEFINE e == eng'[h]
<1>1. Facts(h)
  BY FactsHold
<1>2. e \in Engines /\ eng' = [eng EXCEPT ![h] = e] /\ UNCHANGED <<rec, ran, known>>
  BY <1>1 DEF Facts, Engines, Statuses, StartRefused
<1>3. Local(e) /\ eng[h].pc # "unborn" /\ e.pc # "unborn"
  BY <1>1 DEF Facts, Engines, Local, Running, StartRefused
<1>4. OwnerAs(e, Mine(h)) => Owner(h) /\ Durable(e, rec[TaskOf[h]], Mine(h))
  BY <1>1 DEF Facts, Engines, Local, Owner, OwnerAs, Durable, Running, StartRefused
<1> QED BY <1>1, <1>2, <1>3, <1>4, EngineKeeps DEF Facts

LEMMA StartKeeps ==
  ASSUME IInv, NEW h \in Handles, Start(h)
  PROVE  IInv'
<1> DEFINE e == eng'[h]
<1>1. Facts(h)
  BY FactsHold
<1>2. e \in Engines /\ eng' = [eng EXCEPT ![h] = e] /\ UNCHANGED <<rec, ran, known>>
  BY <1>1 DEF Facts, Engines, Statuses, Start, Startable
<1>3. Local(e) /\ eng[h].pc # "unborn" /\ e.pc # "unborn"
  BY <1>1 DEF Facts, Engines, Local, Running, Start, Startable
<1>4. OwnerAs(e, Mine(h)) => Owner(h) /\ Durable(e, rec[TaskOf[h]], Mine(h))
  BY <1>1 DEF Facts, Engines, Local, Owner, OwnerAs, Durable, Running, Start, Startable
<1> QED BY <1>1, <1>2, <1>3, <1>4, EngineKeeps DEF Facts

LEMMA BoundaryKeeps ==
  ASSUME IInv, NEW h \in Handles, Boundary(h)
  PROVE  IInv'
<1> DEFINE e == eng'[h]
<1> DEFINE b == [eng[h] EXCEPT !.current = None]
<1>1. Facts(h)
  BY FactsHold
<1>2. eng' = [eng EXCEPT ![h] = e] /\ UNCHANGED <<rec, ran, known>>
  BY <1>1 DEF Facts, Boundary
<1>3. \/ /\ b.state = "killed"
         /\ e = [b EXCEPT !.pc = "exiting", !.err = TRUE]
      \/ /\ b.state = "suspended" /\ b.detachWanted /\ b.next = None
         /\ e = [b EXCEPT !.detachDone = TRUE, !.pc = "exiting", !.err = TRUE]
      \/ /\ b.state # "killed" /\ b.next = None
         /\ e = [b EXCEPT !.pc = "harvesting"]
      \/ /\ b.state # "killed" /\ b.next # None
         /\ e = [b EXCEPT !.pc = "entering"]
      \/ /\ b.state = "suspended" /\ b.next # None
         /\ e = [b EXCEPT !.pc = "suspending"]
  <2>1. e = IF b.next # None /\ b.state = "suspended"
            THEN [b EXCEPT !.pc = "suspending"] ELSE Decide(b)
    BY <1>1 DEF Facts, Boundary
  <2>2. CASE b.next # None /\ b.state = "suspended"
    BY <2>1, <2>2
  <2>3. CASE ~(b.next # None /\ b.state = "suspended")
    <3>1. e = Decide(b)
      BY <2>1, <2>3
    <3> HIDE DEF e, b
    <3> QED BY <2>3, <3>1 DEF Decide, Exits
  <2> QED BY <2>2, <2>3
<1>4. eng[h] \in Engines /\ eng[h].pc = "boundary"
  BY <1>1 DEF Facts, Boundary
<1> HIDE DEF e
<1>5. CASE b.state = "killed" /\ e = [b EXCEPT !.pc = "exiting", !.err = TRUE]
  <2>1. e \in Engines
    BY <1>4, <1>5 DEF Engines, Statuses
  <2>2. Local(e) /\ eng[h].pc # "unborn" /\ e.pc # "unborn"
    BY <1>1, <1>4, <1>5 DEF Facts, Engines, Local, Running
  <2>3. OwnerAs(e, Mine(h)) => Owner(h) /\ Durable(e, rec[TaskOf[h]], Mine(h))
    BY <1>1, <1>4, <1>5 DEF Facts, Engines, Local, Owner, OwnerAs, Durable, Running
  <2> QED BY <1>1, <1>2, <2>1, <2>2, <2>3, EngineKeeps DEF Facts
<1>6. CASE b.state = "suspended" /\ b.detachWanted /\ b.next = None /\ e = [b EXCEPT !.detachDone = TRUE, !.pc = "exiting", !.err = TRUE]
  <2>1. e \in Engines
    BY <1>4, <1>6 DEF Engines, Statuses
  <2>2. Local(e) /\ eng[h].pc # "unborn" /\ e.pc # "unborn"
    BY <1>1, <1>4, <1>6 DEF Facts, Engines, Local, Running
  <2>3. OwnerAs(e, Mine(h)) => Owner(h) /\ Durable(e, rec[TaskOf[h]], Mine(h))
    BY <1>1, <1>4, <1>6 DEF Facts, Engines, Local, Owner, OwnerAs, Durable, Running
  <2> QED BY <1>1, <1>2, <2>1, <2>2, <2>3, EngineKeeps DEF Facts
<1>7. CASE b.state # "killed" /\ b.next = None /\ e = [b EXCEPT !.pc = "harvesting"]
  <2>1. e \in Engines
    BY <1>4, <1>7 DEF Engines, Statuses
  <2>2. Local(e) /\ eng[h].pc # "unborn" /\ e.pc # "unborn"
    BY <1>1, <1>4, <1>7 DEF Facts, Engines, Local, Running
  <2>3. OwnerAs(e, Mine(h)) => Owner(h) /\ Durable(e, rec[TaskOf[h]], Mine(h))
    BY <1>1, <1>4, <1>7 DEF Facts, Engines, Local, Owner, OwnerAs, Durable, Running
  <2> QED BY <1>1, <1>2, <2>1, <2>2, <2>3, EngineKeeps DEF Facts
<1>8. CASE b.state # "killed" /\ b.next # None /\ e = [b EXCEPT !.pc = "entering"]
  <2>1. e \in Engines
    BY <1>4, <1>8 DEF Engines, Statuses
  <2>2. Local(e) /\ eng[h].pc # "unborn" /\ e.pc # "unborn"
    BY <1>1, <1>4, <1>8 DEF Facts, Engines, Local, Running
  <2>3. OwnerAs(e, Mine(h)) => Owner(h) /\ Durable(e, rec[TaskOf[h]], Mine(h))
    BY <1>1, <1>4, <1>8 DEF Facts, Engines, Local, Owner, OwnerAs, Durable, Running
  <2> QED BY <1>1, <1>2, <2>1, <2>2, <2>3, EngineKeeps DEF Facts
<1>9. CASE b.state = "suspended" /\ b.next # None /\ e = [b EXCEPT !.pc = "suspending"]
  <2>1. e \in Engines
    BY <1>4, <1>9 DEF Engines, Statuses
  <2>2. Local(e) /\ eng[h].pc # "unborn" /\ e.pc # "unborn"
    BY <1>1, <1>4, <1>9 DEF Facts, Engines, Local, Running
  <2>3. OwnerAs(e, Mine(h)) => Owner(h) /\ Durable(e, rec[TaskOf[h]], Mine(h))
    BY <1>1, <1>4, <1>9 DEF Facts, Engines, Local, Owner, OwnerAs, Durable, Running
  <2> QED BY <1>1, <1>2, <2>1, <2>2, <2>3, EngineKeeps DEF Facts
<1> QED BY <1>3, <1>5, <1>6, <1>7, <1>8, <1>9

LEMMA ParkKeeps ==
  ASSUME IInv, NEW h \in Handles, Park(h)
  PROVE  IInv'
<1> DEFINE e == eng'[h]
<1>1. Facts(h)
  BY FactsHold
<1>2. eng' = [eng EXCEPT ![h] = e] /\ UNCHANGED <<rec, ran, known>>
  BY <1>1 DEF Facts, Park
<1>3. \/ /\ eng[h].state = "killed"
         /\ e = [eng[h] EXCEPT !.pc = "exiting", !.err = TRUE]
      \/ /\ eng[h].state = "suspended" /\ eng[h].detachWanted
         /\ e = [eng[h] EXCEPT !.detachDone = TRUE, !.pc = "exiting", !.err = TRUE]
      \/ /\ eng[h].state # "killed" /\ eng[h].next = None
         /\ e = [eng[h] EXCEPT !.pc = "harvesting"]
      \/ /\ eng[h].next # None
         /\ e = [eng[h] EXCEPT !.pc = "entering"]
      \/ /\ eng[h].state = "suspended" /\ ~eng[h].detachWanted
         /\ e = [eng[h] EXCEPT !.pc = "parked"]
  BY <1>1 DEF Facts, Engines, Local, Park, Decide, Exits
<1>4. eng[h] \in Engines /\ eng[h].pc = "parking"
  BY <1>1 DEF Facts, Park
<1> HIDE DEF e
<1>5. CASE eng[h].state = "killed" /\ e = [eng[h] EXCEPT !.pc = "exiting", !.err = TRUE]
  <2>1. e \in Engines
    BY <1>4, <1>5 DEF Engines, Statuses
  <2>2. Local(e) /\ eng[h].pc # "unborn" /\ e.pc # "unborn"
    BY <1>1, <1>4, <1>5 DEF Facts, Engines, Local, Running
  <2>3. OwnerAs(e, Mine(h)) => Owner(h) /\ Durable(e, rec[TaskOf[h]], Mine(h))
    BY <1>1, <1>4, <1>5 DEF Facts, Engines, Local, Owner, OwnerAs, Durable, Running
  <2> QED BY <1>1, <1>2, <2>1, <2>2, <2>3, EngineKeeps DEF Facts
<1>6. CASE eng[h].state = "suspended" /\ eng[h].detachWanted /\ e = [eng[h] EXCEPT !.detachDone = TRUE, !.pc = "exiting", !.err = TRUE]
  <2>1. e \in Engines
    BY <1>4, <1>6 DEF Engines, Statuses
  <2>2. Local(e) /\ eng[h].pc # "unborn" /\ e.pc # "unborn"
    BY <1>1, <1>4, <1>6 DEF Facts, Engines, Local, Running
  <2>3. OwnerAs(e, Mine(h)) => Owner(h) /\ Durable(e, rec[TaskOf[h]], Mine(h))
    BY <1>1, <1>4, <1>6 DEF Facts, Engines, Local, Owner, OwnerAs, Durable, Running
  <2> QED BY <1>1, <1>2, <2>1, <2>2, <2>3, EngineKeeps DEF Facts
<1>7. CASE eng[h].state # "killed" /\ eng[h].next = None /\ e = [eng[h] EXCEPT !.pc = "harvesting"]
  <2>1. e \in Engines
    BY <1>4, <1>7 DEF Engines, Statuses
  <2>2. Local(e) /\ eng[h].pc # "unborn" /\ e.pc # "unborn"
    BY <1>1, <1>4, <1>7 DEF Facts, Engines, Local, Running
  <2>3. OwnerAs(e, Mine(h)) => Owner(h) /\ Durable(e, rec[TaskOf[h]], Mine(h))
    BY <1>1, <1>4, <1>7 DEF Facts, Engines, Local, Owner, OwnerAs, Durable, Running
  <2> QED BY <1>1, <1>2, <2>1, <2>2, <2>3, EngineKeeps DEF Facts
<1>8. CASE eng[h].next # None /\ e = [eng[h] EXCEPT !.pc = "entering"]
  <2>1. e \in Engines
    BY <1>4, <1>8 DEF Engines, Statuses
  <2>2. Local(e) /\ eng[h].pc # "unborn" /\ e.pc # "unborn"
    BY <1>1, <1>4, <1>8 DEF Facts, Engines, Local, Running
  <2>3. OwnerAs(e, Mine(h)) => Owner(h) /\ Durable(e, rec[TaskOf[h]], Mine(h))
    BY <1>1, <1>4, <1>8 DEF Facts, Engines, Local, Owner, OwnerAs, Durable, Running
  <2> QED BY <1>1, <1>2, <2>1, <2>2, <2>3, EngineKeeps DEF Facts
<1>9. CASE eng[h].state = "suspended" /\ ~eng[h].detachWanted /\ e = [eng[h] EXCEPT !.pc = "parked"]
  <2>1. e \in Engines
    BY <1>4, <1>9 DEF Engines, Statuses
  <2>2. Local(e) /\ eng[h].pc # "unborn" /\ e.pc # "unborn"
    BY <1>1, <1>4, <1>9 DEF Facts, Engines, Local, Running
  <2>3. OwnerAs(e, Mine(h)) => Owner(h) /\ Durable(e, rec[TaskOf[h]], Mine(h))
    BY <1>1, <1>4, <1>9 DEF Facts, Engines, Local, Owner, OwnerAs, Durable, Running
  <2> QED BY <1>1, <1>2, <2>1, <2>2, <2>3, EngineKeeps DEF Facts
<1> QED BY <1>3, <1>5, <1>6, <1>7, <1>8, <1>9

LEMMA EnterKeeps ==
  ASSUME IInv, NEW h \in Handles, Enter(h)
  PROVE  IInv'
<1> DEFINE e == eng'[h]
<1>1. Facts(h)
  BY FactsHold
<1>2. e \in Engines /\ eng' = [eng EXCEPT ![h] = e] /\ UNCHANGED <<rec, ran, known>>
  BY <1>1 DEF Facts, Engines, Statuses, Enter
<1>3. Local(e) /\ eng[h].pc # "unborn" /\ e.pc # "unborn"
  BY <1>1 DEF Facts, Engines, Local, Running, Enter
<1>4. OwnerAs(e, Mine(h)) => Owner(h) /\ Durable(e, rec[TaskOf[h]], Mine(h))
  BY <1>1 DEF Facts, Engines, Local, Owner, OwnerAs, Durable, Running, Enter
<1> QED BY <1>1, <1>2, <1>3, <1>4, EngineKeeps DEF Facts

LEMMA HandlerReturnsKeeps ==
  ASSUME IInv, NEW h \in Handles, NEW next \in States \cup {None}, HandlerReturns(h, next)
  PROVE  IInv'
<1> DEFINE e == eng'[h]
<1>1. Facts(h)
  BY FactsHold
<1>2. e \in Engines /\ eng' = [eng EXCEPT ![h] = e] /\ UNCHANGED <<rec, ran, known>>
  BY <1>1 DEF Facts, Engines, Statuses, HandlerReturns
<1>3. Local(e) /\ eng[h].pc # "unborn" /\ e.pc # "unborn"
  BY <1>1 DEF Facts, Engines, Local, Running, HandlerReturns
<1>4. OwnerAs(e, Mine(h)) => Owner(h) /\ Durable(e, rec[TaskOf[h]], Mine(h))
  BY <1>1 DEF Facts, Engines, Local, Owner, OwnerAs, Durable, Running, HandlerReturns
<1> QED BY <1>1, <1>2, <1>3, <1>4, EngineKeeps DEF Facts

LEMMA HandlerFailsKeeps ==
  ASSUME IInv, NEW h \in Handles, HandlerFails(h)
  PROVE  IInv'
<1> DEFINE e == eng'[h]
<1>1. Facts(h)
  BY FactsHold
<1>2. e \in Engines /\ eng' = [eng EXCEPT ![h] = e] /\ UNCHANGED <<rec, ran, known>>
  BY <1>1 DEF Facts, Engines, Statuses, HandlerFails, Exits
<1>3. Local(e) /\ eng[h].pc # "unborn" /\ e.pc # "unborn"
  BY <1>1 DEF Facts, Engines, Local, Running, HandlerFails, Exits
<1>4. OwnerAs(e, Mine(h)) => Owner(h) /\ Durable(e, rec[TaskOf[h]], Mine(h))
  BY <1>1 DEF Facts, Engines, Local, Owner, OwnerAs, Durable, Running, HandlerFails, Exits
<1> QED BY <1>1, <1>2, <1>3, <1>4, EngineKeeps DEF Facts

LEMMA HarvestKeeps ==
  ASSUME IInv, NEW h \in Handles, Harvest(h)
  PROVE  IInv'
<1> DEFINE e == eng'[h]
<1>1. Facts(h)
  BY FactsHold
<1>2. eng' = [eng EXCEPT ![h] = e] /\ UNCHANGED <<rec, ran, known>>
  BY <1>1 DEF Facts, Harvest
<1>3. \/ e = [eng[h] EXCEPT !.pc = "exiting", !.err = FALSE, !.output = TRUE]
      \/ e = [eng[h] EXCEPT !.pc = "exiting", !.err = TRUE]
  <2>1. \/ eng' = [eng EXCEPT ![h] = Exits(@, FALSE), ![h].output = TRUE]
        \/ eng' = [eng EXCEPT ![h] = Exits(@, TRUE)]
    BY DEF Harvest
  <2>2. eng[h] \in Engines /\ eng \in [Handles -> Engines]
    BY <1>1 DEF Facts
  <2>3. CASE eng' = [eng EXCEPT ![h] = Exits(@, FALSE), ![h].output = TRUE]
    BY <2>2, <2>3 DEF Engines, Exits
  <2>4. CASE eng' = [eng EXCEPT ![h] = Exits(@, TRUE)]
    BY <2>2, <2>4 DEF Exits
  <2> QED BY <2>1, <2>3, <2>4
<1>4. eng[h] \in Engines /\ eng[h].pc = "harvesting"
  BY <1>1 DEF Facts, Harvest
<1> HIDE DEF e
<1>5. CASE e = [eng[h] EXCEPT !.pc = "exiting", !.err = FALSE, !.output = TRUE]
  <2>1. e \in Engines
    BY <1>4, <1>5 DEF Engines, Statuses
  <2>2. Local(e) /\ eng[h].pc # "unborn" /\ e.pc # "unborn"
    BY <1>1, <1>4, <1>5 DEF Facts, Engines, Local, Running
  <2>3. OwnerAs(e, Mine(h)) => Owner(h) /\ Durable(e, rec[TaskOf[h]], Mine(h))
    BY <1>1, <1>4, <1>5 DEF Facts, Engines, Local, Owner, OwnerAs, Durable, Running
  <2> QED BY <1>1, <1>2, <2>1, <2>2, <2>3, EngineKeeps DEF Facts
<1>6. CASE e = [eng[h] EXCEPT !.pc = "exiting", !.err = TRUE]
  <2>1. e \in Engines
    BY <1>4, <1>6 DEF Engines, Statuses
  <2>2. Local(e) /\ eng[h].pc # "unborn" /\ e.pc # "unborn"
    BY <1>1, <1>4, <1>6 DEF Facts, Engines, Local, Running
  <2>3. OwnerAs(e, Mine(h)) => Owner(h) /\ Durable(e, rec[TaskOf[h]], Mine(h))
    BY <1>1, <1>4, <1>6 DEF Facts, Engines, Local, Owner, OwnerAs, Durable, Running
  <2> QED BY <1>1, <1>2, <2>1, <2>2, <2>3, EngineKeeps DEF Facts
<1> QED BY <1>3, <1>5, <1>6

LEMMA FinishKeeps ==
  ASSUME IInv, NEW h \in Handles, Finish(h)
  PROVE  IInv'
<1> DEFINE e == eng'[h]
<1>1. Facts(h)
  BY FactsHold
<1>2. eng' = [eng EXCEPT ![h] = e] /\ UNCHANGED <<rec, ran, known>>
  BY <1>1 DEF Facts, Finish
<1>3. \/ /\ eng[h].detachDone
         /\ e = [eng[h] EXCEPT !.pc = "teardown"]
      \/ /\ ~eng[h].detachDone
         /\ e = [eng[h] EXCEPT !.pc = "stamping", !.state = "killed"]
      \/ /\ ~eng[h].detachDone /\ ~eng[h].output
         /\ e = [eng[h] EXCEPT !.pc = "stamping", !.state = "failed"]
      \/ /\ ~eng[h].detachDone
         /\ e = [eng[h] EXCEPT !.pc = "stamping", !.state = "done"]
  <2>1. eng[h].pc = "exiting" /\ eng[h].output \in BOOLEAN /\ (eng[h].output => ~eng[h].err)
    BY <1>1 DEF Facts, Engines, Local, Finish
  <2>2. e = IF eng[h].detachDone THEN [eng[h] EXCEPT !.pc = "teardown"]
            ELSE [eng[h] EXCEPT !.pc = "stamping",
                                !.state = IF eng[h].state = "killed" THEN "killed"
                                          ELSE IF eng[h].err THEN "failed" ELSE "done"]
    BY <1>1 DEF Facts, Finish
  <2> HIDE DEF e
  <2> QED BY <2>1, <2>2
<1>4. eng[h] \in Engines /\ eng[h].pc = "exiting"
  BY <1>1 DEF Facts, Finish
<1> HIDE DEF e
<1>5. CASE eng[h].detachDone /\ e = [eng[h] EXCEPT !.pc = "teardown"]
  <2>1. e \in Engines
    BY <1>4, <1>5 DEF Engines, Statuses
  <2>2. Local(e) /\ eng[h].pc # "unborn" /\ e.pc # "unborn"
    BY <1>1, <1>4, <1>5 DEF Facts, Engines, Local, Running
  <2>3. OwnerAs(e, Mine(h)) => Owner(h) /\ Durable(e, rec[TaskOf[h]], Mine(h))
    BY <1>1, <1>4, <1>5 DEF Facts, Engines, Local, Owner, OwnerAs, Durable, Running
  <2> QED BY <1>1, <1>2, <2>1, <2>2, <2>3, EngineKeeps DEF Facts
<1>6. CASE ~eng[h].detachDone /\ e = [eng[h] EXCEPT !.pc = "stamping", !.state = "killed"]
  <2>1. e \in Engines
    BY <1>4, <1>6 DEF Engines, Statuses
  <2>2. Local(e) /\ eng[h].pc # "unborn" /\ e.pc # "unborn"
    BY <1>1, <1>4, <1>6 DEF Facts, Engines, Local, Running
  <2>3. OwnerAs(e, Mine(h)) => Owner(h) /\ Durable(e, rec[TaskOf[h]], Mine(h))
    BY <1>1, <1>4, <1>6 DEF Facts, Engines, Local, Owner, OwnerAs, Durable, Running
  <2> QED BY <1>1, <1>2, <2>1, <2>2, <2>3, EngineKeeps DEF Facts
<1>7. CASE ~eng[h].detachDone /\ ~eng[h].output /\ e = [eng[h] EXCEPT !.pc = "stamping", !.state = "failed"]
  <2>1. e \in Engines
    BY <1>4, <1>7 DEF Engines, Statuses
  <2>2. Local(e) /\ eng[h].pc # "unborn" /\ e.pc # "unborn"
    BY <1>1, <1>4, <1>7 DEF Facts, Engines, Local, Running
  <2>3. OwnerAs(e, Mine(h)) => Owner(h) /\ Durable(e, rec[TaskOf[h]], Mine(h))
    BY <1>1, <1>4, <1>7 DEF Facts, Engines, Local, Owner, OwnerAs, Durable, Running
  <2> QED BY <1>1, <1>2, <2>1, <2>2, <2>3, EngineKeeps DEF Facts
<1>8. CASE ~eng[h].detachDone /\ e = [eng[h] EXCEPT !.pc = "stamping", !.state = "done"]
  <2>1. e \in Engines
    BY <1>4, <1>8 DEF Engines, Statuses
  <2>2. Local(e) /\ eng[h].pc # "unborn" /\ e.pc # "unborn"
    BY <1>1, <1>4, <1>8 DEF Facts, Engines, Local, Running
  <2>3. OwnerAs(e, Mine(h)) => Owner(h) /\ Durable(e, rec[TaskOf[h]], Mine(h))
    BY <1>1, <1>4, <1>8 DEF Facts, Engines, Local, Owner, OwnerAs, Durable, Running
  <2> QED BY <1>1, <1>2, <2>1, <2>2, <2>3, EngineKeeps DEF Facts
<1> QED BY <1>3, <1>5, <1>6, <1>7, <1>8

LEMMA TeardownKeeps ==
  ASSUME IInv, NEW h \in Handles, Teardown(h)
  PROVE  IInv'
<1> DEFINE e == eng'[h]
<1>1. Facts(h)
  BY FactsHold
<1>2. e \in Engines /\ eng' = [eng EXCEPT ![h] = e] /\ UNCHANGED <<rec, ran, known>>
  BY <1>1 DEF Facts, Engines, Statuses, Teardown
<1>3. Local(e) /\ eng[h].pc # "unborn" /\ e.pc # "unborn"
  BY <1>1 DEF Facts, Engines, Local, Running, Teardown
<1>4. OwnerAs(e, Mine(h)) => Owner(h) /\ Durable(e, rec[TaskOf[h]], Mine(h))
  BY <1>1 DEF Facts, Engines, Local, Owner, OwnerAs, Durable, Running, Teardown
<1> QED BY <1>1, <1>2, <1>3, <1>4, EngineKeeps DEF Facts

LEMMA EpilogueKeeps ==
  ASSUME IInv, NEW h \in Handles, Epilogue(h)
  PROVE  IInv'
<1> DEFINE e == eng'[h]
<1>1. Facts(h)
  BY FactsHold
<1>2. e \in Engines /\ eng' = [eng EXCEPT ![h] = e] /\ UNCHANGED <<rec, ran, known>>
  BY <1>1 DEF Facts, Engines, Statuses, Epilogue
<1>3. Local(e) /\ eng[h].pc # "unborn" /\ e.pc # "unborn"
  BY <1>1 DEF Facts, Engines, Local, Running, Epilogue
<1>4. OwnerAs(e, Mine(h)) => Owner(h) /\ Durable(e, rec[TaskOf[h]], Mine(h))
  BY <1>1 DEF Facts, Engines, Local, Owner, OwnerAs, Durable, Running, Epilogue
<1> QED BY <1>1, <1>2, <1>3, <1>4, EngineKeeps DEF Facts

LEMMA MidCheckKeeps ==
  ASSUME IInv, NEW h \in Handles, MidCheck(h)
  PROVE  IInv'
<1>1. Facts(h)
  BY FactsHold
<1>2. PICK pc \in {"midwrite", "handling"} : eng' = [eng EXCEPT ![h].pc = pc]
  BY DEF MidCheck
<1> DEFINE e == [eng[h] EXCEPT !.pc = pc]
<1>3. /\ eng' = [eng EXCEPT ![h] = e] /\ UNCHANGED <<rec, ran, known>>
      /\ eng[h].pc = "midcheck"
  BY <1>1, <1>2 DEF Facts, MidCheck
<1>4. e \in Engines
  BY <1>1 DEF Facts, Engines, InLoop
<1>5. Local(e) /\ e.pc # "unborn"
  BY <1>1, <1>3 DEF Facts, Engines, Local, Running
<1>6. OwnerAs(e, Mine(h)) => Owner(h) /\ Durable(e, rec[TaskOf[h]], Mine(h))
  BY <1>1, <1>3 DEF Facts, Engines, Local, Owner, OwnerAs, Durable, Running
<1> HIDE DEF e
<1> QED BY <1>1, <1>3, <1>4, <1>5, <1>6, EngineKeeps DEF Facts

\* A run that was parked wakes; any other goes on.
LEMMA SignalTyped ==
  ASSUME NEW e \in Engines
  PROVE  Signal(e.pc) \in Unstarted \cup InLoop \cup Leaving \cup Spent
BY DEF Engines, Signal, InLoop

LEMMA SuspendKeeps ==
  ASSUME IInv, NEW h \in Handles, Suspend(h)
  PROVE  IInv'
<1> DEFINE e == eng'[h]
<1>1. Facts(h)
  BY FactsHold
<1>2. e = [eng[h] EXCEPT !.state = "suspended"] /\ eng' = [eng EXCEPT ![h] = e] /\ UNCHANGED <<rec, ran, known>>
  BY <1>1 DEF Facts, Suspend
<1>3. e \in Engines
  <2> HIDE DEF e
  <2> QED BY <1>1, <1>2 DEF Facts, Engines, Statuses
<1>4. Local(e) /\ eng[h].pc # "unborn" /\ e.pc # "unborn"
  BY <1>1 DEF Facts, Engines, Local, Running, Suspend, InProcess, Inert, Signal
<1>5. OwnerAs(e, Mine(h)) => Owner(h) /\ Durable(e, rec[TaskOf[h]], Mine(h))
  BY <1>1 DEF Facts, Engines, Local, Owner, OwnerAs, Durable, Running, Suspend, InProcess, Inert, Signal
<1> QED BY <1>1, <1>2, <1>3, <1>4, <1>5, EngineKeeps DEF Facts

LEMMA ResumeKeeps ==
  ASSUME IInv, NEW h \in Handles, Resume(h)
  PROVE  IInv'
<1> DEFINE e == eng'[h]
<1>1. Facts(h)
  BY FactsHold
<1>2. e = [eng[h] EXCEPT !.state = "running", !.pc = Signal(eng[h].pc)] /\ eng' = [eng EXCEPT ![h] = e] /\ UNCHANGED <<rec, ran, known>>
  BY <1>1 DEF Facts, Resume
<1>3. e \in Engines
  <2>1. PICK pc \in Unstarted \cup InLoop \cup Leaving \cup Spent : pc = Signal(eng[h].pc)
    BY <1>1, SignalTyped DEF Facts
  <2> HIDE DEF e
  <2> QED BY <1>1, <1>2, <2>1 DEF Facts, Engines, Statuses
<1>4. Local(e) /\ eng[h].pc # "unborn" /\ e.pc # "unborn"
  BY <1>1 DEF Facts, Engines, Local, Running, Resume, InProcess, Inert, Signal
<1>5. OwnerAs(e, Mine(h)) => Owner(h) /\ Durable(e, rec[TaskOf[h]], Mine(h))
  BY <1>1 DEF Facts, Engines, Local, Owner, OwnerAs, Durable, Running, Resume, InProcess, Inert, Signal
<1> QED BY <1>1, <1>2, <1>3, <1>4, <1>5, EngineKeeps DEF Facts

LEMMA DetachKeeps ==
  ASSUME IInv, NEW h \in Handles, Detach(h)
  PROVE  IInv'
<1> DEFINE e == eng'[h]
<1>1. Facts(h)
  BY FactsHold
<1>2. e = [eng[h] EXCEPT !.detachWanted = TRUE, !.pc = Signal(eng[h].pc)] /\ eng' = [eng EXCEPT ![h] = e] /\ UNCHANGED <<rec, ran, known>>
  BY <1>1 DEF Facts, Detach
<1>3. e \in Engines
  <2>1. PICK pc \in Unstarted \cup InLoop \cup Leaving \cup Spent : pc = Signal(eng[h].pc)
    BY <1>1, SignalTyped DEF Facts
  <2> HIDE DEF e
  <2> QED BY <1>1, <1>2, <2>1 DEF Facts, Engines, Statuses
<1>4. Local(e) /\ eng[h].pc # "unborn" /\ e.pc # "unborn"
  BY <1>1 DEF Facts, Engines, Local, Running, Detach, InProcess, Inert, Signal
<1>5. OwnerAs(e, Mine(h)) => Owner(h) /\ Durable(e, rec[TaskOf[h]], Mine(h))
  BY <1>1 DEF Facts, Engines, Local, Owner, OwnerAs, Durable, Running, Detach, InProcess, Inert, Signal
<1> QED BY <1>1, <1>2, <1>3, <1>4, <1>5, EngineKeeps DEF Facts

LEMMA KillKeeps ==
  ASSUME IInv, NEW h \in Handles, Kill(h)
  PROVE  IInv'
<1> DEFINE e == eng'[h]
<1>1. Facts(h)
  BY FactsHold
<1>2. e = [eng[h] EXCEPT !.state = "killed", !.pc = Signal(eng[h].pc)] /\ eng' = [eng EXCEPT ![h] = e] /\ UNCHANGED <<rec, ran, known>>
  BY <1>1 DEF Facts, Kill
<1>3. e \in Engines
  <2>1. PICK pc \in Unstarted \cup InLoop \cup Leaving \cup Spent : pc = Signal(eng[h].pc)
    BY <1>1, SignalTyped DEF Facts
  <2> HIDE DEF e
  <2> QED BY <1>1, <1>2, <2>1 DEF Facts, Engines, Statuses
<1>4. Local(e) /\ eng[h].pc # "unborn" /\ e.pc # "unborn"
  BY <1>1 DEF Facts, Engines, Local, Running, Kill, InProcess, Signal
<1>5. OwnerAs(e, Mine(h)) => Owner(h) /\ Durable(e, rec[TaskOf[h]], Mine(h))
  BY <1>1 DEF Facts, Engines, Local, Owner, OwnerAs, Durable, Running, Kill, InProcess, Signal
<1> QED BY <1>1, <1>2, <1>3, <1>4, <1>5, EngineKeeps DEF Facts

LEMMA SealKeeps ==
  ASSUME IInv, NEW h \in Handles, Seal(h)
  PROVE  IInv'
<1> DEFINE e == eng'[h]
<1>1. Facts(h)
  BY FactsHold
<1>2. eng' = [eng EXCEPT ![h] = e] /\ UNCHANGED <<rec, ran, known>>
  BY <1>1 DEF Facts, Seal
<1>3. \/ /\ ~Running(eng[h])
         /\ e = [eng[h] EXCEPT !.sealed = TRUE]
  BY <1>1 DEF Facts, Engines, Local, Seal, isRunning, Running
<1>4. eng[h] \in Engines /\ Mine(h)
  BY <1>1 DEF Facts, Seal, Mine
<1> HIDE DEF e
<1>5. CASE ~Running(eng[h]) /\ e = [eng[h] EXCEPT !.sealed = TRUE]
  <2>1. e \in Engines
    BY <1>4, <1>5 DEF Engines, Statuses
  <2>2. Local(e) /\ eng[h].pc # "unborn" /\ e.pc # "unborn"
    BY <1>1, <1>4, <1>5 DEF Facts, Engines, Local, Running
  <2>3. OwnerAs(e, Mine(h)) => Owner(h) /\ Durable(e, rec[TaskOf[h]], Mine(h))
    BY <1>1, <1>4, <1>5 DEF Facts, Engines, Local, Owner, OwnerAs, Durable, Running
  <2> QED BY <1>1, <1>2, <2>1, <2>2, <2>3, EngineKeeps DEF Facts
<1> QED BY <1>3, <1>5

LEMMA UnsealKeeps ==
  ASSUME IInv, NEW h \in Handles, Unseal(h)
  PROVE  IInv'
<1> DEFINE e == eng'[h]
<1>1. Facts(h)
  BY FactsHold
<1>2. eng' = [eng EXCEPT ![h] = e] /\ UNCHANGED <<rec, ran, known>>
  BY <1>1 DEF Facts, Unseal
<1>3. e = [eng[h] EXCEPT !.sealed = FALSE]
  BY <1>1 DEF Facts, Engines, Unseal
<1>4. eng[h] \in Engines /\ Mine(h)
  BY <1>1 DEF Facts, Unseal, Mine
<1> HIDE DEF e
<1>5. e \in Engines
  BY <1>3, <1>4 DEF Engines, Statuses
<1>6. Local(e) /\ eng[h].pc # "unborn" /\ e.pc # "unborn"
  BY <1>1, <1>3, <1>4 DEF Facts, Engines, Local, Running
<1>7. OwnerAs(e, Mine(h)) => Owner(h) /\ Durable(e, rec[TaskOf[h]], Mine(h))
  BY <1>1, <1>3, <1>4 DEF Facts, Engines, Local, Owner, OwnerAs, Durable, Running
<1> QED BY <1>1, <1>2, <1>5, <1>6, <1>7, EngineKeeps DEF Facts

LEMMA DoKeeps ==
  ASSUME IInv, NEW h \in Handles, NEW k \in Keys, Do(h, k)
  PROVE  IInv'
<1> DEFINE e == eng'[h]
<1>1. Facts(h)
  BY FactsHold
<1>2. eng' = [eng EXCEPT ![h] = e] /\ UNCHANGED <<rec, known>>
  BY <1>1 DEF Facts, Do
<1>3. e = [eng[h] EXCEPT !.pc = "midcheck", !.effects = @ \cup {k}]
  BY <1>1 DEF Facts, Do
<1>4. eng[h] \in Engines /\ eng[h].pc = "handling"
  BY <1>1 DEF Facts, Do
<1>5. ran' \in [Tasks -> [Keys -> 0 .. MaxEffects]]
  <2>1. ran[TaskOf[h]][k] + 1 \in 0 .. MaxEffects
    BY <1>1, BoundAssumption DEF Facts, Do
  <2> QED BY <1>1, <2>1 DEF Facts, Do
<1> HIDE DEF e
<1>6. e \in Engines
  BY <1>3, <1>4 DEF Engines, Statuses
<1>7. Local(e) /\ eng[h].pc # "unborn" /\ e.pc # "unborn"
  BY <1>1, <1>3, <1>4 DEF Facts, Engines, Local, Running
<1>8. OwnerAs(e, Mine(h)) => Owner(h) /\ Durable(e, rec[TaskOf[h]], Mine(h))
  BY <1>1, <1>3, <1>4 DEF Facts, Engines, Local, Owner, OwnerAs, Durable, Running
<1> QED BY <1>2, <1>5, <1>6, <1>7, <1>8, EngineKeeps

LEMMA SaveSuspendedKeeps ==
  ASSUME IInv, NEW h \in Handles, SaveSuspended(h)
  PROVE  IInv'
<1> DEFINE e == eng'[h]
           r == rec'[TaskOf[h]]
           q == rec[TaskOf[h]]
<1>1. Facts(h)
  BY FactsHold
<1>2. eng' = [eng EXCEPT ![h] = e] /\ UNCHANGED <<ran, known>>
  BY <1>1 DEF Facts, SaveSuspended
<1>3. eng[h] \in Engines /\ eng[h].pc = "suspending" /\ Owner(h)
  BY <1>1 DEF Facts, SaveSuspended, Owner, OwnerAs
<1>4. \/ /\ q # None /\ rec' = [rec EXCEPT ![TaskOf[h]] = r]
         /\ r = [q EXCEPT !.status = "suspended", !.state = eng[h].next, !.log = eng[h].effects]
         /\ e = [eng[h] EXCEPT !.pc = "parking"]
      \/ UNCHANGED rec /\ e = [eng[h] EXCEPT !.pc = "exiting", !.err = TRUE]
  BY <1>1 DEF Facts, Engines, SaveSuspended, SaveCheckpoint, Snapshot, CheckpointFails, WriteFails, Exits
<1>5. q \in Records \cup {None}
  BY <1>1 DEF Facts
<1> HIDE DEF e, r
<1>6. CASE /\ q # None /\ rec' = [rec EXCEPT ![TaskOf[h]] = r]
           /\ r = [q EXCEPT !.status = "suspended", !.state = eng[h].next, !.log = eng[h].effects]
           /\ e = [eng[h] EXCEPT !.pc = "parking"]
  <2>1. e \in Engines /\ r \in Records
    <3>1. e \in Engines
      BY <1>1, <1>6 DEF Facts, Engines
    <3>2. eng[h].next \in States \cup {None} /\ eng[h].effects \in SUBSET Keys
      BY <1>1 DEF Facts, Engines
    <3>3. r \in Records
      BY <1>5, <1>6, <3>2 DEF Records, Statuses
    <3> QED BY <3>1, <3>3
  <2>2. Local(e) /\ eng[h].pc # "unborn" /\ e.pc # "unborn"
    BY <1>1, <1>3, <1>6 DEF Facts, Engines, Local, Running
  <2>3. Durable(e, r, Mine(h))
    <3>1. r.status = "suspended" /\ r.state = eng[h].next /\ r.log = eng[h].effects
      BY <1>5, <1>6 DEF Records
    <3>2. /\ e.next = eng[h].next /\ e.effects = eng[h].effects
          /\ e.state = eng[h].state /\ e.detachDone = eng[h].detachDone
      BY <1>3, <1>6 DEF Engines
    <3>3. r # None /\ (Running(e) => Mine(h))
      BY <1>1, <1>3, <2>1, <3>2, NoneRecordAssumption DEF Facts, Durable, Running
    <3>4. Local(eng[h])
      BY <1>1 DEF Facts
    <3> QED BY <1>3, <1>6, <3>1, <3>2, <3>3, <3>4 DEF Engines, Local, Durable
  <2> QED BY <1>1, <1>2, <1>3, <1>6, <2>1, <2>2, <2>3, HandleKeeps DEF Facts
<1>7. CASE UNCHANGED rec /\ e = [eng[h] EXCEPT !.pc = "exiting", !.err = TRUE]
  <2>1. e \in Engines
    BY <1>3, <1>7 DEF Engines, Statuses
  <2>2. Local(e) /\ eng[h].pc # "unborn" /\ e.pc # "unborn"
    BY <1>1, <1>3, <1>7 DEF Facts, Engines, Local, Running
  <2>3. Durable(e, q, Mine(h))
    BY <1>1, <1>3, <1>7 DEF Facts, Engines, Local, Durable, Running
  <2> QED BY <1>1, <1>2, <1>3, <1>7, <2>1, <2>2, <2>3, EngineKeeps DEF Facts
<1> QED BY <1>4, <1>6, <1>7

LEMMA SaveRunningKeeps ==
  ASSUME IInv, NEW h \in Handles, SaveRunning(h)
  PROVE  IInv'
<1> DEFINE e == eng'[h]
           r == rec'[TaskOf[h]]
           q == rec[TaskOf[h]]
<1>1. Facts(h)
  BY FactsHold
<1>2. eng' = [eng EXCEPT ![h] = e] /\ UNCHANGED <<ran, known>>
  BY <1>1 DEF Facts, SaveRunning
<1>3. eng[h] \in Engines /\ eng[h].pc = "entering" /\ Owner(h)
  BY <1>1 DEF Facts, SaveRunning, Owner, OwnerAs
<1>4. \/ /\ q # None /\ rec' = [rec EXCEPT ![TaskOf[h]] = r]
         /\ r = [q EXCEPT !.status = "running", !.state = eng[h].next, !.log = eng[h].effects]
         /\ e = [eng[h] EXCEPT !.pc = "entered"]
      \/ UNCHANGED rec /\ e = [eng[h] EXCEPT !.pc = "exiting", !.err = TRUE]
  BY <1>1 DEF Facts, Engines, SaveRunning, SaveCheckpoint, Snapshot, CheckpointFails, WriteFails, Exits
<1>5. q \in Records \cup {None}
  BY <1>1 DEF Facts
<1> HIDE DEF e, r
<1>6. CASE /\ q # None /\ rec' = [rec EXCEPT ![TaskOf[h]] = r]
           /\ r = [q EXCEPT !.status = "running", !.state = eng[h].next, !.log = eng[h].effects]
           /\ e = [eng[h] EXCEPT !.pc = "entered"]
  <2>1. e \in Engines /\ r \in Records
    <3>1. e \in Engines
      BY <1>1, <1>6 DEF Facts, Engines
    <3>2. eng[h].next \in States \cup {None} /\ eng[h].effects \in SUBSET Keys
      BY <1>1 DEF Facts, Engines
    <3>3. r \in Records
      BY <1>5, <1>6, <3>2 DEF Records, Statuses
    <3> QED BY <3>1, <3>3
  <2>2. Local(e) /\ eng[h].pc # "unborn" /\ e.pc # "unborn"
    BY <1>1, <1>3, <1>6 DEF Facts, Engines, Local, Running
  <2>3. Durable(e, r, Mine(h))
    <3>1. r.status = "running" /\ r.state = eng[h].next /\ r.log = eng[h].effects
      BY <1>5, <1>6 DEF Records
    <3>2. /\ e.next = eng[h].next /\ e.effects = eng[h].effects
          /\ e.state = eng[h].state /\ e.detachDone = eng[h].detachDone
      BY <1>3, <1>6 DEF Engines
    <3>3. r # None /\ (Running(e) => Mine(h))
      BY <1>1, <1>3, <2>1, <3>2, NoneRecordAssumption DEF Facts, Durable, Running
    <3>4. Local(eng[h])
      BY <1>1 DEF Facts
    <3> QED BY <1>3, <1>6, <3>1, <3>2, <3>3, <3>4 DEF Engines, Local, Durable
  <2> QED BY <1>1, <1>2, <1>3, <1>6, <2>1, <2>2, <2>3, HandleKeeps DEF Facts
<1>7. CASE UNCHANGED rec /\ e = [eng[h] EXCEPT !.pc = "exiting", !.err = TRUE]
  <2>1. e \in Engines
    BY <1>3, <1>7 DEF Engines, Statuses
  <2>2. Local(e) /\ eng[h].pc # "unborn" /\ e.pc # "unborn"
    BY <1>1, <1>3, <1>7 DEF Facts, Engines, Local, Running
  <2>3. Durable(e, q, Mine(h))
    BY <1>1, <1>3, <1>7 DEF Facts, Engines, Local, Durable, Running
  <2> QED BY <1>1, <1>2, <1>3, <1>7, <2>1, <2>2, <2>3, EngineKeeps DEF Facts
<1> QED BY <1>4, <1>6, <1>7

LEMMA MidWriteKeeps ==
  ASSUME IInv, NEW h \in Handles, MidWrite(h)
  PROVE  IInv'
<1> DEFINE e == eng'[h]
           r == rec'[TaskOf[h]]
           q == rec[TaskOf[h]]
<1>1. Facts(h)
  BY FactsHold
<1>2. eng' = [eng EXCEPT ![h] = e] /\ UNCHANGED <<ran, known>>
  BY <1>1 DEF Facts, MidWrite
<1>3. eng[h] \in Engines /\ eng[h].pc = "midwrite" /\ Owner(h)
  BY <1>1 DEF Facts, MidWrite, Owner, OwnerAs
<1>4. \/ /\ q # None /\ rec' = [rec EXCEPT ![TaskOf[h]] = r]
         /\ r = [q EXCEPT !.status = "running", !.state = eng[h].current, !.log = eng[h].effects]
         /\ e = [eng[h] EXCEPT !.pc = "handling"]
      \/ UNCHANGED rec /\ e = [eng[h] EXCEPT !.pc = "handling"]
  BY <1>1 DEF Facts, Engines, MidWrite, SaveCheckpoint, Snapshot, CheckpointFails, WriteFails
<1>5. q \in Records \cup {None}
  BY <1>1 DEF Facts
<1> HIDE DEF e, r
<1>6. CASE /\ q # None /\ rec' = [rec EXCEPT ![TaskOf[h]] = r]
           /\ r = [q EXCEPT !.status = "running", !.state = eng[h].current, !.log = eng[h].effects]
           /\ e = [eng[h] EXCEPT !.pc = "handling"]
  <2>1. e \in Engines /\ r \in Records
    <3>1. e \in Engines
      BY <1>1, <1>6 DEF Facts, Engines
    <3>2. eng[h].current \in States \cup {None} /\ eng[h].effects \in SUBSET Keys
      BY <1>1 DEF Facts, Engines
    <3>3. r \in Records
      BY <1>5, <1>6, <3>2 DEF Records, Statuses
    <3> QED BY <3>1, <3>3
  <2>2. Local(e) /\ eng[h].pc # "unborn" /\ e.pc # "unborn"
    BY <1>1, <1>3, <1>6 DEF Facts, Engines, Local, Running
  <2>3. Durable(e, r, Mine(h))
    <3>1. r.status = "running" /\ r.state = eng[h].current /\ r.log = eng[h].effects
      BY <1>5, <1>6 DEF Records
    <3>2. /\ e.next = eng[h].next /\ e.effects = eng[h].effects
          /\ e.state = eng[h].state /\ e.detachDone = eng[h].detachDone
      BY <1>3, <1>6 DEF Engines
    <3>3. r # None /\ (Running(e) => Mine(h))
      BY <1>1, <1>3, <2>1, <3>2, NoneRecordAssumption DEF Facts, Durable, Running
    <3>4. Local(eng[h])
      BY <1>1 DEF Facts
    <3> QED BY <1>3, <1>6, <3>1, <3>2, <3>3, <3>4 DEF Engines, Local, Durable
  <2> QED BY <1>1, <1>2, <1>3, <1>6, <2>1, <2>2, <2>3, HandleKeeps DEF Facts
<1>7. CASE UNCHANGED rec /\ e = [eng[h] EXCEPT !.pc = "handling"]
  <2>1. e \in Engines
    BY <1>3, <1>7 DEF Engines, Statuses
  <2>2. Local(e) /\ eng[h].pc # "unborn" /\ e.pc # "unborn"
    BY <1>1, <1>3, <1>7 DEF Facts, Engines, Local, Running
  <2>3. Durable(e, q, Mine(h))
    BY <1>1, <1>3, <1>7 DEF Facts, Engines, Local, Durable, Running
  <2> QED BY <1>1, <1>2, <1>3, <1>7, <2>1, <2>2, <2>3, EngineKeeps DEF Facts
<1> QED BY <1>4, <1>6, <1>7

LEMMA StampKeeps ==
  ASSUME IInv, NEW h \in Handles, Stamp(h)
  PROVE  IInv'
<1> DEFINE e == eng'[h]
           r == rec'[TaskOf[h]]
           q == rec[TaskOf[h]]
<1>1. Facts(h)
  BY FactsHold
<1>2. eng' = [eng EXCEPT ![h] = e] /\ UNCHANGED <<ran, known>>
  BY <1>1 DEF Facts, Stamp
<1>3. eng[h] \in Engines /\ eng[h].pc = "stamping" /\ Owner(h)
  BY <1>1 DEF Facts, Stamp, Owner, OwnerAs
<1>4. \/ /\ q # None /\ rec' = [rec EXCEPT ![TaskOf[h]] = r]
         /\ r = [q EXCEPT !.status = eng[h].state, !.output = eng[h].output]
         /\ e = [eng[h] EXCEPT !.pc = "teardown"]
      \/ UNCHANGED rec /\ e = [eng[h] EXCEPT !.pc = "teardown", !.stampFailed = TRUE]
  BY <1>1 DEF Facts, Engines, Stamp, MarkTerminal, WriteFails
<1>5. q \in Records \cup {None}
  BY <1>1 DEF Facts
<1> HIDE DEF e, r
<1>6. CASE /\ q # None /\ rec' = [rec EXCEPT ![TaskOf[h]] = r]
           /\ r = [q EXCEPT !.status = eng[h].state, !.output = eng[h].output]
           /\ e = [eng[h] EXCEPT !.pc = "teardown"]
  <2>1. e \in Engines /\ r \in Records
    <3>1. e \in Engines
      BY <1>1, <1>6 DEF Facts, Engines
    <3>2. eng[h].state \in Statuses /\ eng[h].output \in BOOLEAN
      BY <1>1 DEF Facts, Engines
    <3>3. r \in Records
      BY <1>5, <1>6, <3>2 DEF Records, Statuses
    <3> QED BY <3>1, <3>3
  <2>2. Local(e) /\ eng[h].pc # "unborn" /\ e.pc # "unborn"
    BY <1>1, <1>3, <1>6 DEF Facts, Engines, Local, Running
  <2>3. Durable(e, r, Mine(h))
    BY <1>1, <1>3, <1>5, <1>6, <2>1, NoneRecordAssumption
    DEF Facts, Engines, Records, Local, Durable, Running
  <2> QED BY <1>1, <1>2, <1>3, <1>6, <2>1, <2>2, <2>3, HandleKeeps DEF Facts
<1>7. CASE UNCHANGED rec /\ e = [eng[h] EXCEPT !.pc = "teardown", !.stampFailed = TRUE]
  <2>1. e \in Engines
    BY <1>3, <1>7 DEF Engines, Statuses
  <2>2. Local(e) /\ eng[h].pc # "unborn" /\ e.pc # "unborn"
    BY <1>1, <1>3, <1>7 DEF Facts, Engines, Local, Running
  <2>3. Durable(e, q, Mine(h))
    BY <1>1, <1>3, <1>7 DEF Facts, Engines, Local, Durable, Running
  <2> QED BY <1>1, <1>2, <1>3, <1>7, <2>1, <2>2, <2>3, EngineKeeps DEF Facts
<1> QED BY <1>4, <1>6, <1>7

-----------------------------------------------------------------------------
(* Steps that change the registry.                                         *)

\* A handle is born the one owner of its task.
LEMMA BirthKeeps ==
  ASSUME IInv, NEW h \in Handles, NEW e \in Engines, NEW r \in Records \cup {None},
         eng' = [eng EXCEPT ![h] = e], rec' = [rec EXCEPT ![TaskOf[h]] = r],
         known' = [known EXCEPT ![TaskOf[h]] = h], UNCHANGED ran,
         e.pc # "unborn", Local(e), Durable(e, r, TRUE),
         \A g \in Handles \ {h} : TaskOf[g] = TaskOf[h] => ~Owner(g)
  PROVE  IInv'
<1>1. /\ TablesOK /\ OneOwner /\ RecordsOwned
      /\ \A g \in Handles : TaskOf[g] \in Tasks /\ Local(eng[g])
      /\ \A g \in Handles : Owner(g) => Durable(eng[g], rec[TaskOf[g]], Mine(g))
  BY TaskOfAssumption DEF IInv
<1>2. /\ \A g \in Handles : eng'[g] = IF g = h THEN e ELSE eng[g]
      /\ \A t \in Tasks : rec'[t] = IF t = TaskOf[h] THEN r ELSE rec[t]
      /\ \A t \in Tasks : known'[t] = IF t = TaskOf[h] THEN h ELSE known[t]
  BY <1>1 DEF TablesOK
<1>3. \A g \in Handles : Local(eng'[g])
  BY <1>1, <1>2
<1>4. TablesOK'
  <2>1. /\ eng' \in [Handles -> Engines] /\ rec' \in [Tasks -> Records \cup {None}]
        /\ known' \in [Tasks -> Handles \cup {None}]
    BY <1>1 DEF TablesOK
  <2>2. \A g \in Handles : eng'[g].pc \in InHandler =>
          eng'[g].current # None /\ eng'[g].current = eng'[g].next
    BY <1>3 DEF Local
  <2> QED BY <1>1, <2>1, <2>2 DEF TablesOK
<1>5. ASSUME NEW g \in Handles, g # h, Owner(g)'
      PROVE  Owner(g) /\ TaskOf[g] # TaskOf[h] /\ Mine(g)' = Mine(g)
  <2>1. TaskOf[g] # TaskOf[h] => Mine(g)' = Mine(g)
    BY <1>1, <1>2 DEF Mine
  <2>2. TaskOf[g] = TaskOf[h] => ~Mine(g)'
    BY <1>1, <1>2, <1>5 DEF Mine
  <2> QED BY <1>2, <1>5, <2>1, <2>2 DEF Owner, OwnerAs
<1>6. ASSUME NEW g \in Handles, Owner(g)' PROVE Durable(eng'[g], rec'[TaskOf[g]], Mine(g)')
  <2>1. CASE g = h
    <3>1. Mine(h)' = TRUE
      BY <1>1, <1>2 DEF Mine
    <3> QED BY <1>1, <1>2, <2>1, <3>1
  <2>2. CASE g # h
    BY <1>1, <1>2, <1>5, <1>6, <2>2
  <2> QED BY <2>1, <2>2
<1>7. OneOwner'
  BY <1>1, <1>5 DEF OneOwner
<1>8. RecordsOwned'
  <2>1. \A g \in Handles : eng[g].pc # "unborn" => eng'[g].pc # "unborn"
    BY <1>2
  <2>2. eng'[h].pc # "unborn"
    BY <1>2
  <2>3. \A t \in Tasks : known[t] # None => known[t] \in Handles
    BY <1>1 DEF TablesOK
  <2> QED BY <1>1, <1>2, <2>1, <2>2, <2>3 DEF RecordsOwned
<1>9. (\A g \in Handles : Local(eng[g]))'
  BY <1>3
<1>10. (\A g \in Handles : Owner(g) => Durable(eng[g], rec[TaskOf[g]], Mine(g)))'
  BY <1>6
<1> QED BY <1>4, <1>7, <1>8, <1>9, <1>10 DEF IInv

LEMMA CreateTaskKeeps ==
  ASSUME IInv, NEW h \in Handles, CreateTask(h)
  PROVE  IInv' /\ rec[TaskOf[h]] = None
<1> DEFINE e == eng'[h]
           r == rec'[TaskOf[h]]
<1>1. Facts(h) /\ NewEngine \in Engines
  BY FactsHold, NewEngineTyped
<1>2. eng[h] = NewEngine
  BY <1>1 DEF Facts, CreateTask, Local
<1>3. /\ eng' = [eng EXCEPT ![h] = e] /\ rec' = [rec EXCEPT ![TaskOf[h]] = r]
      /\ known' = [known EXCEPT ![TaskOf[h]] = h] /\ UNCHANGED ran
      /\ e = [NewEngine EXCEPT !.pc = "new", !.next = Initial]
      /\ r = [status |-> "notStarted", state |-> None, log |-> {}, output |-> FALSE]
  BY <1>1, <1>2 DEF Facts, CreateTask
<1> HIDE DEF e, r
<1>4. e \in Engines /\ r \in Records
  BY <1>1, <1>3, InitialAssumption DEF Engines, Records, Statuses
<1>5. e.pc = "new" /\ Local(e)
  BY <1>1, <1>3 DEF NewEngine, Local, Running
<1>6. Durable(e, r, TRUE)
  BY <1>3, <1>4, <1>5, NoneRecordAssumption DEF NewEngine, Durable, Running
<1>7. \A g \in Handles : TaskOf[g] = TaskOf[h] => ~Owner(g) /\ eng[g].pc = "unborn"
  BY DEF CreateTask, Owner, OwnerAs
<1>8. rec[TaskOf[h]] = None
  BY <1>1, <1>7 DEF Facts, IInv, RecordsOwned
<1>9. /\ eng' = [eng EXCEPT ![h] = e] /\ rec' = [rec EXCEPT ![TaskOf[h]] = r]
      /\ known' = [known EXCEPT ![TaskOf[h]] = h] /\ UNCHANGED ran
      /\ e \in Engines /\ r \in Records \cup {None} /\ e.pc # "unborn"
  BY <1>3, <1>4, <1>5
<1>10. \A g \in Handles \ {h} : TaskOf[g] = TaskOf[h] => ~Owner(g)
  BY <1>7
<1>11. IInv'
  BY <1>5, <1>6, <1>9, <1>10, BirthKeeps
<1> QED BY <1>8, <1>11

LEMMA RecoverTaskKeeps ==
  ASSUME IInv, NEW h \in Handles, OneRun, RecoverTask(h)
  PROVE  IInv'
<1> DEFINE e == eng'[h]
           r == rec[TaskOf[h]]
<1>1. Facts(h) /\ NewEngine \in Engines
  BY FactsHold, NewEngineTyped
<1>2. eng[h] = NewEngine /\ r \in Records /\ r # None
  BY <1>1 DEF Facts, RecoverTask, Recoverable, Local
<1>3. /\ eng' = [eng EXCEPT ![h] = e] /\ rec' = [rec EXCEPT ![TaskOf[h]] = r]
      /\ known' = [known EXCEPT ![TaskOf[h]] = h] /\ UNCHANGED ran
      /\ e = [NewEngine EXCEPT !.pc = "recovered", !.next = r.state,
                               !.status = r.status, !.effects = r.log]
  BY <1>1, <1>2 DEF Facts, RecoverTask, RestoreInstance
<1>4. \A g \in Handles \ {h} : TaskOf[g] = TaskOf[h] => ~Owner(g)
  <2>1. \A g \in Handles \ {h} : TaskOf[g] = TaskOf[h] =>
          Over(g) /\ (Mine(g) => ~eng[g].sealed)
    BY NoneStateAssumption DEF RecoverTask, Recoverable, BeingDeleted, OthersOver, Mine
  <2> QED BY <2>1 DEF Over, Owner, OwnerAs
<1> HIDE DEF e, r
<1>5. e \in Engines
  <2>1. r.state \in States \cup {None} /\ r.status \in Statuses /\ r.log \in SUBSET Keys
    BY <1>2 DEF Records
  <2> QED BY <1>1, <1>3, <2>1 DEF Engines
<1>6. e.pc = "recovered" /\ Local(e)
  BY <1>1, <1>3 DEF NewEngine, Local, Running
<1>7. Durable(e, r, TRUE)
  BY <1>2, <1>3, <1>6 DEF NewEngine, Durable, Running
<1> QED BY <1>2, <1>3, <1>4, <1>5, <1>6, <1>7, BirthKeeps

\* The row of a task goes when its registered handle, if any, is sealed.
LEMMA DeleteRowKeeps ==
  ASSUME IInv, NEW t \in Tasks, DeleteRow(t),
         \A g \in Handles : TaskOf[g] = t /\ Mine(g) => eng[g].sealed
  PROVE  IInv'
<1>1. /\ TablesOK /\ OneOwner /\ RecordsOwned
      /\ \A g \in Handles : TaskOf[g] \in Tasks /\ Local(eng[g])
      /\ \A g \in Handles : Owner(g) => Durable(eng[g], rec[TaskOf[g]], Mine(g))
  BY TaskOfAssumption DEF IInv
<1>2. /\ \A s \in Tasks : rec'[s] = rec[s] \/ (s = t /\ rec'[s] = None)
      /\ \A s \in Tasks : known'[s] = IF s = t THEN None ELSE known[s]
      /\ UNCHANGED <<eng, ran>>
  <2>1. rec' = [rec EXCEPT ![t] = None] \/ rec' = rec
    BY DEF DeleteRow, WriteFails
  <2>2. known' = [known EXCEPT ![t] = None] /\ UNCHANGED <<eng, ran>>
    BY DEF DeleteRow
  <2>3. \A s \in Tasks : rec'[s] = rec[s] \/ (s = t /\ rec'[s] = None)
    <3>1. CASE rec' = [rec EXCEPT ![t] = None]
      BY <1>1, <3>1 DEF TablesOK
    <3>2. CASE rec' = rec
      BY <3>2
    <3> QED BY <2>1, <3>1, <3>2
  <2> QED BY <1>1, <2>2, <2>3 DEF TablesOK
<1>3. TablesOK'
  <2>1. rec' \in [Tasks -> Records \cup {None}] /\ known' \in [Tasks -> Handles \cup {None}]
    BY <1>1 DEF TablesOK, DeleteRow, WriteFails
  <2> QED BY <1>1, <1>2, <2>1 DEF TablesOK
<1>4. \A g \in Handles : Mine(g)' <=> TaskOf[g] # t /\ Mine(g)
  BY <1>1, <1>2, NoneStateAssumption DEF Mine
<1>5. \A g \in Handles : Owner(g)' => Owner(g)
  BY <1>2, <1>4 DEF Owner, OwnerAs
<1>6. ASSUME NEW g \in Handles, Owner(g)' PROVE Durable(eng'[g], rec'[TaskOf[g]], Mine(g)')
  <2>1. CASE TaskOf[g] # t
    <3>1. Mine(g)' = Mine(g)
      BY <1>1, <1>2, <2>1 DEF Mine
    <3> QED BY <1>1, <1>2, <1>5, <1>6, <2>1, <3>1
  <2>2. CASE TaskOf[g] = t
    <3>1. ~Mine(g)' /\ Durable(eng[g], rec[t], Mine(g))
      BY <1>1, <1>4, <1>5, <1>6, <2>2
    <3>2. ~(eng[g].pc \in Unstarted) /\ ~Running(eng[g])
      <4>1. CASE Mine(g)
        BY <1>1, <1>2, <1>6, <2>2, <3>1, <4>1 DEF Owner, OwnerAs, Local
      <4>2. CASE ~Mine(g)
        BY <3>1, <4>2 DEF Durable
      <4> QED BY <4>1, <4>2
    <3>3. rec'[t] = rec[t] \/ rec'[t] = None
      BY <1>2
    <3> QED BY <1>2, <2>2, <3>1, <3>2, <3>3 DEF Durable
  <2> QED BY <2>1, <2>2
<1>7. OneOwner'
  BY <1>1, <1>5 DEF OneOwner
<1>8. RecordsOwned'
  BY <1>1, <1>2 DEF RecordsOwned
<1>9. (\A g \in Handles : Local(eng[g]))'
  BY <1>1, <1>2
<1>10. (\A g \in Handles : Owner(g) => Durable(eng[g], rec[TaskOf[g]], Mine(g)))'
  BY <1>6
<1> QED BY <1>3, <1>7, <1>8, <1>9, <1>10 DEF IInv

LEMMA DeleteKeeps ==
  ASSUME IInv
  PROVE  /\ \A h \in Handles : DeleteRecord(h) => IInv'
         /\ \A t \in Tasks : DeleteUnknown(t) => IInv'
<1>1. ASSUME NEW h \in Handles, DeleteRecord(h) PROVE IInv'
  <2>1. \A g \in Handles : TaskOf[g] = TaskOf[h] /\ Mine(g) => eng[g].sealed
    BY <1>1 DEF DeleteRecord, Mine
  <2> QED BY <1>1, <2>1, TaskOfAssumption, DeleteRowKeeps DEF DeleteRecord
<1>2. ASSUME NEW t \in Tasks, DeleteUnknown(t) PROVE IInv'
  <2>1. \A g \in Handles : TaskOf[g] = t /\ Mine(g) => eng[g].sealed
    BY <1>2, NoneStateAssumption DEF DeleteUnknown, Mine
  <2> QED BY <1>2, <2>1, DeleteRowKeeps DEF DeleteUnknown
<1> QED BY <1>1, <1>2

LEMMA CrashKeeps ==
  ASSUME IInv, Crash
  PROVE  IInv'
<1> DEFINE gone == [NewEngine EXCEPT !.pc = "lost"]
<1>1. TablesOK /\ RecordsOwned /\ \A g \in Handles : Local(eng[g])
  BY DEF IInv
<1>2. gone \in Engines /\ gone.pc = "lost" /\ Local(gone)
  BY NewEngineTyped DEF NewEngine, Engines, Local, Running
<1>3. /\ \A g \in Handles : eng'[g] = IF InProcess(g) THEN gone ELSE eng[g]
      /\ eng' \in [Handles -> Engines] /\ known' = [t \in Tasks |-> None] /\ UNCHANGED <<rec, ran>>
  BY <1>1, <1>2 DEF TablesOK, Crash
<1> HIDE DEF gone
<1>4. \A g \in Handles : Local(eng'[g]) /\ eng'[g].pc \in Spent
                         /\ (eng[g].pc # "unborn" => eng'[g].pc # "unborn")
  BY <1>1, <1>2, <1>3 DEF InProcess
<1>5. TablesOK'
  <2>1. \A g \in Handles : eng'[g].pc \in InHandler =>
          eng'[g].current # None /\ eng'[g].current = eng'[g].next
    BY <1>4 DEF Local
  <2> QED BY <1>1, <1>3, <2>1 DEF TablesOK
<1>6. \A g \in Handles : ~Owner(g)'
  BY <1>4 DEF Owner, OwnerAs
<1>7. RecordsOwned'
  BY <1>1, <1>3, <1>4 DEF RecordsOwned
<1>8. OneOwner' /\ (\A g \in Handles : Owner(g) => Durable(eng[g], rec[TaskOf[g]], Mine(g)))'
  BY <1>6 DEF OneOwner
<1>9. (\A g \in Handles : Local(eng[g]))'
  BY <1>4
<1> QED BY <1>5, <1>7, <1>8, <1>9 DEF IInv

-----------------------------------------------------------------------------
(* Every step keeps the invariant and is a step of the record's life.      *)

LEMMA InitHolds ==
  ASSUME Init
  PROVE  IInv
<1>1. \A h \in Handles : eng[h] = NewEngine
  BY DEF Init
<1>2. TablesOK
  BY <1>1, NewEngineTyped, BoundAssumption DEF Init, TablesOK
<1>3. \A h \in Handles : ~Owner(h) /\ Local(eng[h])
  BY <1>1, NewEngineTyped DEF Owner, OwnerAs
<1>4. RecordsOwned
  BY DEF Init, RecordsOwned
<1> QED BY <1>2, <1>3, <1>4 DEF IInv, OneOwner

LEMMA StutterKeeps ==
  ASSUME IInv, UNCHANGED vars
  PROVE  IInv'
<1>1. UNCHANGED <<eng, rec, ran, known>>
  BY DEF vars
<1>2. TablesOK'
  BY <1>1 DEF IInv, TablesOK
<1>3. \A h \in Handles : Mine(h)' = Mine(h) /\ Owner(h)' = Owner(h)
  BY <1>1 DEF Mine, Owner
<1>4. OneOwner' /\ RecordsOwned'
  BY <1>1, <1>3 DEF IInv, OneOwner, RecordsOwned
<1>5. (\A h \in Handles : Local(eng[h]))'
  BY <1>1 DEF IInv
<1>6. (\A h \in Handles : Owner(h) => Durable(eng[h], rec[TaskOf[h]], Mine(h)))'
  BY <1>1, <1>3 DEF IInv
<1> QED BY <1>2, <1>4, <1>5, <1>6 DEF IInv

LEMMA StepKeeps ==
  ASSUME OneRun, ~CanStray, IInv, [Next]_vars
  PROVE  IInv'
<1>1. ASSUME NEW h \in Handles, HandleStep(h) PROVE IInv'
  <2>1. ~StrayStep(h)
    BY FactsHold DEF StrayStep, StrayCheck, StraySnapshot, StrayWrite, Facts, Local
  <2>2. CASE CreateTask(h) \/ RecoverTask(h) \/ DeleteRecord(h)
    BY <2>2, CreateTaskKeeps, RecoverTaskKeeps, DeleteKeeps
  <2>3. CASE StartRefused(h) \/ StartKilled(h) \/ Start(h)
    BY <2>3, StartRefusedKeeps, StartKilledKeeps, StartKeeps
  <2>4. CASE RunStep(h)
    BY <2>4, BoundaryKeeps, SaveSuspendedKeeps, ParkKeeps, SaveRunningKeeps, EnterKeeps,
       MidCheckKeeps, MidWriteKeeps, HarvestKeeps, FinishKeeps, StampKeeps, TeardownKeeps,
       EpilogueKeeps DEF RunStep
  <2>5. CASE HandlerStep(h) \/ \E k \in Keys : Do(h, k)
    BY <2>5, HandlerReturnsKeeps, HandlerFailsKeeps, DoKeeps DEF HandlerStep
  <2>6. CASE Suspend(h) \/ Resume(h) \/ Detach(h) \/ Kill(h) \/ Seal(h) \/ Unseal(h)
    BY <2>6, SuspendKeeps, ResumeKeeps, DetachKeeps, KillKeeps, SealKeeps, UnsealKeeps
  <2> QED BY <1>1, <2>1, <2>2, <2>3, <2>4, <2>5, <2>6 DEF HandleStep
<1> QED BY <1>1, DeleteKeeps, CrashKeeps, StutterKeeps DEF Next

\* A checkpoint of a run is a checkpoint of its record.
LEMMA CheckpointMaps ==
  ASSUME IInv, NEW h \in Handles, NEW status \in {"running", "suspended"},
         eng[h].pc \in {"suspending", "entering"} \/ (eng[h].pc = "midwrite"),
         SaveCheckpoint(TaskOf[h], status, eng[h].next, Snapshot(eng[h])), UNCHANGED ran
  PROVE  Life!Next
<1>1. Facts(h) /\ Owner(h) /\ eng[h].pc \in Writing
  BY FactsHold, OwnerRuns
<1>2. rec[TaskOf[h]] # None /\ rec[TaskOf[h]].status \notin Terminal
      /\ rec[TaskOf[h]].log \subseteq eng[h].effects
  BY <1>1 DEF Facts, Durable, SaveCheckpoint
<1>3. eng[h].next \in States /\ eng[h].effects \in SUBSET Keys
  BY <1>1 DEF Facts, Local, Engines
<1>4. Life!Checkpoint(TaskOf[h], status, eng[h].next, eng[h].effects)
  BY <1>2 DEF Life!Checkpoint, Life!Open, Life!Terminal, SaveCheckpoint, Snapshot
<1> QED BY <1>1, <1>3, <1>4 DEF Facts, Life!Next

LEMMA StampMaps ==
  ASSUME IInv, NEW h \in Handles, Stamp(h)
  PROVE  [Life!Next]_<<rec, ran>>
<1>1. Facts(h) /\ Owner(h) /\ eng[h].pc \in Writing
  BY FactsHold, OwnerRuns DEF Stamp
<1>2. CASE MarkTerminal(TaskOf[h], eng[h].state, eng[h].output)
  <2>1. rec[TaskOf[h]] # None /\ rec[TaskOf[h]].status \notin Terminal
    BY <1>1, <1>2 DEF Facts, Durable, MarkTerminal
  <2>2. /\ eng[h].state \in Terminal \cup {"failed"} /\ eng[h].output \in BOOLEAN
        /\ eng[h].output => eng[h].state \in Terminal
    BY <1>1 DEF Facts, Local, Engines, Stamp
  <2>3. Life!End(TaskOf[h], eng[h].state, eng[h].output)
    BY <1>2, <2>1, <2>2 DEF Life!End, Life!Open, Life!Terminal, MarkTerminal, Stamp
  <2> QED BY <1>1, <2>2, <2>3 DEF Facts, Life!Next, Life!Terminal
<1>3. CASE WriteFails(TaskOf[h])
  BY <1>3 DEF WriteFails, Stamp
<1> QED BY <1>2, <1>3 DEF Stamp

LEMMA DoMaps ==
  ASSUME IInv, NEW h \in Handles, NEW k \in Keys, Do(h, k)
  PROVE  Life!Next
<1>1. Facts(h) /\ Owner(h)
  BY FactsHold, OwnerRuns DEF Do
<1>2. rec[TaskOf[h]] # None => k \notin rec[TaskOf[h]].log
  BY <1>1 DEF Facts, Durable, Do
<1>3. Life!Effect(TaskOf[h], k)
  BY <1>2 DEF Life!Effect, Do
<1> QED BY <1>1, <1>3 DEF Facts, Life!Next

LEMMA RunStepMaps ==
  ASSUME IInv, NEW h \in Handles, RunStep(h)
  PROVE  [Life!Next]_<<rec, ran>>
<1>1. CASE SaveSuspended(h)
  BY <1>1, CheckpointMaps DEF SaveSuspended, CheckpointFails, WriteFails
<1>2. CASE SaveRunning(h)
  BY <1>2, CheckpointMaps DEF SaveRunning, CheckpointFails, WriteFails
<1>3. CASE MidWrite(h)
  <2>1. eng[h].current = eng[h].next
    BY <1>3, FactsHold DEF Facts, Local, MidWrite
  <2> QED BY <1>3, <2>1, CheckpointMaps DEF MidWrite, CheckpointFails, WriteFails
<1>4. CASE Stamp(h)
  BY <1>4, StampMaps
<1>5. CASE Boundary(h) \/ Park(h) \/ Enter(h) \/ MidCheck(h) \/ Harvest(h) \/ Finish(h)
           \/ Teardown(h) \/ Epilogue(h)
  BY <1>5 DEF Boundary, Park, Enter, MidCheck, Harvest, Finish, Teardown, Epilogue
<1> QED BY <1>1, <1>2, <1>3, <1>4, <1>5 DEF RunStep

LEMMA DeleteRowMaps ==
  ASSUME NEW t \in Tasks, DeleteRow(t)
  PROVE  [Life!Next]_<<rec, ran>>
<1>1. CASE rec' = [rec EXCEPT ![t] = None]
  <2>1. Life!Remove(t)
    BY <1>1 DEF Life!Remove, DeleteRow
  <2> QED BY <2>1 DEF Life!Next
<1> QED BY <1>1 DEF DeleteRow, WriteFails

LEMMA StepMaps ==
  ASSUME OneRun, ~CanStray, IInv, [Next]_vars
  PROVE  [Life!Next]_<<rec, ran>>
<1>1. ASSUME NEW h \in Handles, HandleStep(h) PROVE [Life!Next]_<<rec, ran>>
  <2>1. ~StrayStep(h)
    BY FactsHold DEF StrayStep, StrayCheck, StraySnapshot, StrayWrite, Facts, Local
  <2>2. CASE CreateTask(h)
    <3>1. Life!Create(TaskOf[h])
      BY <2>2, CreateTaskKeeps DEF Life!Create, CreateTask
    <3> QED BY <3>1, TaskOfAssumption DEF Life!Next
  <2>3. CASE DeleteRecord(h)
    BY <2>3, TaskOfAssumption, DeleteRowMaps DEF DeleteRecord
  <2>4. CASE RunStep(h)
    BY <2>4, RunStepMaps
  <2>5. CASE \E k \in Keys : Do(h, k)
    BY <2>5, DoMaps
  <2>6. CASE RecoverTask(h) \/ StartRefused(h) \/ StartKilled(h) \/ Start(h) \/ HandlerStep(h)
    BY <2>6 DEF RecoverTask, StartRefused, StartKilled, Start, HandlerStep, HandlerReturns, HandlerFails
  <2>7. CASE Suspend(h) \/ Resume(h) \/ Detach(h) \/ Kill(h) \/ Seal(h) \/ Unseal(h)
    BY <2>7 DEF Suspend, Resume, Detach, Kill, Seal, Unseal
  <2> QED BY <1>1, <2>1, <2>2, <2>3, <2>4, <2>5, <2>6, <2>7 DEF HandleStep
<1>2. ASSUME NEW t \in Tasks, DeleteUnknown(t) PROVE [Life!Next]_<<rec, ran>>
  BY <1>2, DeleteRowMaps DEF DeleteUnknown
<1>3. CASE Crash \/ UNCHANGED vars
  BY <1>3 DEF Crash, vars
<1> QED BY <1>1, <1>2, <1>3 DEF Next

-----------------------------------------------------------------------------
(* Theorems.                                                               *)

LEMMA Inductive ==
  ASSUME OneRun, ~CanStray
  PROVE  Spec => []IInv
<1>1. Init => IInv
  BY InitHolds
<1>2. IInv /\ [Next]_vars => IInv'
  BY StepKeeps
<1> QED BY <1>1, <1>2, PTL DEF Spec

\* A deletion never takes the record from under a live run (engine.go:271).
THEOREM LiveRunsRecorded ==
  ASSUME OneRun, ~CanStray
  PROVE  Spec => []LiveHasRecord
<1>1. IInv => LiveHasRecord
  BY OwnerRuns DEF IInv, Durable, LiveHasRecord, Record, Running, isRunning
<1> QED BY <1>1, Inductive, PTL

\* The record a recovery would read is that of the run as it stands: where it
\* executes, where it is parked, and every effect it ran until then.
THEOREM RecordTellsTheRun ==
  ASSUME OneRun, ~CanStray
  PROVE  Spec => []RecordIsTrue
<1>1. ASSUME IInv, NEW h \in Handles
      PROVE  /\ (/\ eng[h].pc \in {"entered", "handling", "midcheck", "midwrite"}
                 /\ Record(h) # None)
                  => /\ Record(h).status = "running" /\ Record(h).state = eng[h].next
                     /\ Record(h).log \subseteq eng[h].effects
             /\ ParkedIsDurable(h) /\ ParkedMustWait(h)
  <2>1. Facts(h)
    BY <1>1, FactsHold
  <2>2. eng[h].pc \in Writing \cup Leaving => Owner(h)
    BY DEF Owner, OwnerAs
  <2> QED BY <2>1, <2>2 DEF Facts, Local, Durable, Record, ParkedIsDurable, ParkedMustWait
<1>2. IInv => RecordIsTrue
  BY <1>1 DEF RecordIsTrue, ResumesHere, ParkedWell
<1> QED BY <1>2, Inductive, PTL

\* Runs, steering, deletion, failing writes and crashes, taken together, do to a
\* record only what TaskLifecycle allows: the engine implements it.
THEOREM EngineImplementsLifecycle ==
  ASSUME OneRun, ~CanStray
  PROVE  Spec => ImplementsLifecycle
<1>1. Init => Life!Init
  BY DEF Init, Life!Init
<1>2. IInv /\ [Next]_vars => [Life!Next]_<<rec, ran>>
  BY StepMaps
<1>3. Spec => Life!Spec
  BY <1>1, <1>2, Inductive, PTL DEF Spec, Life!Spec, Life!vars
<1> QED BY <1>3 DEF ImplementsLifecycle

\* A step of the record's life leaves an outcome alone.
LEMMA LifeKeepsOutcomes ==
  ASSUME IInv, [Life!Next]_<<rec, ran>>, NEW t \in Tasks,
         rec[t] # None, rec'[t] # None, rec[t].status \in Terminal
  PROVE  rec'[t] = rec[t]
<1>1. rec \in [Tasks -> Records \cup {None}]
  BY DEF IInv, TablesOK
<1>2. CASE UNCHANGED <<rec, ran>>
  BY <1>2
<1>3. ASSUME NEW s \in Tasks, Life!Create(s) \/ Life!Remove(s) PROVE rec'[t] = rec[t]
  BY <1>1, <1>3 DEF Life!Create, Life!Remove
<1>4. ASSUME NEW s \in Tasks, NEW status, NEW state, NEW log, Life!Checkpoint(s, status, state, log)
      PROVE  rec'[t] = rec[t]
  <2>1. s # t
    BY <1>4 DEF Life!Checkpoint, Life!Open, Life!Terminal
  <2> QED BY <1>1, <1>4, <2>1 DEF Life!Checkpoint
<1>5. ASSUME NEW s \in Tasks, NEW outcome, NEW output, Life!End(s, outcome, output)
      PROVE  rec'[t] = rec[t]
  <2>1. s # t
    BY <1>5 DEF Life!End, Life!Open, Life!Terminal
  <2> QED BY <1>1, <1>5, <2>1 DEF Life!End
<1>6. ASSUME NEW s \in Tasks, NEW k, Life!Effect(s, k) PROVE rec'[t] = rec[t]
  BY <1>6 DEF Life!Effect
<1> QED BY <1>2, <1>3, <1>4, <1>5, <1>6 DEF Life!Next

\* While a task has one run at a time nothing overwrites its outcome: not a late
\* checkpoint, not a second run, not a recovery after a crash (tasks.go:64).
THEOREM OutcomesStand ==
  ASSUME OneRun, ~CanStray
  PROVE  Spec => TerminalStands
<1>1. IInv /\ [Next]_vars =>
        [\A t \in Tasks :
           (rec[t] # None /\ rec'[t] # None /\ rec[t].status \in Terminal)
             => rec'[t] = rec[t]]_vars
  BY StepMaps, LifeKeepsOutcomes
<1> QED BY <1>1, Inductive, PTL DEF Spec, TerminalStands

-----------------------------------------------------------------------------
(* An effect is in the log, or under way to it, or accounted for as lost,   *)
(* whatever fails or ends early and whatever goroutines handlers leave      *)
(* behind.  A handle holds its task while it owns the record or a stray     *)
(* checkpoint of its own is outstanding; a task has one holder, and the     *)
(* holder remembers every effect that is not lost.                          *)

Holds(e, mine) == OwnerAs(e, mine) \/ e.stray # None
Holder(h) == Holds(eng[h], Mine(h))

\* The effects a task had in the world.
Had(effects) == {k \in Keys : effects[k] # 0}

\* The effects whose record a run is about to make.
Pending(e) == IF e.pc \in {"midcheck", "midwrite"} THEN e.effects ELSE {}

Fit(e) ==
  /\ e.pc = "unborn" => e = NewEngine
  /\ e.pc = "lost" => e.stray = None
  /\ e.pc \in AtState => e.next # None
  /\ e.pc \in InHandler => e.current # None /\ e.current = e.next
  /\ e.blob \subseteq e.effects

OneHolder ==
  \A g, h \in Handles : g # h /\ TaskOf[g] = TaskOf[h] => ~(Holder(g) /\ Holder(h))

Remembered ==
  \A h \in Handles : Holder(h) => Had(ran[TaskOf[h]]) \subseteq eng[h].effects \cup lost[TaskOf[h]]

Kept ==
  \A t \in Tasks : rec[t] # None =>
    \A k \in Had(ran[t]) :
      k \in rec[t].log \cup lost[t] \/ \E h \in Handles : TaskOf[h] = t /\ k \in Pending(eng[h])

Begun ==
  \A t \in Tasks : Had(ran[t]) # {} => \E h \in Handles : TaskOf[h] = t /\ eng[h].pc # "unborn"

EffectInv ==
  /\ TypeOK
  /\ \A h \in Handles : Fit(eng[h]) /\ (Mine(h) => eng[h].pc # "unborn")
  /\ OneHolder /\ Remembered /\ Kept /\ Begun

\* A step of one handle: the others and their tasks are as they were, and it
\* touches its task's record and world only as the holder.
LEMMA HolderStep ==
  ASSUME EffectInv, NEW h \in Handles, NEW e \in Engines, NEW r \in Records \cup {None},
         NEW q \in [Keys -> 0 .. MaxEffects], NEW l \in SUBSET Keys,
         eng' = [eng EXCEPT ![h] = e], rec' = [rec EXCEPT ![TaskOf[h]] = r],
         ran' = [ran EXCEPT ![TaskOf[h]] = q], lost' = [lost EXCEPT ![TaskOf[h]] = l],
         UNCHANGED known, eng[h].pc # "unborn", e.pc # "unborn", Fit(e),
         Holder(h) \/ (r = rec[TaskOf[h]] /\ q = ran[TaskOf[h]] /\ l = lost[TaskOf[h]]),
         Holds(e, Mine(h)) => Holder(h) /\ Had(q) \subseteq e.effects \cup l,
         \/ r # None => Had(q) \subseteq r.log \cup l \cup Pending(e)
         \/ /\ r = rec[TaskOf[h]] /\ q = ran[TaskOf[h]] /\ l = lost[TaskOf[h]]
            /\ Pending(eng[h]) \subseteq Pending(e)
  PROVE  EffectInv'
<1> DEFINE t == TaskOf[h]
<1>1. /\ TypeOK /\ OneHolder /\ Remembered /\ Kept /\ Begun /\ t \in Tasks
      /\ \A g \in Handles : /\ TaskOf[g] \in Tasks /\ Fit(eng[g])
                            /\ Mine(g) => eng[g].pc # "unborn"
  BY TaskOfAssumption DEF EffectInv
<1>2. /\ \A g \in Handles : eng'[g] = IF g = h THEN e ELSE eng[g]
      /\ \A s \in Tasks : rec'[s] = IF s = t THEN r ELSE rec[s]
      /\ \A s \in Tasks : ran'[s] = IF s = t THEN q ELSE ran[s]
      /\ \A s \in Tasks : lost'[s] = IF s = t THEN l ELSE lost[s]
  BY <1>1 DEF TypeOK, TablesOK
<1>3. \A g \in Handles : Mine(g)' = Mine(g)
  BY DEF Mine
<1>4. \A g \in Handles : Holder(g)' => Holder(g)
  BY <1>2, <1>3 DEF Holder
<1>5. \A g \in Handles : Fit(eng'[g]) /\ (Mine(g)' => eng'[g].pc # "unborn")
  BY <1>1, <1>2, <1>3
<1>6. TypeOK'
  <2>1. /\ eng' \in [Handles -> Engines] /\ rec' \in [Tasks -> Records \cup {None}]
        /\ ran' \in [Tasks -> [Keys -> 0 .. MaxEffects]] /\ lost' \in [Tasks -> SUBSET Keys]
    BY <1>1 DEF TypeOK, TablesOK
  <2>2. \A g \in Handles : eng'[g].pc \in InHandler =>
          eng'[g].current # None /\ eng'[g].current = eng'[g].next
    BY <1>5 DEF Fit
  <2> QED BY <1>1, <2>1, <2>2 DEF TypeOK, TablesOK
<1>7. OneHolder'
  BY <1>1, <1>4 DEF OneHolder
<1>8. ASSUME NEW g \in Handles, Holder(g)'
      PROVE  Had(ran'[TaskOf[g]]) \subseteq eng'[g].effects \cup lost'[TaskOf[g]]
  <2>1. CASE g = h
    BY <1>1, <1>2, <1>3, <1>8, <2>1 DEF Holder
  <2>2. CASE g # h
    <3>1. ran'[TaskOf[g]] = ran[TaskOf[g]] /\ lost'[TaskOf[g]] = lost[TaskOf[g]]
      BY <1>1, <1>2, <1>4, <1>8, <2>2 DEF OneHolder
    <3> QED BY <1>1, <1>2, <1>4, <1>8, <2>2, <3>1 DEF Remembered
  <2> QED BY <2>1, <2>2
<1>9. ASSUME NEW s \in Tasks, rec'[s] # None, NEW k \in Had(ran'[s])
      PROVE  k \in rec'[s].log \cup lost'[s] \/ \E g \in Handles : TaskOf[g] = s /\ k \in Pending(eng'[g])
  <2>1. CASE s # t
    <3>1. rec'[s] = rec[s] /\ ran'[s] = ran[s] /\ lost'[s] = lost[s]
      BY <1>2, <2>1
    <3>2. \A g \in Handles : TaskOf[g] = s => eng'[g] = eng[g]
      BY <1>2, <2>1
    <3> QED BY <1>1, <1>9, <3>1, <3>2 DEF Kept
  <2>2. CASE s = t
    <3>1. rec'[s] = r /\ ran'[s] = q /\ lost'[s] = l /\ eng'[h] = e
      BY <1>2, <2>2
    <3>2. CASE Had(q) \subseteq r.log \cup l \cup Pending(e)
      BY <1>9, <2>2, <3>1, <3>2
    <3>3. CASE /\ r = rec[t] /\ q = ran[t] /\ l = lost[t]
               /\ Pending(eng[h]) \subseteq Pending(e)
      <4>1. k \in rec[s].log \cup lost[s] \/ \E g \in Handles : TaskOf[g] = s /\ k \in Pending(eng[g])
        BY <1>1, <1>9, <2>2, <3>1, <3>3 DEF Kept
      <4>2. \A g \in Handles : Pending(eng[g]) \subseteq Pending(eng'[g])
        BY <1>2, <3>3
      <4> QED BY <2>2, <3>1, <3>3, <4>1, <4>2
    <3> QED BY <1>9, <3>1, <3>2, <3>3
  <2> QED BY <2>1, <2>2
<1>10. ASSUME NEW s \in Tasks, Had(ran'[s]) # {}
       PROVE  \E g \in Handles : TaskOf[g] = s /\ eng'[g].pc # "unborn"
  <2>1. CASE s = t
    BY <1>2, <2>1
  <2>2. CASE s # t
    <3>1. Had(ran[s]) # {}
      BY <1>2, <1>10, <2>2
    <3>2. PICK g \in Handles : TaskOf[g] = s /\ eng[g].pc # "unborn"
      BY <1>1, <3>1 DEF Begun
    <3> QED BY <1>2, <3>2
  <2> QED BY <2>1, <2>2
<1>11. (\A g \in Handles : Fit(eng[g]) /\ (Mine(g) => eng[g].pc # "unborn"))'
  BY <1>5
<1>12. Remembered' /\ Kept' /\ Begun'
  BY <1>8, <1>9, <1>10 DEF Remembered, Kept, Begun
<1> QED BY <1>6, <1>7, <1>11, <1>12 DEF EffectInv

\* What is known of a handle and its task.
Known(h) ==
  /\ eng \in [Handles -> Engines] /\ rec \in [Tasks -> Records \cup {None}]
  /\ ran \in [Tasks -> [Keys -> 0 .. MaxEffects]] /\ lost \in [Tasks -> SUBSET Keys]
  /\ TaskOf[h] \in Tasks /\ eng[h] \in Engines /\ rec[TaskOf[h]] \in Records \cup {None}
  /\ ran[TaskOf[h]] \in [Keys -> 0 .. MaxEffects] /\ lost[TaskOf[h]] \in SUBSET Keys
  /\ Fit(eng[h]) /\ (Mine(h) => eng[h].pc # "unborn")
  /\ Holder(h) => Had(ran[TaskOf[h]]) \subseteq eng[h].effects \cup lost[TaskOf[h]]

LEMMA KnownHolds ==
  ASSUME EffectInv, NEW h \in Handles
  PROVE  Known(h)
BY TaskOfAssumption DEF EffectInv, TypeOK, TablesOK, Known, Remembered

\* Steps that touch neither record nor world.
Quiet(d, e, mine) ==
  /\ d.pc # "unborn" /\ e.pc # "unborn" /\ e.effects = d.effects
  /\ Holds(e, mine) => Holds(d, mine)
  /\ Pending(d) \subseteq Pending(e)

LEMMA QuietStep ==
  ASSUME EffectInv, NEW h \in Handles, NEW e \in Engines, eng' = [eng EXCEPT ![h] = e],
         UNCHANGED <<rec, ran, known, lost>>, Fit(e), Quiet(eng[h], e, Mine(h))
  PROVE  EffectInv'
<1>1. Known(h)
  BY KnownHolds
<1>2. PICK r \in Records \cup {None} : r = rec[TaskOf[h]]
  BY <1>1 DEF Known
<1>3. PICK q \in [Keys -> 0 .. MaxEffects] : q = ran[TaskOf[h]]
  BY <1>1 DEF Known
<1>4. PICK l \in SUBSET Keys : l = lost[TaskOf[h]]
  BY <1>1 DEF Known
<1>5. /\ rec' = [rec EXCEPT ![TaskOf[h]] = r] /\ ran' = [ran EXCEPT ![TaskOf[h]] = q]
      /\ lost' = [lost EXCEPT ![TaskOf[h]] = l]
  BY <1>1, <1>2, <1>3, <1>4 DEF Known
<1>6. Holds(e, Mine(h)) => Holder(h) /\ Had(q) \subseteq e.effects \cup l
  BY <1>1, <1>3, <1>4 DEF Known, Quiet, Holder
<1>7. /\ eng[h].pc # "unborn" /\ e.pc # "unborn" /\ Pending(eng[h]) \subseteq Pending(e)
      /\ r = rec[TaskOf[h]] /\ q = ran[TaskOf[h]] /\ l = lost[TaskOf[h]]
  BY <1>2, <1>3, <1>4 DEF Quiet
<1>8. Holder(h) \/ (r = rec[TaskOf[h]] /\ q = ran[TaskOf[h]] /\ l = lost[TaskOf[h]])
  BY <1>7
<1>9. \/ r # None => Had(q) \subseteq r.log \cup l \cup Pending(e)
      \/ /\ r = rec[TaskOf[h]] /\ q = ran[TaskOf[h]] /\ l = lost[TaskOf[h]]
         /\ Pending(eng[h]) \subseteq Pending(e)
  BY <1>7
<1>10. eng[h].pc # "unborn" /\ e.pc # "unborn"
  BY <1>7
<1> QED BY <1>5, <1>6, <1>8, <1>9, <1>10, HolderStep

-----------------------------------------------------------------------------
(* The steps of a handle that touch neither record nor world.              *)

LEMMA StartRefusedQuiet ==
  ASSUME EffectInv, NEW h \in Handles, StartRefused(h)
  PROVE  EffectInv'
<1> DEFINE e == eng'[h]
<1>1. Known(h)
  BY KnownHolds
<1>2. /\ e = [eng[h] EXCEPT !.pc = "refused"]
      /\ eng' = [eng EXCEPT ![h] = e] /\ UNCHANGED <<rec, ran, known, lost>>
  BY <1>1 DEF Known, StartRefused
<1>3. eng[h].pc = "recovered"
  BY <1>1 DEF Known, StartRefused
<1> HIDE DEF e
<1>4. e \in Engines
  BY <1>1, <1>2 DEF Known, Engines, Statuses
<1>5. Fit(e)
  BY <1>1, <1>2, <1>3 DEF Known, Engines, Fit
<1>6. Quiet(eng[h], e, Mine(h))
  BY <1>1, <1>2, <1>3 DEF Known, Engines, Quiet, Holds, OwnerAs, Pending
<1> QED BY <1>2, <1>4, <1>5, <1>6, QuietStep

LEMMA StartKilledQuiet ==
  ASSUME EffectInv, NEW h \in Handles, StartKilled(h)
  PROVE  EffectInv'
<1> DEFINE e == eng'[h]
<1>1. Known(h)
  BY KnownHolds
<1>2. e = [eng[h] EXCEPT !.pc = "refused", !.status = "killed"] /\ eng' = [eng EXCEPT ![h] = e] /\ UNCHANGED <<rec, ran, known, lost>>
  BY <1>1 DEF Known, StartKilled
<1>3. e \in Engines
  <2> HIDE DEF e
  <2> QED BY <1>1, <1>2 DEF Known, Engines, Statuses
<1>4. Fit(e)
  BY <1>1 DEF Known, Engines, Fit, StartKilled, Startable
<1>5. Quiet(eng[h], e, Mine(h))
  BY <1>1 DEF Known, Engines, Fit, Quiet, Holds, OwnerAs, Pending, Mine, StartKilled, Startable
<1> QED BY <1>2, <1>3, <1>4, <1>5, QuietStep

LEMMA StartQuiet ==
  ASSUME EffectInv, NEW h \in Handles, Start(h)
  PROVE  EffectInv'
<1> DEFINE e == eng'[h]
<1>1. Known(h)
  BY KnownHolds
<1>2. e \in Engines /\ eng' = [eng EXCEPT ![h] = e] /\ UNCHANGED <<rec, ran, known, lost>>
  BY <1>1 DEF Known, Engines, Statuses, Start, Startable
<1>3. Fit(e)
  BY <1>1 DEF Known, Engines, Fit, Start, Startable
<1>4. Quiet(eng[h], e, Mine(h))
  BY <1>1 DEF Known, Engines, Fit, Quiet, Holds, OwnerAs, Pending, Mine, Start, Startable
<1> QED BY <1>2, <1>3, <1>4, QuietStep

LEMMA EnterQuiet ==
  ASSUME EffectInv, NEW h \in Handles, Enter(h)
  PROVE  EffectInv'
<1> DEFINE e == eng'[h]
<1>1. Known(h)
  BY KnownHolds
<1>2. e \in Engines /\ eng' = [eng EXCEPT ![h] = e] /\ UNCHANGED <<rec, ran, known, lost>>
  BY <1>1 DEF Known, Engines, Statuses, Enter
<1>3. Fit(e)
  BY <1>1 DEF Known, Engines, Fit, Enter
<1>4. Quiet(eng[h], e, Mine(h))
  BY <1>1 DEF Known, Engines, Fit, Quiet, Holds, OwnerAs, Pending, Mine, Enter
<1> QED BY <1>2, <1>3, <1>4, QuietStep

LEMMA HandlerFailsQuiet ==
  ASSUME EffectInv, NEW h \in Handles, HandlerFails(h)
  PROVE  EffectInv'
<1> DEFINE e == eng'[h]
<1>1. Known(h)
  BY KnownHolds
<1>2. /\ e = [eng[h] EXCEPT !.pc = "exiting", !.err = TRUE]
      /\ eng' = [eng EXCEPT ![h] = e] /\ UNCHANGED <<rec, ran, known, lost>>
  BY <1>1 DEF Known, HandlerFails, Exits
<1>3. eng[h].pc = "handling"
  BY <1>1 DEF Known, HandlerFails, Exits
<1> HIDE DEF e
<1>4. e \in Engines
  BY <1>1, <1>2 DEF Known, Engines, Statuses
<1>5. Fit(e)
  BY <1>1, <1>2, <1>3 DEF Known, Engines, Fit
<1>6. Quiet(eng[h], e, Mine(h))
  BY <1>1, <1>2, <1>3 DEF Known, Engines, Quiet, Holds, OwnerAs, Pending
<1> QED BY <1>2, <1>4, <1>5, <1>6, QuietStep

LEMMA TeardownQuiet ==
  ASSUME EffectInv, NEW h \in Handles, Teardown(h)
  PROVE  EffectInv'
<1> DEFINE e == eng'[h]
<1>1. Known(h)
  BY KnownHolds
<1>2. /\ e = [eng[h] EXCEPT !.pc = "epilogue"]
      /\ eng' = [eng EXCEPT ![h] = e] /\ UNCHANGED <<rec, ran, known, lost>>
  BY <1>1 DEF Known, Teardown
<1>3. eng[h].pc = "teardown"
  BY <1>1 DEF Known, Teardown
<1> HIDE DEF e
<1>4. e \in Engines
  BY <1>1, <1>2 DEF Known, Engines, Statuses
<1>5. Fit(e)
  BY <1>1, <1>2, <1>3 DEF Known, Engines, Fit
<1>6. Quiet(eng[h], e, Mine(h))
  BY <1>1, <1>2, <1>3 DEF Known, Engines, Quiet, Holds, OwnerAs, Pending
<1> QED BY <1>2, <1>4, <1>5, <1>6, QuietStep

LEMMA EpilogueQuiet ==
  ASSUME EffectInv, NEW h \in Handles, Epilogue(h)
  PROVE  EffectInv'
<1> DEFINE e == eng'[h]
<1>1. Known(h)
  BY KnownHolds
<1>2. /\ e = [eng[h] EXCEPT !.pc = "returned", !.status = eng[h].state]
      /\ eng' = [eng EXCEPT ![h] = e] /\ UNCHANGED <<rec, ran, known, lost>>
  BY <1>1 DEF Known, Epilogue
<1>3. eng[h].pc = "epilogue"
  BY <1>1 DEF Known, Epilogue
<1> HIDE DEF e
<1>4. e \in Engines
  BY <1>1, <1>2 DEF Known, Engines, Statuses
<1>5. Fit(e)
  BY <1>1, <1>2, <1>3 DEF Known, Engines, Fit
<1>6. Quiet(eng[h], e, Mine(h))
  BY <1>1, <1>2, <1>3 DEF Known, Engines, Quiet, Holds, OwnerAs, Pending
<1> QED BY <1>2, <1>4, <1>5, <1>6, QuietStep

LEMMA StrayCheckQuiet ==
  ASSUME EffectInv, NEW h \in Handles, StrayCheck(h)
  PROVE  EffectInv'
<1> DEFINE e == eng'[h]
<1>1. Known(h)
  BY KnownHolds
<1>2. /\ e = [eng[h] EXCEPT !.stray = eng[h].current]
      /\ eng' = [eng EXCEPT ![h] = e] /\ UNCHANGED <<rec, ran, known, lost>>
  BY <1>1 DEF Known, StrayCheck
<1>3. eng[h].pc \in InLoop \cup Leaving
  BY <1>1 DEF Known, StrayCheck
<1> HIDE DEF e
<1>4. e \in Engines
  BY <1>1, <1>2 DEF Known, Engines
<1>5. Fit(e)
  BY <1>1, <1>2, <1>3 DEF Known, Engines, Fit, NewEngine
<1>6. Quiet(eng[h], e, Mine(h))
  BY <1>1, <1>2, <1>3 DEF Known, Engines, Quiet, Holds, OwnerAs, Pending
<1> QED BY <1>2, <1>4, <1>5, <1>6, QuietStep

LEMMA StraySnapshotQuiet ==
  ASSUME EffectInv, NEW h \in Handles, StraySnapshot(h)
  PROVE  EffectInv'
<1> DEFINE e == eng'[h]
<1>1. Known(h)
  BY KnownHolds
<1>2. /\ e = [eng[h] EXCEPT !.taken = TRUE, !.blob = eng[h].effects]
      /\ eng' = [eng EXCEPT ![h] = e] /\ UNCHANGED <<rec, ran, known, lost>>
  BY <1>1 DEF Known, StraySnapshot, Snapshot, Fit, NewEngine
<1>3. eng[h].stray # None /\ eng[h].pc \notin {"unborn", "lost"}
  BY <1>1 DEF Known, StraySnapshot, Snapshot, Fit, NewEngine
<1> HIDE DEF e
<1>4. e \in Engines
  BY <1>1, <1>2 DEF Known, Engines
<1>5. Fit(e)
  BY <1>1, <1>2, <1>3 DEF Known, Engines, Fit, NewEngine
<1>6. Quiet(eng[h], e, Mine(h))
  BY <1>1, <1>2, <1>3 DEF Known, Engines, Quiet, Holds, OwnerAs, Pending
<1> QED BY <1>2, <1>4, <1>5, <1>6, QuietStep

LEMMA SuspendQuiet ==
  ASSUME EffectInv, NEW h \in Handles, Suspend(h)
  PROVE  EffectInv'
<1> DEFINE e == eng'[h]
<1>1. Known(h)
  BY KnownHolds
<1>2. e = [eng[h] EXCEPT !.state = "suspended"] /\ eng' = [eng EXCEPT ![h] = e] /\ UNCHANGED <<rec, ran, known, lost>>
  BY <1>1 DEF Known, Suspend
<1>3. e \in Engines
  <2> HIDE DEF e
  <2> QED BY <1>1, <1>2 DEF Known, Engines, Statuses
<1>4. Fit(e)
  BY <1>1 DEF Known, Engines, Fit, Suspend, InProcess, Inert
<1>5. Quiet(eng[h], e, Mine(h))
  BY <1>1 DEF Known, Engines, Fit, Quiet, Holds, OwnerAs, Pending, Mine, Suspend, InProcess, Inert
<1> QED BY <1>2, <1>3, <1>4, <1>5, QuietStep

LEMMA ResumeQuiet ==
  ASSUME EffectInv, NEW h \in Handles, Resume(h)
  PROVE  EffectInv'
<1> DEFINE e == eng'[h]
<1>1. Known(h)
  BY KnownHolds
<1>2. e = [eng[h] EXCEPT !.state = "running", !.pc = Signal(eng[h].pc)] /\ eng' = [eng EXCEPT ![h] = e] /\ UNCHANGED <<rec, ran, known, lost>>
  BY <1>1 DEF Known, Resume
<1>3. e \in Engines
  <2>1. PICK pc \in Unstarted \cup InLoop \cup Leaving \cup Spent : pc = Signal(eng[h].pc)
    BY <1>1, SignalTyped DEF Known
  <2> HIDE DEF e
  <2> QED BY <1>1, <1>2, <2>1 DEF Known, Engines, Statuses
<1>4. Fit(e)
  BY <1>1 DEF Known, Engines, Fit, Resume, InProcess, Inert, Signal
<1>5. Quiet(eng[h], e, Mine(h))
  BY <1>1 DEF Known, Engines, Fit, Quiet, Holds, OwnerAs, Pending, Mine, Resume, InProcess, Inert, Signal
<1> QED BY <1>2, <1>3, <1>4, <1>5, QuietStep

LEMMA DetachQuiet ==
  ASSUME EffectInv, NEW h \in Handles, Detach(h)
  PROVE  EffectInv'
<1> DEFINE e == eng'[h]
<1>1. Known(h)
  BY KnownHolds
<1>2. e = [eng[h] EXCEPT !.detachWanted = TRUE, !.pc = Signal(eng[h].pc)] /\ eng' = [eng EXCEPT ![h] = e] /\ UNCHANGED <<rec, ran, known, lost>>
  BY <1>1 DEF Known, Detach
<1>3. e \in Engines
  <2>1. PICK pc \in Unstarted \cup InLoop \cup Leaving \cup Spent : pc = Signal(eng[h].pc)
    BY <1>1, SignalTyped DEF Known
  <2> HIDE DEF e
  <2> QED BY <1>1, <1>2, <2>1 DEF Known, Engines, Statuses
<1>4. Fit(e)
  BY <1>1 DEF Known, Engines, Fit, Detach, InProcess, Inert, Signal
<1>5. Quiet(eng[h], e, Mine(h))
  BY <1>1 DEF Known, Engines, Fit, Quiet, Holds, OwnerAs, Pending, Mine, Detach, InProcess, Inert, Signal
<1> QED BY <1>2, <1>3, <1>4, <1>5, QuietStep

LEMMA HarvestQuiet ==
  ASSUME EffectInv, NEW h \in Handles, Harvest(h)
  PROVE  EffectInv'
<1> DEFINE e == eng'[h]
<1>1. Known(h)
  BY KnownHolds
<1>2. eng' = [eng EXCEPT ![h] = e] /\ UNCHANGED <<rec, ran, known, lost>>
  BY <1>1 DEF Known, Harvest
<1>3. \/ e = [eng[h] EXCEPT !.pc = "exiting", !.err = FALSE, !.output = TRUE]
      \/ e = [eng[h] EXCEPT !.pc = "exiting", !.err = TRUE]
  BY <1>1 DEF Known, Engines, Harvest, Exits
<1>4. eng[h] \in Engines /\ eng[h].pc = "harvesting"
  BY <1>1 DEF Known, Harvest
<1> HIDE DEF e
<1>5. CASE e = [eng[h] EXCEPT !.pc = "exiting", !.err = FALSE, !.output = TRUE]
  <2>1. e \in Engines
    BY <1>4, <1>5 DEF Engines, Statuses
  <2>2. Fit(e)
    BY <1>1, <1>4, <1>5 DEF Known, Engines, Fit
  <2>3. Quiet(eng[h], e, Mine(h))
    BY <1>1, <1>4, <1>5 DEF Known, Engines, Fit, Quiet, Holds, OwnerAs, Pending
  <2> QED BY <1>2, <2>1, <2>2, <2>3, QuietStep
<1>6. CASE e = [eng[h] EXCEPT !.pc = "exiting", !.err = TRUE]
  <2>1. e \in Engines
    BY <1>4, <1>6 DEF Engines, Statuses
  <2>2. Fit(e)
    BY <1>1, <1>4, <1>6 DEF Known, Engines, Fit
  <2>3. Quiet(eng[h], e, Mine(h))
    BY <1>1, <1>4, <1>6 DEF Known, Engines, Fit, Quiet, Holds, OwnerAs, Pending
  <2> QED BY <1>2, <2>1, <2>2, <2>3, QuietStep
<1> QED BY <1>3, <1>5, <1>6

LEMMA FinishQuiet ==
  ASSUME EffectInv, NEW h \in Handles, Finish(h)
  PROVE  EffectInv'
<1> DEFINE e == eng'[h]
<1>1. Known(h)
  BY KnownHolds
<1>2. eng' = [eng EXCEPT ![h] = e] /\ UNCHANGED <<rec, ran, known, lost>>
  BY <1>1 DEF Known, Finish
<1>3. \/ eng[h].detachDone /\ e = [eng[h] EXCEPT !.pc = "teardown"]
      \/ /\ ~eng[h].detachDone /\ eng[h].state = "killed"
         /\ e = [eng[h] EXCEPT !.pc = "stamping", !.state = "killed"]
      \/ ~eng[h].detachDone /\ eng[h].state # "killed" /\ e = [eng[h] EXCEPT !.pc = "stamping", !.state = "failed"]
      \/ ~eng[h].detachDone /\ eng[h].state # "killed" /\ e = [eng[h] EXCEPT !.pc = "stamping", !.state = "done"]
  BY <1>1 DEF Known, Engines, Finish
<1>4. eng[h] \in Engines /\ eng[h].pc = "exiting"
  BY <1>1 DEF Known, Finish
<1> HIDE DEF e
<1>5. CASE eng[h].detachDone /\ e = [eng[h] EXCEPT !.pc = "teardown"]
  <2>1. e \in Engines
    BY <1>4, <1>5 DEF Engines, Statuses
  <2>2. Fit(e)
    BY <1>1, <1>4, <1>5 DEF Known, Engines, Fit
  <2>3. Quiet(eng[h], e, Mine(h))
    BY <1>1, <1>4, <1>5 DEF Known, Engines, Fit, Quiet, Holds, OwnerAs, Pending
  <2> QED BY <1>2, <2>1, <2>2, <2>3, QuietStep
<1>6. CASE /\ ~eng[h].detachDone /\ eng[h].state = "killed"
           /\ e = [eng[h] EXCEPT !.pc = "stamping", !.state = "killed"]
  <2>1. e \in Engines
    BY <1>4, <1>6 DEF Engines, Statuses
  <2>2. Fit(e)
    BY <1>1, <1>4, <1>6 DEF Known, Engines, Fit
  <2>3. Quiet(eng[h], e, Mine(h))
    BY <1>1, <1>4, <1>6 DEF Known, Engines, Fit, Quiet, Holds, OwnerAs, Pending
  <2> QED BY <1>2, <2>1, <2>2, <2>3, QuietStep
<1>7. CASE ~eng[h].detachDone /\ eng[h].state # "killed" /\ e = [eng[h] EXCEPT !.pc = "stamping", !.state = "failed"]
  <2>1. e \in Engines
    BY <1>4, <1>7 DEF Engines, Statuses
  <2>2. Fit(e)
    BY <1>1, <1>4, <1>7 DEF Known, Engines, Fit
  <2>3. Quiet(eng[h], e, Mine(h))
    BY <1>1, <1>4, <1>7 DEF Known, Engines, Fit, Quiet, Holds, OwnerAs, Pending
  <2> QED BY <1>2, <2>1, <2>2, <2>3, QuietStep
<1>8. CASE ~eng[h].detachDone /\ eng[h].state # "killed" /\ e = [eng[h] EXCEPT !.pc = "stamping", !.state = "done"]
  <2>1. e \in Engines
    BY <1>4, <1>8 DEF Engines, Statuses
  <2>2. Fit(e)
    BY <1>1, <1>4, <1>8 DEF Known, Engines, Fit
  <2>3. Quiet(eng[h], e, Mine(h))
    BY <1>1, <1>4, <1>8 DEF Known, Engines, Fit, Quiet, Holds, OwnerAs, Pending
  <2> QED BY <1>2, <2>1, <2>2, <2>3, QuietStep
<1> QED BY <1>3, <1>5, <1>6, <1>7, <1>8

LEMMA ParkQuiet ==
  ASSUME EffectInv, NEW h \in Handles, Park(h)
  PROVE  EffectInv'
<1> DEFINE e == eng'[h]
<1>1. Known(h)
  BY KnownHolds
<1>2. eng' = [eng EXCEPT ![h] = e] /\ UNCHANGED <<rec, ran, known, lost>>
  BY <1>1 DEF Known, Park
<1>3. \/ eng[h].state = "killed" /\ e = [eng[h] EXCEPT !.pc = "exiting", !.err = TRUE]
      \/ eng[h].state = "suspended" /\ e = [eng[h] EXCEPT !.detachDone = TRUE, !.pc = "exiting", !.err = TRUE]
      \/ eng[h].state # "killed" /\ e = [eng[h] EXCEPT !.pc = "harvesting"]
      \/ eng[h].next # None /\ e = [eng[h] EXCEPT !.pc = "entering"]
      \/ e = [eng[h] EXCEPT !.pc = "parked"]
  BY <1>1 DEF Known, Engines, Fit, Park, Decide, Exits
<1>4. eng[h] \in Engines /\ eng[h].pc = "parking"
  BY <1>1 DEF Known, Park
<1> HIDE DEF e
<1>5. CASE eng[h].state = "killed" /\ e = [eng[h] EXCEPT !.pc = "exiting", !.err = TRUE]
  <2>1. e \in Engines
    BY <1>4, <1>5 DEF Engines, Statuses
  <2>2. Fit(e)
    BY <1>1, <1>4, <1>5 DEF Known, Engines, Fit
  <2>3. Quiet(eng[h], e, Mine(h))
    BY <1>1, <1>4, <1>5 DEF Known, Engines, Fit, Quiet, Holds, OwnerAs, Pending
  <2> QED BY <1>2, <2>1, <2>2, <2>3, QuietStep
<1>6. CASE eng[h].state = "suspended" /\ e = [eng[h] EXCEPT !.detachDone = TRUE, !.pc = "exiting", !.err = TRUE]
  <2>1. e \in Engines
    BY <1>4, <1>6 DEF Engines, Statuses
  <2>2. Fit(e)
    BY <1>1, <1>4, <1>6 DEF Known, Engines, Fit
  <2>3. Quiet(eng[h], e, Mine(h))
    BY <1>1, <1>4, <1>6 DEF Known, Engines, Fit, Quiet, Holds, OwnerAs, Pending
  <2> QED BY <1>2, <2>1, <2>2, <2>3, QuietStep
<1>7. CASE eng[h].state # "killed" /\ e = [eng[h] EXCEPT !.pc = "harvesting"]
  <2>1. e \in Engines
    BY <1>4, <1>7 DEF Engines, Statuses
  <2>2. Fit(e)
    BY <1>1, <1>4, <1>7 DEF Known, Engines, Fit
  <2>3. Quiet(eng[h], e, Mine(h))
    BY <1>1, <1>4, <1>7 DEF Known, Engines, Fit, Quiet, Holds, OwnerAs, Pending
  <2> QED BY <1>2, <2>1, <2>2, <2>3, QuietStep
<1>8. CASE eng[h].next # None /\ e = [eng[h] EXCEPT !.pc = "entering"]
  <2>1. e \in Engines
    BY <1>4, <1>8 DEF Engines, Statuses
  <2>2. Fit(e)
    BY <1>1, <1>4, <1>8 DEF Known, Engines, Fit
  <2>3. Quiet(eng[h], e, Mine(h))
    BY <1>1, <1>4, <1>8 DEF Known, Engines, Fit, Quiet, Holds, OwnerAs, Pending
  <2> QED BY <1>2, <2>1, <2>2, <2>3, QuietStep
<1>9. CASE e = [eng[h] EXCEPT !.pc = "parked"]
  <2>1. e \in Engines
    BY <1>4, <1>9 DEF Engines, Statuses
  <2>2. Fit(e)
    BY <1>1, <1>4, <1>9 DEF Known, Engines, Fit
  <2>3. Quiet(eng[h], e, Mine(h))
    BY <1>1, <1>4, <1>9 DEF Known, Engines, Fit, Quiet, Holds, OwnerAs, Pending
  <2> QED BY <1>2, <2>1, <2>2, <2>3, QuietStep
<1> QED BY <1>3, <1>5, <1>6, <1>7, <1>8, <1>9

LEMMA KillQuiet ==
  ASSUME EffectInv, NEW h \in Handles, Kill(h)
  PROVE  EffectInv'
<1> DEFINE e == eng'[h]
<1>1. Known(h)
  BY KnownHolds
<1>2. eng' = [eng EXCEPT ![h] = e] /\ UNCHANGED <<rec, ran, known, lost>>
  BY <1>1 DEF Known, Kill
<1>3. \/ eng[h].pc = "parked" /\ e = [eng[h] EXCEPT !.state = "killed", !.pc = "parking"]
      \/ eng[h].pc # "parked" /\ e = [eng[h] EXCEPT !.state = "killed"]
  BY <1>1 DEF Known, Engines, Kill, Signal
<1>4. eng[h] \in Engines /\ ~eng[h].detachDone /\ eng[h].pc # "unborn" /\ eng[h].state # "killed" /\ eng[h].state \in Live \cup {"notStarted"}
  BY <1>1 DEF Known, Kill, InProcess
<1> HIDE DEF e
<1>5. CASE eng[h].pc = "parked" /\ e = [eng[h] EXCEPT !.state = "killed", !.pc = "parking"]
  <2>1. e \in Engines
    BY <1>4, <1>5 DEF Engines, Statuses
  <2>2. Fit(e)
    BY <1>1, <1>4, <1>5 DEF Known, Engines, Fit
  <2>3. Quiet(eng[h], e, Mine(h))
    BY <1>1, <1>4, <1>5 DEF Known, Engines, Fit, Quiet, Holds, OwnerAs, Pending
  <2> QED BY <1>2, <2>1, <2>2, <2>3, QuietStep
<1>6. CASE eng[h].pc # "parked" /\ e = [eng[h] EXCEPT !.state = "killed"]
  <2>1. e \in Engines
    BY <1>4, <1>6 DEF Engines, Statuses
  <2>2. Fit(e)
    BY <1>1, <1>4, <1>6 DEF Known, Engines, Fit
  <2>3. Quiet(eng[h], e, Mine(h))
    BY <1>1, <1>4, <1>6 DEF Known, Engines, Fit, Quiet, Holds, OwnerAs, Pending
  <2> QED BY <1>2, <2>1, <2>2, <2>3, QuietStep
<1> QED BY <1>3, <1>5, <1>6

LEMMA SealQuiet ==
  ASSUME EffectInv, NEW h \in Handles, Seal(h)
  PROVE  EffectInv'
<1> DEFINE e == eng'[h]
<1>1. Known(h)
  BY KnownHolds
<1>2. eng' = [eng EXCEPT ![h] = e] /\ UNCHANGED <<rec, ran, known, lost>>
  BY <1>1 DEF Known, Seal
<1>3. \/ e = [eng[h] EXCEPT !.sealed = TRUE]
  BY <1>1 DEF Known, Engines, Seal
<1>4. eng[h] \in Engines /\ Mine(h) /\ eng[h].pc # "unborn"
  BY <1>1 DEF Known, Seal, Mine
<1> HIDE DEF e
<1>5. CASE e = [eng[h] EXCEPT !.sealed = TRUE]
  <2>1. e \in Engines
    BY <1>4, <1>5 DEF Engines, Statuses
  <2>2. Fit(e)
    BY <1>1, <1>4, <1>5 DEF Known, Engines, Fit
  <2>3. Quiet(eng[h], e, Mine(h))
    BY <1>1, <1>4, <1>5 DEF Known, Engines, Fit, Quiet, Holds, OwnerAs, Pending
  <2> QED BY <1>2, <2>1, <2>2, <2>3, QuietStep
<1> QED BY <1>3, <1>5

LEMMA UnsealQuiet ==
  ASSUME EffectInv, NEW h \in Handles, Unseal(h)
  PROVE  EffectInv'
<1> DEFINE e == eng'[h]
<1>1. Known(h)
  BY KnownHolds
<1>2. eng' = [eng EXCEPT ![h] = e] /\ UNCHANGED <<rec, ran, known, lost>>
  BY <1>1 DEF Known, Unseal
<1>3. \/ e = [eng[h] EXCEPT !.sealed = FALSE]
  BY <1>1 DEF Known, Engines, Unseal
<1>4. eng[h] \in Engines /\ Mine(h) /\ eng[h].pc # "unborn"
  BY <1>1 DEF Known, Unseal, Mine
<1> HIDE DEF e
<1>5. CASE e = [eng[h] EXCEPT !.sealed = FALSE]
  <2>1. e \in Engines
    BY <1>4, <1>5 DEF Engines, Statuses
  <2>2. Fit(e)
    BY <1>1, <1>4, <1>5 DEF Known, Engines, Fit
  <2>3. Quiet(eng[h], e, Mine(h))
    BY <1>1, <1>4, <1>5 DEF Known, Engines, Fit, Quiet, Holds, OwnerAs, Pending
  <2> QED BY <1>2, <2>1, <2>2, <2>3, QuietStep
<1> QED BY <1>3, <1>5

LEMMA BoundaryQuiet ==
  ASSUME EffectInv, NEW h \in Handles, Boundary(h)
  PROVE  EffectInv'
<1> DEFINE e == eng'[h]
<1> DEFINE b == [eng[h] EXCEPT !.current = None]
<1>1. Known(h)
  BY KnownHolds
<1>2. eng' = [eng EXCEPT ![h] = e] /\ UNCHANGED <<rec, ran, known, lost>>
  BY <1>1 DEF Known, Boundary
<1>3. \/ b.state = "killed" /\ e = [b EXCEPT !.pc = "exiting", !.err = TRUE]
      \/ b.state = "suspended" /\ e = [b EXCEPT !.detachDone = TRUE, !.pc = "exiting", !.err = TRUE]
      \/ b.state # "killed" /\ e = [b EXCEPT !.pc = "harvesting"]
      \/ b.next # None /\ e = [b EXCEPT !.pc = "entering"]
      \/ b.next # None /\ e = [b EXCEPT !.pc = "suspending"]
  <2>1. e = IF b.next # None /\ b.state = "suspended"
            THEN [b EXCEPT !.pc = "suspending"] ELSE Decide(b)
    BY <1>1 DEF Known, Boundary
  <2>2. CASE b.next # None /\ b.state = "suspended"
    BY <2>1, <2>2
  <2>3. CASE ~(b.next # None /\ b.state = "suspended")
    <3>1. e = Decide(b)
      BY <2>1, <2>3
    <3> HIDE DEF e, b
    <3> QED BY <2>3, <3>1 DEF Decide, Exits
  <2> QED BY <2>2, <2>3
<1>4. eng[h] \in Engines /\ eng[h].pc = "boundary"
  BY <1>1 DEF Known, Boundary
<1> HIDE DEF e
<1>5. CASE b.state = "killed" /\ e = [b EXCEPT !.pc = "exiting", !.err = TRUE]
  <2>1. e \in Engines
    BY <1>4, <1>5 DEF Engines, Statuses
  <2>2. Fit(e)
    BY <1>1, <1>4, <1>5 DEF Known, Engines, Fit
  <2>3. Quiet(eng[h], e, Mine(h))
    BY <1>1, <1>4, <1>5 DEF Known, Engines, Fit, Quiet, Holds, OwnerAs, Pending
  <2> QED BY <1>2, <2>1, <2>2, <2>3, QuietStep
<1>6. CASE b.state = "suspended" /\ e = [b EXCEPT !.detachDone = TRUE, !.pc = "exiting", !.err = TRUE]
  <2>1. e \in Engines
    BY <1>4, <1>6 DEF Engines, Statuses
  <2>2. Fit(e)
    BY <1>1, <1>4, <1>6 DEF Known, Engines, Fit
  <2>3. Quiet(eng[h], e, Mine(h))
    BY <1>1, <1>4, <1>6 DEF Known, Engines, Fit, Quiet, Holds, OwnerAs, Pending
  <2> QED BY <1>2, <2>1, <2>2, <2>3, QuietStep
<1>7. CASE b.state # "killed" /\ e = [b EXCEPT !.pc = "harvesting"]
  <2>1. e \in Engines
    BY <1>4, <1>7 DEF Engines, Statuses
  <2>2. Fit(e)
    BY <1>1, <1>4, <1>7 DEF Known, Engines, Fit
  <2>3. Quiet(eng[h], e, Mine(h))
    BY <1>1, <1>4, <1>7 DEF Known, Engines, Fit, Quiet, Holds, OwnerAs, Pending
  <2> QED BY <1>2, <2>1, <2>2, <2>3, QuietStep
<1>8. CASE b.next # None /\ e = [b EXCEPT !.pc = "entering"]
  <2>1. e \in Engines
    BY <1>4, <1>8 DEF Engines, Statuses
  <2>2. Fit(e)
    BY <1>1, <1>4, <1>8 DEF Known, Engines, Fit
  <2>3. Quiet(eng[h], e, Mine(h))
    BY <1>1, <1>4, <1>8 DEF Known, Engines, Fit, Quiet, Holds, OwnerAs, Pending
  <2> QED BY <1>2, <2>1, <2>2, <2>3, QuietStep
<1>9. CASE b.next # None /\ e = [b EXCEPT !.pc = "suspending"]
  <2>1. e \in Engines
    BY <1>4, <1>9 DEF Engines, Statuses
  <2>2. Fit(e)
    BY <1>1, <1>4, <1>9 DEF Known, Engines, Fit
  <2>3. Quiet(eng[h], e, Mine(h))
    BY <1>1, <1>4, <1>9 DEF Known, Engines, Fit, Quiet, Holds, OwnerAs, Pending
  <2> QED BY <1>2, <2>1, <2>2, <2>3, QuietStep
<1> QED BY <1>3, <1>5, <1>6, <1>7, <1>8, <1>9

LEMMA HandlerReturnsQuiet ==
  ASSUME EffectInv, NEW h \in Handles, NEW next \in States \cup {None}, HandlerReturns(h, next)
  PROVE  EffectInv'
<1> DEFINE e == eng'[h]
<1>1. Known(h)
  BY KnownHolds
<1>2. /\ e = [eng[h] EXCEPT !.pc = "boundary", !.next = next]
      /\ eng' = [eng EXCEPT ![h] = e] /\ UNCHANGED <<rec, ran, known, lost>>
  BY <1>1 DEF Known, HandlerReturns
<1>3. eng[h].pc = "handling"
  BY <1>1 DEF Known, HandlerReturns
<1> HIDE DEF e
<1>4. e \in Engines
  BY <1>1, <1>2 DEF Known, Engines, Statuses
<1>5. Fit(e)
  BY <1>1, <1>2, <1>3 DEF Known, Engines, Fit
<1>6. Quiet(eng[h], e, Mine(h))
  BY <1>1, <1>2, <1>3 DEF Known, Engines, Quiet, Holds, OwnerAs, Pending
<1> QED BY <1>2, <1>4, <1>5, <1>6, QuietStep

-----------------------------------------------------------------------------
(* The steps that write the record, forgo it, or run an effect.            *)

\* A checkpoint that reaches the store: its log is the holder's, or an older one
\* of the holder's, and the rest is accounted for.
LEMMA SaveHolds ==
  ASSUME EffectInv, NEW h \in Handles, NEW e \in Engines, eng' = [eng EXCEPT ![h] = e],
         UNCHANGED <<ran, known>>, NEW status \in {"running", "suspended"},
         NEW state \in States \cup {None}, NEW log \in SUBSET Keys, log \subseteq eng[h].effects,
         SaveCheckpoint(TaskOf[h], status, state, log),
         Holder(h), Fit(e), e.effects = eng[h].effects,
         eng[h].pc # "unborn", e.pc # "unborn",
         log = eng[h].effects \/ Pending(e) = Pending(eng[h])
  PROVE  EffectInv'
<1> DEFINE t == TaskOf[h]
<1>1. Known(h)
  BY KnownHolds
<1>2. PICK q \in [Keys -> 0 .. MaxEffects] : q = ran[t]
  BY <1>1 DEF Known
<1>3. PICK d \in Records : d = rec[t]
  BY <1>1 DEF Known, SaveCheckpoint
<1>4. PICK r : r = [d EXCEPT !.status = status, !.state = state, !.log = log]
  OBVIOUS
<1>5. r \in Records /\ r.log = log
  BY <1>4 DEF Records, Statuses
<1>6. PICK l : l = (lost[t] \cup d.log) \ log
  OBVIOUS
<1>7. l \in SUBSET Keys /\ lost[t] \cup d.log \subseteq l \cup log
  BY <1>1, <1>6 DEF Known, Records
<1>8. /\ rec' = [rec EXCEPT ![t] = r] /\ ran' = [ran EXCEPT ![t] = q]
      /\ lost' = [lost EXCEPT ![t] = l]
  BY <1>1, <1>2, <1>3, <1>4, <1>6 DEF Known, SaveCheckpoint
<1>9. Had(q) \subseteq e.effects \cup l
  BY <1>1, <1>2, <1>7 DEF Known
<1>10. Had(q) \subseteq r.log \cup l \cup Pending(e)
  <2>1. CASE log = eng[h].effects
    BY <1>1, <1>2, <1>5, <1>7, <2>1 DEF Known
  <2>2. CASE Pending(e) = Pending(eng[h])
    <3>1. \A g \in Handles : TaskOf[g] = t /\ g # h => Pending(eng[g]) = {}
      BY DEF EffectInv, OneHolder, Holder, Holds, OwnerAs, Pending
    <3>2. Had(q) \subseteq d.log \cup lost[t] \cup Pending(eng[h])
      BY <1>1, <1>2, <1>3, <3>1, NoneRecordAssumption DEF EffectInv, Kept, Known
    <3> QED BY <1>5, <1>7, <2>2, <3>2
  <2> QED BY <2>1, <2>2
<1> QED BY <1>5, <1>7, <1>8, <1>9, <1>10, HolderStep

\* A checkpoint of an effect that is refused.
LEMMA ForgoneHolds ==
  ASSUME EffectInv, NEW h \in Handles, NEW e \in Engines, eng' = [eng EXCEPT ![h] = e],
         UNCHANGED <<rec, ran, known>>, Forgone(h), Holder(h), Fit(e),
         e.effects = eng[h].effects, eng[h].pc # "unborn", e.pc # "unborn"
  PROVE  EffectInv'
<1> DEFINE t == TaskOf[h]
<1>1. Known(h)
  BY KnownHolds
<1>2. PICK q \in [Keys -> 0 .. MaxEffects] : q = ran[t]
  BY <1>1 DEF Known
<1>3. PICK r \in Records \cup {None} : r = rec[t]
  BY <1>1 DEF Known
<1>4. PICK l : l = lost[t] \cup (eng[h].effects \ Log(t))
  OBVIOUS
<1>5. l \in SUBSET Keys
  BY <1>1, <1>4 DEF Known, Engines
<1>6. /\ rec' = [rec EXCEPT ![t] = r] /\ ran' = [ran EXCEPT ![t] = q]
      /\ lost' = [lost EXCEPT ![t] = l]
  BY <1>1, <1>2, <1>3, <1>4 DEF Known, Forgone
<1>7. Had(q) \subseteq e.effects \cup l
  BY <1>1, <1>2, <1>4 DEF Known
<1>8. r # None => Had(q) \subseteq r.log \cup l \cup Pending(e)
  BY <1>1, <1>2, <1>3, <1>4 DEF Known, Log
<1> QED BY <1>5, <1>6, <1>7, <1>8, HolderStep

LEMMA SaveSuspendedHolds ==
  ASSUME EffectInv, NEW h \in Handles, SaveSuspended(h)
  PROVE  EffectInv'
<1> DEFINE e == eng'[h]
<1>1. Known(h)
  BY KnownHolds
<1>2. eng' = [eng EXCEPT ![h] = e] /\ UNCHANGED <<ran, known>>
  BY <1>1 DEF Known, SaveSuspended
<1>3. \/ /\ SaveCheckpoint(TaskOf[h], "suspended", eng[h].next, eng[h].effects)
         /\ e = [eng[h] EXCEPT !.pc = "parking"]
      \/ /\ UNCHANGED <<rec, lost>>
         /\ e = [eng[h] EXCEPT !.pc = "exiting", !.err = TRUE]
  BY <1>1 DEF Known, SaveSuspended, CheckpointFails, WriteFails, Exits, Snapshot
<1>4. eng[h] \in Engines /\ eng[h].pc = "suspending" /\ Holder(h)
  BY <1>1 DEF Known, SaveSuspended, Holder, Holds, OwnerAs
<1> HIDE DEF e
<1>5. CASE /\ SaveCheckpoint(TaskOf[h], "suspended", eng[h].next, eng[h].effects)
           /\ e = [eng[h] EXCEPT !.pc = "parking"]
  <2>1. e \in Engines /\ e.effects = eng[h].effects /\ e.pc = "parking"
    BY <1>4, <1>5 DEF Engines, Statuses
  <2>2. Fit(e)
    BY <1>1, <1>4, <1>5 DEF Known, Engines, Fit
  <2>3. eng[h].next \in States \cup {None} /\ eng[h].effects \in SUBSET Keys
    BY <1>4 DEF Engines
  <2> QED BY <1>2, <1>4, <1>5, <2>1, <2>2, <2>3, SaveHolds
<1>6. CASE /\ UNCHANGED <<rec, lost>>
           /\ e = [eng[h] EXCEPT !.pc = "exiting", !.err = TRUE]
  <2>1. e \in Engines
    BY <1>4, <1>6 DEF Engines, Statuses
  <2>2. Fit(e)
    BY <1>1, <1>4, <1>6 DEF Known, Engines, Fit
  <2>3. Quiet(eng[h], e, Mine(h))
    BY <1>1, <1>4, <1>6 DEF Known, Engines, Fit, Quiet, Holds, OwnerAs, Pending
  <2> QED BY <1>2, <1>6, <2>1, <2>2, <2>3, QuietStep
<1> QED BY <1>3, <1>5, <1>6

LEMMA SaveRunningHolds ==
  ASSUME EffectInv, NEW h \in Handles, SaveRunning(h)
  PROVE  EffectInv'
<1> DEFINE e == eng'[h]
<1>1. Known(h)
  BY KnownHolds
<1>2. eng' = [eng EXCEPT ![h] = e] /\ UNCHANGED <<ran, known>>
  BY <1>1 DEF Known, SaveRunning
<1>3. \/ /\ SaveCheckpoint(TaskOf[h], "running", eng[h].next, eng[h].effects)
         /\ e = [eng[h] EXCEPT !.pc = "entered"]
      \/ /\ UNCHANGED <<rec, lost>>
         /\ e = [eng[h] EXCEPT !.pc = "exiting", !.err = TRUE]
  BY <1>1 DEF Known, SaveRunning, CheckpointFails, WriteFails, Exits, Snapshot
<1>4. eng[h] \in Engines /\ eng[h].pc = "entering" /\ Holder(h)
  BY <1>1 DEF Known, SaveRunning, Holder, Holds, OwnerAs
<1> HIDE DEF e
<1>5. CASE /\ SaveCheckpoint(TaskOf[h], "running", eng[h].next, eng[h].effects)
           /\ e = [eng[h] EXCEPT !.pc = "entered"]
  <2>1. e \in Engines /\ e.effects = eng[h].effects /\ e.pc = "entered"
    BY <1>4, <1>5 DEF Engines, Statuses
  <2>2. Fit(e)
    BY <1>1, <1>4, <1>5 DEF Known, Engines, Fit
  <2>3. eng[h].next \in States \cup {None} /\ eng[h].effects \in SUBSET Keys
    BY <1>4 DEF Engines
  <2> QED BY <1>2, <1>4, <1>5, <2>1, <2>2, <2>3, SaveHolds
<1>6. CASE /\ UNCHANGED <<rec, lost>>
           /\ e = [eng[h] EXCEPT !.pc = "exiting", !.err = TRUE]
  <2>1. e \in Engines
    BY <1>4, <1>6 DEF Engines, Statuses
  <2>2. Fit(e)
    BY <1>1, <1>4, <1>6 DEF Known, Engines, Fit
  <2>3. Quiet(eng[h], e, Mine(h))
    BY <1>1, <1>4, <1>6 DEF Known, Engines, Fit, Quiet, Holds, OwnerAs, Pending
  <2> QED BY <1>2, <1>6, <2>1, <2>2, <2>3, QuietStep
<1> QED BY <1>3, <1>5, <1>6

\* midCheckpoint finds no state executing: the effect stays in memory.
LEMMA MidCheckHolds ==
  ASSUME EffectInv, NEW h \in Handles, MidCheck(h)
  PROVE  EffectInv'
<1> DEFINE e == eng'[h]
<1>1. Known(h)
  BY KnownHolds
<1>2. eng' = [eng EXCEPT ![h] = e] /\ UNCHANGED <<rec, ran, known>>
  BY <1>1 DEF Known, MidCheck
<1>3. \/ /\ e = [eng[h] EXCEPT !.pc = "midwrite"]
         /\ UNCHANGED lost
      \/ /\ e = [eng[h] EXCEPT !.pc = "handling"]
         /\ Forgone(h)
  BY <1>1 DEF Known, MidCheck
<1>4. eng[h] \in Engines /\ eng[h].pc = "midcheck" /\ Holder(h)
  BY <1>1 DEF Known, MidCheck, Holder, Holds, OwnerAs
<1> HIDE DEF e
<1>5. CASE e = [eng[h] EXCEPT !.pc = "midwrite"] /\ UNCHANGED lost
  <2>1. e \in Engines
    BY <1>4, <1>5 DEF Engines, Statuses
  <2>2. Fit(e)
    BY <1>1, <1>4, <1>5 DEF Known, Engines, Fit
  <2>3. Quiet(eng[h], e, Mine(h))
    BY <1>1, <1>4, <1>5 DEF Known, Engines, Fit, Quiet, Holds, OwnerAs, Pending
  <2> QED BY <1>2, <1>5, <2>1, <2>2, <2>3, QuietStep
<1>6. CASE e = [eng[h] EXCEPT !.pc = "handling"] /\ Forgone(h)
  <2>1. e \in Engines /\ e.effects = eng[h].effects /\ e.pc = "handling"
    BY <1>4, <1>6 DEF Engines, Statuses
  <2>2. Fit(e)
    BY <1>1, <1>4, <1>6 DEF Known, Engines, Fit
  <2> QED BY <1>2, <1>4, <1>6, <2>1, <2>2, ForgoneHolds
<1> QED BY <1>3, <1>5, <1>6

LEMMA MidWriteHolds ==
  ASSUME EffectInv, NEW h \in Handles, MidWrite(h)
  PROVE  EffectInv'
<1> DEFINE e == eng'[h]
<1>1. Known(h)
  BY KnownHolds
<1>2. /\ eng' = [eng EXCEPT ![h] = e] /\ UNCHANGED <<ran, known>>
      /\ e = [eng[h] EXCEPT !.pc = "handling"]
  BY <1>1 DEF Known, MidWrite
<1>3. \/ SaveCheckpoint(TaskOf[h], "running", eng[h].current, eng[h].effects)
      \/ UNCHANGED rec /\ Forgone(h)
  BY DEF MidWrite, CheckpointFails, WriteFails, Snapshot
<1>4. eng[h] \in Engines /\ eng[h].pc = "midwrite" /\ Holder(h)
  BY <1>1 DEF Known, MidWrite, Holder, Holds, OwnerAs
<1> HIDE DEF e
<1>5. e \in Engines /\ e.effects = eng[h].effects /\ e.pc = "handling"
  BY <1>2, <1>4 DEF Engines, Statuses
<1>6. Fit(e)
  BY <1>1, <1>2, <1>4 DEF Known, Engines, Fit
<1>7. eng[h].current \in States \cup {None} /\ eng[h].effects \in SUBSET Keys
  BY <1>4 DEF Engines
<1> QED BY <1>2, <1>3, <1>4, <1>5, <1>6, <1>7, SaveHolds, ForgoneHolds

\* A snapshot may be older than the log it overwrites.
LEMMA StrayWriteHolds ==
  ASSUME EffectInv, NEW h \in Handles, StrayWrite(h)
  PROVE  EffectInv'
<1> DEFINE e == eng'[h]
<1>1. Known(h)
  BY KnownHolds
<1>2. /\ eng' = [eng EXCEPT ![h] = e] /\ UNCHANGED <<ran, known>>
      /\ e = [eng[h] EXCEPT !.stray = None, !.taken = FALSE, !.blob = {}]
  BY <1>1 DEF Known, StrayWrite
<1>3. \/ SaveCheckpoint(TaskOf[h], "running", eng[h].stray, eng[h].blob)
      \/ UNCHANGED <<rec, lost>>
  BY DEF StrayWrite, CheckpointFails, WriteFails
<1>4. /\ eng[h] \in Engines /\ eng[h].stray # None /\ Holder(h)
      /\ eng[h].pc # "unborn" /\ eng[h].blob \subseteq eng[h].effects
  BY <1>1 DEF Known, Fit, NewEngine, StrayWrite, Holder, Holds
<1> HIDE DEF e
<1>5. /\ e \in Engines /\ e.effects = eng[h].effects /\ e.pc = eng[h].pc
      /\ Pending(e) = Pending(eng[h])
  BY <1>2, <1>4 DEF Engines, Pending
<1>6. Fit(e)
  BY <1>1, <1>2, <1>4 DEF Known, Engines, Fit
<1>7. eng[h].stray \in States \cup {None} /\ eng[h].blob \in SUBSET Keys
  BY <1>4 DEF Engines
<1>8. CASE SaveCheckpoint(TaskOf[h], "running", eng[h].stray, eng[h].blob)
  BY <1>2, <1>4, <1>5, <1>6, <1>7, <1>8, SaveHolds
<1>9. CASE UNCHANGED <<rec, lost>>
  <2>1. Quiet(eng[h], e, Mine(h))
    BY <1>4, <1>5 DEF Quiet, Holder
  <2> QED BY <1>2, <1>5, <1>6, <1>9, <2>1, QuietStep
<1> QED BY <1>3, <1>8, <1>9

\* A stamp leaves the log as it is.
LEMMA StampHolds ==
  ASSUME EffectInv, NEW h \in Handles, Stamp(h)
  PROVE  EffectInv'
<1> DEFINE e == eng'[h]
<1>1. Known(h)
  BY KnownHolds
<1>2. eng' = [eng EXCEPT ![h] = e] /\ UNCHANGED <<ran, known, lost>>
  BY <1>1 DEF Known, Stamp
<1>3. \/ MarkTerminal(TaskOf[h], eng[h].state, eng[h].output) /\ e = [eng[h] EXCEPT !.pc = "teardown"]
      \/ /\ UNCHANGED rec
         /\ e = [eng[h] EXCEPT !.pc = "teardown", !.stampFailed = TRUE]
  BY <1>1 DEF Known, Stamp, WriteFails
<1>4. eng[h] \in Engines /\ eng[h].pc = "stamping" /\ Holder(h)
  BY <1>1 DEF Known, Stamp, Holder, Holds, OwnerAs
<1> HIDE DEF e
<1>5. e \in Engines /\ e.pc = "teardown" /\ e.effects = eng[h].effects /\ e.blob = eng[h].blob
  <2>1. CASE e = [eng[h] EXCEPT !.pc = "teardown"]
    BY <1>4, <2>1 DEF Engines
  <2>2. CASE e = [eng[h] EXCEPT !.pc = "teardown", !.stampFailed = TRUE]
    BY <1>4, <2>2 DEF Engines
  <2> QED BY <1>3, <2>1, <2>2
<1>6. Fit(e)
  BY <1>1, <1>5 DEF Known, Fit
<1>7. CASE MarkTerminal(TaskOf[h], eng[h].state, eng[h].output)
  <2>1. PICK q \in [Keys -> 0 .. MaxEffects] : q = ran[TaskOf[h]]
    BY <1>1 DEF Known
  <2>2. PICK d \in Records : d = rec[TaskOf[h]]
    BY <1>1, <1>7 DEF Known, MarkTerminal
  <2>3. PICK outcome \in Statuses : outcome = eng[h].state
    BY <1>4 DEF Engines
  <2>4. PICK output \in BOOLEAN : output = eng[h].output
    BY <1>4 DEF Engines
  <2>5. PICK l \in SUBSET Keys : l = lost[TaskOf[h]]
    BY <1>1 DEF Known
  <2>6. PICK r : r = [d EXCEPT !.status = outcome, !.output = output]
    OBVIOUS
  <2>7. r \in Records /\ r.log = d.log
    BY <2>6 DEF Records
  <2>8. /\ rec' = [rec EXCEPT ![TaskOf[h]] = r] /\ ran' = [ran EXCEPT ![TaskOf[h]] = q]
        /\ lost' = [lost EXCEPT ![TaskOf[h]] = l]
    BY <1>1, <1>2, <1>7, <2>1, <2>2, <2>3, <2>4, <2>5, <2>6 DEF Known, MarkTerminal
  <2>9. Had(q) \subseteq e.effects \cup l
    BY <1>1, <1>4, <1>5, <2>1, <2>5 DEF Known
  <2>10. Had(q) \subseteq r.log \cup l
    <3>1. \A g \in Handles : TaskOf[g] = TaskOf[h] => Pending(eng[g]) = {}
      BY <1>4 DEF EffectInv, OneHolder, Holder, Holds, OwnerAs, Pending
    <3> QED BY <1>1, <2>1, <2>2, <2>5, <2>7, <3>1, NoneRecordAssumption DEF EffectInv, Kept, Known
  <2> QED BY <1>2, <1>4, <1>5, <1>6, <2>7, <2>8, <2>9, <2>10, HolderStep
<1>8. CASE UNCHANGED rec
  <2>1. Quiet(eng[h], e, Mine(h))
    BY <1>4, <1>5 DEF Quiet, Holds, OwnerAs, Pending
  <2> QED BY <1>2, <1>5, <1>6, <1>8, <2>1, QuietStep
<1> QED BY <1>3, <1>7, <1>8

\* An effect that runs is under way to the log, and no longer lost.
LEMMA DoHolds ==
  ASSUME EffectInv, NEW h \in Handles, NEW k \in Keys, Do(h, k)
  PROVE  EffectInv'
<1> DEFINE e == eng'[h]
<1>1. Known(h)
  BY KnownHolds
<1>2. PICK r \in Records \cup {None} : r = rec[TaskOf[h]]
  BY <1>1 DEF Known
<1>3. PICK p \in [Keys -> 0 .. MaxEffects] : p = ran[TaskOf[h]]
  BY <1>1 DEF Known
<1>4. eng[h] \in Engines /\ eng[h].pc = "handling" /\ Holder(h)
  BY <1>1 DEF Known, Do, Holder, Holds, OwnerAs
<1>5. PICK q : q = [p EXCEPT ![k] = p[k] + 1]
  OBVIOUS
<1>6. PICK l : l = lost[TaskOf[h]] \ {k}
  OBVIOUS
<1>7. /\ ran' = [ran EXCEPT ![TaskOf[h]] = q] /\ rec' = [rec EXCEPT ![TaskOf[h]] = r]
      /\ lost' = [lost EXCEPT ![TaskOf[h]] = l]
  BY <1>1, <1>2, <1>3, <1>5, <1>6 DEF Known, Do
<1>8. q \in [Keys -> 0 .. MaxEffects] /\ l \in SUBSET Keys
  <2>1. p[k] + 1 \in 0 .. MaxEffects
    BY <1>3, BoundAssumption DEF Do
  <2> QED BY <1>1, <1>5, <1>6, <2>1 DEF Known
<1>9. /\ eng' = [eng EXCEPT ![h] = e] /\ UNCHANGED known
      /\ e = [eng[h] EXCEPT !.pc = "midcheck", !.effects = @ \cup {k}]
  BY <1>1 DEF Known, Do
<1> HIDE DEF e
<1>10. e \in Engines /\ e.pc = "midcheck" /\ e.effects = eng[h].effects \cup {k}
  BY <1>4, <1>9 DEF Engines
<1>11. Fit(e)
  BY <1>1, <1>4, <1>9 DEF Known, Engines, Fit
<1>12. Had(q) \subseteq e.effects \cup l
  <2>1. Had(q) \subseteq Had(p) \cup {k}
    BY <1>5 DEF Had
  <2> QED BY <1>1, <1>3, <1>4, <1>6, <1>10, <2>1 DEF Known
<1>13. Had(q) \subseteq l \cup Pending(e)
  BY <1>10, <1>12 DEF Pending
<1>14. eng[h].pc # "unborn" /\ e.pc # "unborn"
  BY <1>4, <1>10
<1> QED BY <1>4, <1>7, <1>8, <1>9, <1>10, <1>11, <1>12, <1>13, <1>14, HolderStep

\* A handle is born the one holder of its task, with the log of its record.
LEMMA BirthHolds ==
  ASSUME EffectInv, NEW h \in Handles, NEW e \in Engines, NEW r \in Records,
         eng' = [eng EXCEPT ![h] = e], rec' = [rec EXCEPT ![TaskOf[h]] = r],
         known' = [known EXCEPT ![TaskOf[h]] = h], UNCHANGED <<ran, lost>>,
         eng[h].pc = "unborn", e.pc # "unborn", Fit(e),
         Had(ran[TaskOf[h]]) \subseteq e.effects \cup lost[TaskOf[h]], r.log = e.effects,
         \A g \in Handles \ {h} : TaskOf[g] = TaskOf[h] => ~Holder(g)
  PROVE  EffectInv'
<1> DEFINE t == TaskOf[h]
<1>1. /\ TypeOK /\ OneHolder /\ Remembered /\ Kept /\ Begun /\ t \in Tasks
      /\ \A g \in Handles : /\ TaskOf[g] \in Tasks /\ Fit(eng[g])
                            /\ Mine(g) => eng[g].pc # "unborn"
  BY TaskOfAssumption DEF EffectInv
<1>2. /\ \A g \in Handles : eng'[g] = IF g = h THEN e ELSE eng[g]
      /\ \A s \in Tasks : rec'[s] = IF s = t THEN r ELSE rec[s]
      /\ \A s \in Tasks : known'[s] = IF s = t THEN h ELSE known[s]
  BY <1>1 DEF TypeOK, TablesOK
<1>3. ASSUME NEW g \in Handles, g # h, Holder(g)'
      PROVE  Holder(g) /\ TaskOf[g] # t
  <2>1. TaskOf[g] # t => Mine(g)' = Mine(g)
    BY <1>1, <1>2 DEF Mine
  <2>2. TaskOf[g] = t => ~Mine(g)'
    BY <1>1, <1>2, <1>3 DEF Mine
  <2> QED BY <1>2, <1>3, <2>1, <2>2 DEF Holder, Holds, OwnerAs
<1>4. \A g \in Handles : Fit(eng'[g])
  BY <1>1, <1>2
<1>5. \A g \in Handles : Mine(g)' => eng'[g].pc # "unborn"
  <2>1. ASSUME NEW g \in Handles, TaskOf[g] # t PROVE Mine(g)' = Mine(g)
    BY <1>1, <1>2, <2>1 DEF Mine
  <2>2. ASSUME NEW g \in Handles, TaskOf[g] = t, g # h PROVE ~Mine(g)'
    BY <1>1, <1>2, <2>2 DEF Mine
  <2> QED BY <1>1, <1>2, <2>1, <2>2
<1>6. TypeOK'
  <2>1. /\ eng' \in [Handles -> Engines] /\ rec' \in [Tasks -> Records \cup {None}]
        /\ known' \in [Tasks -> Handles \cup {None}]
    BY <1>1 DEF TypeOK, TablesOK
  <2>2. \A g \in Handles : eng'[g].pc \in InHandler =>
          eng'[g].current # None /\ eng'[g].current = eng'[g].next
    BY <1>4 DEF Fit
  <2> QED BY <1>1, <2>1, <2>2 DEF TypeOK, TablesOK
<1>7. OneHolder'
  BY <1>1, <1>3 DEF OneHolder
<1>8. Remembered'
  <2>1. ASSUME NEW g \in Handles, Holder(g)'
        PROVE  Had(ran[TaskOf[g]]) \subseteq eng'[g].effects \cup lost[TaskOf[g]]
    BY <1>1, <1>2, <1>3, <2>1 DEF Remembered
  <2> QED BY <2>1 DEF Remembered
<1>9. ASSUME NEW s \in Tasks, rec'[s] # None, NEW k \in Had(ran'[s])
      PROVE  k \in rec'[s].log \cup lost'[s] \/ \E g \in Handles : TaskOf[g] = s /\ k \in Pending(eng'[g])
  <2>1. CASE s = t
    BY <1>2, <1>9, <2>1
  <2>2. CASE s # t
    <3>1. rec'[s] = rec[s] /\ \A g \in Handles : TaskOf[g] = s => eng'[g] = eng[g]
      BY <1>2, <2>2
    <3> QED BY <1>1, <1>9, <3>1 DEF Kept
  <2> QED BY <2>1, <2>2
<1>10. \A g \in Handles : eng[g].pc # "unborn" => eng'[g].pc # "unborn"
  BY <1>2
<1>11. (\A g \in Handles : Fit(eng[g]) /\ (Mine(g) => eng[g].pc # "unborn"))'
  BY <1>4, <1>5
<1>12. Kept'
  BY <1>9 DEF Kept
<1>13. Begun'
  BY <1>1, <1>10 DEF Begun
<1> QED BY <1>6, <1>7, <1>8, <1>11, <1>12, <1>13 DEF EffectInv

\* A new task did nothing yet.
LEMMA CreateTaskHolds ==
  ASSUME EffectInv, NEW h \in Handles, CreateTask(h)
  PROVE  EffectInv'
<1> DEFINE e == eng'[h]
           r == rec'[TaskOf[h]]
<1>1. Known(h) /\ NewEngine \in Engines
  BY KnownHolds, NewEngineTyped
<1>2. \A g \in Handles : TaskOf[g] = TaskOf[h] => eng[g].pc = "unborn" /\ eng[g] = NewEngine
  BY DEF EffectInv, Fit, CreateTask
<1>3. /\ eng' = [eng EXCEPT ![h] = e] /\ rec' = [rec EXCEPT ![TaskOf[h]] = r]
      /\ known' = [known EXCEPT ![TaskOf[h]] = h] /\ UNCHANGED <<ran, lost>>
      /\ e = [NewEngine EXCEPT !.pc = "new", !.next = Initial]
      /\ r = [status |-> "notStarted", state |-> None, log |-> {}, output |-> FALSE]
  BY <1>1, <1>2 DEF Known, CreateTask
<1> HIDE DEF e, r
<1>4. e \in Engines /\ r \in Records
  BY <1>1, <1>3, InitialAssumption DEF Engines, Records, Statuses
<1>5. e.pc = "new" /\ Fit(e) /\ e.effects = {} /\ r.log = {}
  BY <1>1, <1>3 DEF NewEngine, Fit
<1>6. Had(ran[TaskOf[h]]) = {}
  BY <1>1, <1>2 DEF Known, EffectInv, Begun
<1>7. \A g \in Handles \ {h} : TaskOf[g] = TaskOf[h] => ~Holder(g)
  BY <1>2 DEF NewEngine, Holder, Holds, OwnerAs
<1> QED BY <1>2, <1>3, <1>4, <1>5, <1>6, <1>7, BirthHolds

\* The earlier handles are spent with every checkpoint they owed: what the log
\* lacks is lost.
LEMMA RecoverTaskHolds ==
  ASSUME OneRun, EffectInv, NEW h \in Handles, RecoverTask(h)
  PROVE  EffectInv'
<1> DEFINE e == eng'[h]
           r == rec[TaskOf[h]]
<1>1. Known(h) /\ NewEngine \in Engines
  BY KnownHolds, NewEngineTyped
<1>2. eng[h] = NewEngine /\ eng[h].pc = "unborn" /\ r \in Records /\ r # None
  BY <1>1 DEF Known, RecoverTask, Recoverable, Fit
<1>3. /\ eng' = [eng EXCEPT ![h] = e] /\ rec' = [rec EXCEPT ![TaskOf[h]] = r]
      /\ known' = [known EXCEPT ![TaskOf[h]] = h] /\ UNCHANGED <<ran, lost>>
      /\ e = [NewEngine EXCEPT !.pc = "recovered", !.next = r.state,
                               !.status = r.status, !.effects = r.log]
  BY <1>1, <1>2 DEF Known, RecoverTask, RestoreInstance
<1>4. \A g \in Handles \ {h} : TaskOf[g] = TaskOf[h] =>
        Over(g) /\ (Mine(g) => ~eng[g].sealed)
  BY NoneStateAssumption DEF RecoverTask, Recoverable, BeingDeleted, OthersOver, Mine
<1>5. \A g \in Handles \ {h} : TaskOf[g] = TaskOf[h] => ~Holder(g)
  BY <1>4 DEF Over, Holder, Holds, OwnerAs
<1>6. \A g \in Handles : TaskOf[g] = TaskOf[h] => Pending(eng[g]) = {}
  BY <1>2, <1>4 DEF Over, Pending
<1>7. Had(ran[TaskOf[h]]) \subseteq r.log \cup lost[TaskOf[h]]
  BY <1>1, <1>2, <1>6 DEF Known, EffectInv, Kept
<1> HIDE DEF e
<1>8. e \in Engines
  <2>1. r.state \in States \cup {None} /\ r.status \in Statuses /\ r.log \in SUBSET Keys
    BY <1>2 DEF Records
  <2> QED BY <1>1, <1>3, <2>1 DEF Engines
<1>9. e.pc = "recovered" /\ e.effects = r.log /\ Fit(e)
  BY <1>1, <1>3 DEF NewEngine, Engines, Fit
<1> QED BY <1>2, <1>3, <1>5, <1>7, <1>8, <1>9, BirthHolds

\* With its row a task loses its log, and can never be started again.
LEMMA DeleteRowHolds ==
  ASSUME EffectInv, NEW t \in Tasks, DeleteRow(t)
  PROVE  EffectInv'
<1>1. /\ TypeOK /\ OneHolder /\ Remembered /\ Kept /\ Begun
      /\ \A g \in Handles : /\ TaskOf[g] \in Tasks /\ Fit(eng[g])
                            /\ Mine(g) => eng[g].pc # "unborn"
  BY TaskOfAssumption DEF EffectInv
<1>2. /\ \A s \in Tasks : rec'[s] = None \/ rec'[s] = rec[s]
      /\ \A s \in Tasks : known'[s] = IF s = t THEN None ELSE known[s]
      /\ UNCHANGED <<eng, ran, lost>>
  <2>1. known' = [known EXCEPT ![t] = None] /\ UNCHANGED <<eng, ran, lost>>
    BY DEF DeleteRow
  <2>2. \A s \in Tasks : rec'[s] = None \/ rec'[s] = rec[s]
    <3>1. CASE rec' = [rec EXCEPT ![t] = None]
      BY <1>1, <3>1 DEF TypeOK, TablesOK
    <3>2. CASE rec' = rec
      BY <3>2
    <3> QED BY <3>1, <3>2 DEF DeleteRow, WriteFails
  <2> QED BY <1>1, <2>1, <2>2 DEF TypeOK, TablesOK
<1>3. TypeOK'
  <2>1. rec' \in [Tasks -> Records \cup {None}] /\ known' \in [Tasks -> Handles \cup {None}]
    BY <1>1 DEF TypeOK, TablesOK, DeleteRow, WriteFails
  <2> QED BY <1>1, <1>2, <2>1 DEF TypeOK, TablesOK
<1>4. \A g \in Handles : Mine(g)' => Mine(g)
  BY <1>1, <1>2, NoneStateAssumption DEF Mine
<1>5. \A g \in Handles : Holder(g)' => Holder(g)
  BY <1>2, <1>4 DEF Holder, Holds, OwnerAs
<1>6. OneHolder'
  BY <1>1, <1>5 DEF OneHolder
<1>7. Remembered'
  BY <1>1, <1>2, <1>5 DEF Remembered
<1>8. Kept' /\ Begun'
  <2>1. ASSUME NEW s \in Tasks, rec'[s] # None PROVE rec'[s] = rec[s]
    BY <1>2, <2>1
  <2> QED BY <1>1, <1>2, <2>1 DEF Kept, Begun
<1>9. (\A g \in Handles : Fit(eng[g]) /\ (Mine(g) => eng[g].pc # "unborn"))'
  BY <1>1, <1>2, <1>4
<1> QED BY <1>3, <1>6, <1>7, <1>8, <1>9 DEF EffectInv

\* A crash cuts off the records under way, and holds no task.
LEMMA CrashHolds ==
  ASSUME EffectInv, Crash
  PROVE  EffectInv'
<1> DEFINE gone == [NewEngine EXCEPT !.pc = "lost"]
<1>1. /\ TypeOK /\ Kept /\ Begun
      /\ \A g \in Handles : Fit(eng[g]) /\ (eng[g].pc = "unborn" => eng[g] = NewEngine)
  BY DEF EffectInv, Fit
<1>2. gone \in Engines /\ gone.pc = "lost" /\ gone.stray = None /\ Fit(gone)
  BY NewEngineTyped DEF NewEngine, Engines, Fit
<1>3. /\ \A g \in Handles : eng'[g] = IF InProcess(g) THEN gone ELSE eng[g]
      /\ eng' \in [Handles -> Engines] /\ known' = [t \in Tasks |-> None] /\ UNCHANGED <<rec, ran>>
      /\ lost' = [t \in Tasks |-> lost[t] \cup (Due(t) \ Log(t))]
  BY <1>1, <1>2 DEF TypeOK, TablesOK, Crash
<1> HIDE DEF gone
<1>4. \A g \in Handles : /\ Fit(eng'[g]) /\ eng'[g].pc \in Spent /\ eng'[g].stray = None
                         /\ eng[g].pc # "unborn" => eng'[g].pc # "unborn"
  BY <1>1, <1>2, <1>3, NewEngineTyped DEF InProcess, Fit, NewEngine
<1>5. \A t \in Tasks : Due(t) \subseteq Keys
  BY <1>1 DEF Due, TypeOK, TablesOK, Engines
<1>6. TypeOK'
  <2>1. \A g \in Handles : eng'[g].pc \in InHandler =>
          eng'[g].current # None /\ eng'[g].current = eng'[g].next
    BY <1>4
  <2>2. lost' \in [Tasks -> SUBSET Keys]
    BY <1>1, <1>3, <1>5 DEF TypeOK
  <2>3. known' \in [Tasks -> Handles \cup {None}]
    BY <1>3
  <2> QED BY <1>1, <1>3, <2>1, <2>2, <2>3 DEF TypeOK, TablesOK
<1>7. \A g \in Handles : ~Holder(g)' /\ ~Mine(g)'
  BY <1>3, <1>4, TaskOfAssumption, NoneStateAssumption DEF Holder, Holds, OwnerAs, Mine
<1>8. OneHolder' /\ Remembered'
  BY <1>7 DEF OneHolder, Remembered
<1>9. ASSUME NEW t \in Tasks, rec[t] # None, NEW k \in Had(ran[t])
      PROVE  k \in rec[t].log \cup lost'[t]
  <2>1. k \in rec[t].log \cup lost[t] \/ \E h \in Handles : TaskOf[h] = t /\ k \in Pending(eng[h])
    BY <1>1, <1>9 DEF Kept
  <2>2. ASSUME NEW h \in Handles, TaskOf[h] = t, k \in Pending(eng[h]) PROVE k \in Due(t)
    BY <2>2 DEF Pending, Due
  <2> QED BY <1>3, <1>9, <2>1, <2>2 DEF Log
<1>10. Kept' /\ Begun'
  <2>1. Kept'
    BY <1>3, <1>9 DEF Kept
  <2>2. Begun'
    BY <1>1, <1>3, <1>4 DEF Begun
  <2> QED BY <2>1, <2>2
<1>11. (\A g \in Handles : Fit(eng[g]) /\ (Mine(g) => eng[g].pc # "unborn"))'
  BY <1>4, <1>7
<1> QED BY <1>6, <1>8, <1>10, <1>11 DEF EffectInv

LEMMA EffectInit ==
  ASSUME Init
  PROVE  EffectInv
<1>1. \A h \in Handles : eng[h] = NewEngine
  BY DEF Init
<1>2. TypeOK
  BY <1>1, NewEngineTyped, BoundAssumption DEF Init, TypeOK, TablesOK
<1>3. \A h \in Handles : ~Holder(h) /\ Fit(eng[h]) /\ ~Mine(h)
  BY <1>1, NewEngineTyped, TaskOfAssumption, NoneStateAssumption
  DEF Init, NewEngine, Holder, Holds, OwnerAs, Fit, Mine
<1>4. \A t \in Tasks : Had(ran[t]) = {}
  BY DEF Init, Had
<1> QED BY <1>2, <1>3, <1>4 DEF EffectInv, OneHolder, Remembered, Kept, Begun

LEMMA EffectStutter ==
  ASSUME EffectInv, UNCHANGED vars
  PROVE  EffectInv'
<1>1. UNCHANGED <<eng, rec, ran, known, lost>>
  BY DEF vars
<1>2. TypeOK'
  BY <1>1 DEF EffectInv, TypeOK, TablesOK
<1>3. \A h \in Handles : Mine(h)' = Mine(h) /\ Holder(h)' = Holder(h)
  BY <1>1 DEF Mine, Holder
<1>4. OneHolder' /\ Remembered'
  BY <1>1, <1>3 DEF EffectInv, OneHolder, Remembered
<1>5. (\A h \in Handles : Fit(eng[h]) /\ (Mine(h) => eng[h].pc # "unborn"))'
  BY <1>1, <1>3 DEF EffectInv
<1>6. Kept' /\ Begun'
  BY <1>1 DEF EffectInv, Kept, Begun
<1> QED BY <1>2, <1>4, <1>5, <1>6 DEF EffectInv

LEMMA EffectStep ==
  ASSUME OneRun, EffectInv, [Next]_vars
  PROVE  EffectInv'
<1>1. ASSUME NEW h \in Handles, HandleStep(h) PROVE EffectInv'
  <2>1. CASE CreateTask(h) \/ RecoverTask(h) \/ DeleteRecord(h)
    BY <2>1, TaskOfAssumption, CreateTaskHolds, RecoverTaskHolds, DeleteRowHolds DEF DeleteRecord
  <2>2. CASE StartRefused(h) \/ StartKilled(h) \/ Start(h)
    BY <2>2, StartRefusedQuiet, StartKilledQuiet, StartQuiet
  <2>3. CASE RunStep(h)
    BY <2>3, BoundaryQuiet, SaveSuspendedHolds, ParkQuiet, SaveRunningHolds, EnterQuiet,
       MidCheckHolds, MidWriteHolds, HarvestQuiet, FinishQuiet, StampHolds, TeardownQuiet,
       EpilogueQuiet DEF RunStep
  <2>4. CASE HandlerStep(h) \/ StrayStep(h) \/ \E k \in Keys : Do(h, k)
    BY <2>4, HandlerReturnsQuiet, HandlerFailsQuiet, StrayCheckQuiet, StraySnapshotQuiet,
       StrayWriteHolds, DoHolds DEF HandlerStep, StrayStep
  <2>5. CASE Suspend(h) \/ Resume(h) \/ Detach(h) \/ Kill(h) \/ Seal(h) \/ Unseal(h)
    BY <2>5, SuspendQuiet, ResumeQuiet, DetachQuiet, KillQuiet, SealQuiet, UnsealQuiet
  <2> QED BY <1>1, <2>1, <2>2, <2>3, <2>4, <2>5 DEF HandleStep
<1>2. ASSUME NEW t \in Tasks, DeleteUnknown(t) PROVE EffectInv'
  BY <1>2, DeleteRowHolds DEF DeleteUnknown
<1> QED BY <1>1, <1>2, CrashHolds, EffectStutter DEF Next

LEMMA EffectsInductive ==
  ASSUME OneRun
  PROVE  Spec => []EffectInv
<1>1. Init => EffectInv
  BY EffectInit
<1>2. EffectInv /\ [Next]_vars => EffectInv'
  BY EffectStep
<1> QED BY <1>1, <1>2, PTL DEF Spec

\* Only Do adds to what ran, and it runs nothing the holder remembers.
LEMMA OnlyDoRuns ==
  ASSUME EffectInv, [Next]_vars, NEW t \in Tasks, NEW k \in Keys,
         ran[t][k] > 0, ran'[t][k] # ran[t][k]
  PROVE  k \in lost[t]
<1>1. PICK h \in Handles, j \in Keys : Do(h, j)
  <2>1. ASSUME NEW h \in Handles, HandleStep(h), UNCHANGED ran PROVE FALSE
    BY <2>1
  <2>2. ASSUME NEW h \in Handles, HandleStep(h), \A j \in Keys : ~Do(h, j)
        PROVE  UNCHANGED ran
    <3>1. CASE CreateTask(h) \/ RecoverTask(h) \/ StartRefused(h) \/ StartKilled(h) \/ Start(h)
      BY <3>1 DEF CreateTask, RecoverTask, StartRefused, StartKilled, Start
    <3>2. CASE RunStep(h)
      BY <3>2 DEF RunStep, Boundary, SaveSuspended, Park, SaveRunning, Enter, MidCheck, MidWrite,
         Harvest, Finish, Stamp, Teardown, Epilogue
    <3>3. CASE HandlerStep(h) \/ StrayStep(h)
      BY <3>3 DEF HandlerStep, HandlerReturns, HandlerFails, StrayStep, StrayCheck, StraySnapshot,
         StrayWrite
    <3>4. CASE Suspend(h) \/ Resume(h) \/ Detach(h) \/ Kill(h)
      BY <3>4 DEF Suspend, Resume, Detach, Kill
    <3>5. CASE Seal(h) \/ Unseal(h) \/ DeleteRecord(h)
      BY <3>5 DEF Seal, Unseal, DeleteRecord, DeleteRow
    <3> QED BY <2>2, <3>1, <3>2, <3>3, <3>4, <3>5 DEF HandleStep
  <2>3. Crash \/ (\E s \in Tasks : DeleteUnknown(s)) \/ UNCHANGED vars => UNCHANGED ran
    BY DEF Crash, DeleteUnknown, DeleteRow, vars
  <2> QED BY <2>1, <2>2, <2>3 DEF Next
<1>2. Known(h)
  BY KnownHolds
<1>3. /\ eng[h].pc = "handling" /\ j \notin eng[h].effects
      /\ ran' = [ran EXCEPT ![TaskOf[h]][j] = @ + 1]
  BY <1>1 DEF Do
<1>4. t = TaskOf[h] /\ k = j
  <2>1. t # TaskOf[h] => ran'[t] = ran[t]
    BY <1>2, <1>3 DEF Known
  <2>2. t = TaskOf[h] /\ k # j => ran'[t][k] = ran[t][k]
    BY <1>2, <1>3 DEF Known
  <2> QED BY <2>1, <2>2
<1>5. Holder(h) /\ k \in Had(ran[t])
  BY <1>3 DEF Holder, Holds, OwnerAs, Had
<1> QED BY <1>2, <1>3, <1>4, <1>5 DEF Known

\* What remains of "Do runs effect at most once per key for the life of the task"
\* (base.go:125): over suspensions, detaches, kills, failed runs, failing writes,
\* contexts that end, goroutines left behind, crashes and recoveries, an effect
\* runs again only if every record of its last run was refused, overwritten or cut
\* off by a crash.
THEOREM RepeatsAccounted ==
  ASSUME OneRun
  PROVE  Spec => RepeatsOnlyTheLost
<1>1. EffectInv /\ [Next]_vars =>
        [\A t \in Tasks, k \in Keys :
           ran[t][k] > 0 /\ ran'[t][k] # ran[t][k] => k \in lost[t]]_vars
  BY OnlyDoRuns
<1> QED BY <1>1, EffectsInductive, PTL DEF Spec, RepeatsOnlyTheLost

\* Records, handles, counts and the history keep their types, and a handler runs
\* in the state the run is at.
THEOREM TypeCorrect ==
  ASSUME OneRun
  PROVE  Spec => []TypeOK
<1>1. EffectInv => TypeOK
  BY DEF EffectInv
<1> QED BY <1>1, EffectsInductive, PTL

=============================================================================
