-------------------------- MODULE MigrationsProofs --------------------------
(***************************************************************************)
(* Theorems about Migrations: its type, and that for any processes, stores *)
(* and releases the ledger of a file tells what its schema is, and every   *)
(* change of the file is a whole upgrade of one store.                     *)
(***************************************************************************)
EXTENDS Migrations, FiniteSetTheorems, WellFoundedInduction, TLAPS

USE DEF VersionAssumption, KnownAssumption, NoneAssumption

-----------------------------------------------------------------------------
(* Histories without a gap.                                                *)

\* A history without gap is an initial segment of the versions.
LEMMA Ungapped ==
  ASSUME NEW S \in SUBSET Versions, ~Gapped(S)
  PROVE  \E n \in 0 .. MaxVersion : S = 1 .. n
<1> DEFINE Bounds == {m \in Nat : \A v \in S : v <= m}
<1>0. MaxVersion \in Nat
  BY VersionAssumption
<1>1. MaxVersion \in Bounds
  BY <1>0 DEF Versions
<1>2. PICK n \in Bounds : \A m \in Bounds : ~(<<m, n>> \in OpToRel(<, Nat))
  <2>1. Bounds \subseteq Nat /\ Bounds # {}
    BY <1>1
  <2> HIDE DEF Bounds
  <2> QED BY <2>1, NatLessThanWellFounded, WFMin
<1>3. n \in Nat /\ \A v \in S : v <= n
  OBVIOUS
<1>4. \A m \in Bounds : ~(m < n)
  BY <1>2, <1>3 DEF OpToRel
<1>5. n <= MaxVersion
  BY <1>0, <1>1, <1>3, <1>4
<1>6. n = 0 \/ n \in S
  <2> SUFFICES ASSUME n # 0, n \notin S PROVE FALSE
    OBVIOUS
  <2>1. n - 1 \in Nat /\ n - 1 < n
    BY <1>3
  <2>2. \A v \in S : v <= n - 1
    BY <1>3 DEF Versions
  <2> QED BY <2>1, <2>2, <1>4
<1>7. S \subseteq 1 .. n
  BY <1>0, <1>3 DEF Versions
<1>8. ASSUME NEW w \in 1 .. n PROVE w \in S
  BY <1>3, <1>6 DEF Gapped
<1>9. S = 1 .. n
  <2> HIDE DEF Bounds
  <2> QED BY <1>7, <1>8
<1>10. n \in 0 .. MaxVersion
  BY <1>0, <1>3, <1>5
<1> HIDE DEF Bounds
<1> QED BY <1>9, <1>10

\* Its length is the number of its versions.
LEMMA SegmentLength ==
  ASSUME NEW n \in Nat
  PROVE  Cardinality(1 .. n) = n
  BY FS_Interval

\* A segment has no gap.
LEMMA SegmentUngapped ==
  ASSUME NEW n \in Nat
  PROVE  ~Gapped(1 .. n)
  BY DEF Gapped

-----------------------------------------------------------------------------
(* The inductive invariant: a transaction that applies steps began at the  *)
(* end of a history without gap, and has noted, in order, what it ran.     *)

InTransaction == {"applying", "recording"}

Progress(p, n) ==
  LET s == tx[p].store IN
    /\ file.recorded[s] = 1 .. n
    /\ tx[p].i \in n + 1 .. Known[p][s] + 1
    /\ tx[p].noted = n + 1 .. tx[p].i - 1
    /\ tx[p].stage = "applying" => tx[p].ran = n + 1 .. tx[p].i - 1
    /\ tx[p].stage = "recording" =>
         tx[p].i <= Known[p][s] /\ tx[p].ran = n + 1 .. tx[p].i

Underway(p) ==
  /\ tx[p].stage # "none" => tx[p].store \in Stores
  /\ tx[p].stage = "begun" => tx[p].noted = {} /\ tx[p].ran = {}
  /\ tx[p].stage \in InTransaction =>
       /\ ~file.userVersion
       /\ \E n \in 0 .. Known[p][tx[p].store] : Progress(p, n)

IInv ==
  /\ TypeOK /\ HistoryIsSchema /\ OpenHasItsSchema
  /\ \A p \in Processes : Underway(p)

\* The initial file is a fresh one, an old one, or one with an edited ledger.
LEMMA InitHolds == Init => IInv
<1> SUFFICES ASSUME Init PROVE IInv
  OBVIOUS
<1>1. PICK recorded \in [Stores -> SUBSET Versions], old \in BOOLEAN :
        /\ \A s \in Stores : recorded[s] = {} \/ Gapped(recorded[s])
        /\ file = [userVersion |-> old,
                   ledger |-> \E s \in Stores : recorded[s] # {},
                   recorded |-> recorded,
                   executed |-> [s \in Stores |-> [v \in Versions |->
                     IF v \in {u \in Versions : \E w \in recorded[s] : u <= w}
                     THEN 1 ELSE 0]]]
  BY DEF Init
<1>2. TypeOK
  <2>1. file \in Files
    BY <1>1 DEF Files
  <2>2. NoTx \in Transactions
    BY VersionAssumption DEF NoTx, Transactions, Versions
  <2> QED BY <2>1, <2>2, NoneAssumption DEF Init, TypeOK, NoTx
<1>3. HistoryIsSchema
  BY <1>1, VersionAssumption DEF HistoryIsSchema, Gapped, Versions
<1>4. OpenHasItsSchema /\ \A p \in Processes : Underway(p)
  BY DEF Init, OpenHasItsSchema, Underway, NoTx, InTransaction
<1> QED BY <1>2, <1>3, <1>4 DEF IInv

\* A step that leaves the file and the opened stores alone keeps what they tell.
LEMMA FileStands ==
  ASSUME IInv, UNCHANGED file,
         \A p \in Processes : open'[p] \subseteq open[p]
  PROVE  HistoryIsSchema' /\ OpenHasItsSchema'
  BY DEF IInv, HistoryIsSchema, OpenHasItsSchema

\* Only the writer's transaction is one: whoever else is not in any.
LEMMA OneWriter ==
  ASSUME TypeOK, NEW p \in Processes, NEW q \in Processes,
         tx[p].stage # "none", tx[q].stage # "none"
  PROVE  p = q
  BY DEF TypeOK

\* The transaction of one process changes.
LEMMA TransactionTyped ==
  ASSUME TypeOK, NEW p \in Processes, NEW e \in Transactions, tx' = [tx EXCEPT ![p] = e],
         writer' = IF e.stage = "none" THEN None ELSE p,
         writer = p \/ writer = None,
         file' \in Files, open' \in [Processes -> SUBSET Stores]
  PROVE  TypeOK'
  BY NoneAssumption DEF TypeOK

\* Nobody else's transaction is disturbed: the others have none.
LEMMA OthersIdle ==
  ASSUME IInv, NEW p \in Processes, NEW e, tx' = [tx EXCEPT ![p] = e],
         writer = p \/ writer = None, Underway(p)'
  PROVE  \A q \in Processes : Underway(q)'
<1> SUFFICES ASSUME NEW q \in Processes, q # p PROVE Underway(q)'
  OBVIOUS
<1>1. tx'[q] = tx[q] /\ tx[q].stage = "none"
  BY NoneAssumption DEF IInv, TypeOK
<1> QED BY <1>1 DEF Underway, InTransaction

LEMMA NoTxTyped == NoTx \in Transactions /\ NoTx.stage = "none"
<1>1. 1 \in Versions \cup {MaxVersion + 1}
  BY VersionAssumption DEF Versions
<1> QED BY <1>1 DEF NoTx, Transactions

\* A transaction that ends without effect leaves nothing behind.
LEMMA EndKeeps ==
  ASSUME IInv, NEW p \in Processes, tx[p].stage # "none", Rollback(p), UNCHANGED <<file, open>>
  PROVE  IInv'
<1>1. writer = p /\ TypeOK
  BY DEF IInv, TypeOK
<1>2. TypeOK'
  BY <1>1, NoTxTyped, TransactionTyped DEF TypeOK, Rollback
<1>3. Underway(p)'
  BY <1>1, NoTxTyped DEF TypeOK, Rollback, Underway, InTransaction
<1>4. \A q \in Processes : Underway(q)'
  BY <1>1, <1>3, OthersIdle DEF Rollback
<1> QED BY <1>2, <1>4, FileStands DEF IInv

LEMMA BeginKeeps ==
  ASSUME IInv, NEW p \in Processes, NEW s \in Stores, Begin(p, s)
  PROVE  IInv'
<1> DEFINE e == [NoTx EXCEPT !.stage = "begun", !.store = s]
<1>1. e \in Transactions /\ e.stage = "begun" /\ e.store = s
  BY NoTxTyped DEF NoTx, Transactions
<1>2. tx' = [tx EXCEPT ![p] = e] /\ writer = None /\ writer' = p /\ UNCHANGED <<file, open>>
  BY DEF Begin
<1> HIDE DEF e
<1>3. TypeOK'
  BY <1>1, <1>2, TransactionTyped DEF IInv, TypeOK
<1>4. Underway(p)'
  <2>1. e.noted = {} /\ e.ran = {}
    BY DEF e, NoTx
  <2> QED BY <1>1, <1>2, <2>1 DEF IInv, TypeOK, Underway, InTransaction
<1>5. \A q \in Processes : Underway(q)'
  BY <1>2, <1>4, OthersIdle
<1> QED BY <1>2, <1>3, <1>5, FileStands DEF IInv

LEMMA ResumeKeeps ==
  ASSUME IInv, NEW p \in Processes, Resume(p)
  PROVE  IInv'
<1> DEFINE s == tx[p].store
           known == Known[p][s]
<1>1. /\ s \in Stores /\ known \in 0 .. MaxVersion /\ writer = p
      /\ file.recorded[s] \in SUBSET Versions /\ tx[p] \in Transactions
  <2>1. TypeOK /\ Underway(p) /\ tx[p].stage = "begun"
    BY DEF IInv, Resume
  <2>2. /\ tx[p] \in Transactions /\ writer = p
        /\ file.recorded \in [Stores -> SUBSET Versions]
    BY <2>1 DEF TypeOK, Files
  <2>3. s \in Stores
    BY <2>1, <2>2 DEF Underway
  <2>4. known \in 0 .. MaxVersion
    BY <2>3, KnownAssumption
  <2> QED BY <2>1, <2>2, <2>3, <2>4
<1>2. ~file.userVersion /\ ~Gapped(file.recorded[s]) /\ ~(applied(s) > known)
  BY DEF Resume, Refused, rejectPreLedger
<1>3. PICK n \in 0 .. MaxVersion : file.recorded[s] = 1 .. n
  BY <1>1, <1>2, Ungapped
<1>4. applied(s) = n
  BY <1>3, SegmentLength DEF applied
<1>5. n \in 0 .. known
  BY <1>1, <1>2, <1>4, VersionAssumption
<1> DEFINE e == [tx[p] EXCEPT !.stage = "applying", !.i = n + 1]
<1>6. tx' = [tx EXCEPT ![p] = e] /\ UNCHANGED <<file, writer, open>>
  BY <1>4 DEF Resume
<1>7. n + 1 \in Versions \cup {MaxVersion + 1}
  BY VersionAssumption DEF Versions
<1>8. /\ e \in Transactions /\ e.stage = "applying" /\ e.i = n + 1
      /\ e.store = s /\ e.noted = {} /\ e.ran = {}
  BY <1>1, <1>7 DEF Transactions, Resume, IInv, Underway
<1> HIDE DEF e
<1>9. TypeOK'
  BY <1>1, <1>6, <1>8, TransactionTyped DEF IInv, TypeOK
<1>10. Underway(p)'
  <2>1. tx'[p] = e
    BY <1>6 DEF IInv, TypeOK
  <2>2. e.i \in n + 1 .. known + 1 /\ n + 1 .. e.i - 1 = {}
    BY <1>1, <1>5, <1>8, VersionAssumption
  <2>3. Progress(p, n)'
    BY <1>3, <1>6, <1>8, <2>1, <2>2 DEF Progress
  <2> QED BY <1>1, <1>2, <1>5, <1>6, <1>8, <2>1, <2>3 DEF Underway
<1>11. \A q \in Processes : Underway(q)'
  BY <1>1, <1>6, <1>10, OthersIdle
<1> QED BY <1>6, <1>9, <1>11, FileStands DEF IInv

\* A transaction under way has its facts at hand.
LEMMA InProgress ==
  ASSUME IInv, NEW p \in Processes, tx[p].stage \in InTransaction
  PROVE  /\ tx[p].store \in Stores /\ Known[p][tx[p].store] \in 0 .. MaxVersion
         /\ writer = p /\ tx[p] \in Transactions /\ tx[p].i \in Nat
         /\ ~file.userVersion
         /\ \E n \in 0 .. Known[p][tx[p].store] : Progress(p, n)
  BY KnownAssumption, VersionAssumption
  DEF IInv, TypeOK, Underway, InTransaction, Transactions, Versions

LEMMA ExecuteKeeps ==
  ASSUME IInv, NEW p \in Processes, Execute(p)
  PROVE  IInv'
<1> DEFINE s == tx[p].store
           i == tx[p].i
           known == Known[p][s]
           e == [tx[p] EXCEPT !.stage = "recording", !.ran = @ \cup {tx[p].i}]
<1>1. tx[p].stage \in InTransaction /\ tx[p].stage = "applying" /\ ~(i > known)
  BY DEF Execute, Finished, InTransaction
<1>2. /\ s \in Stores /\ known \in 0 .. MaxVersion /\ writer = p
      /\ tx[p] \in Transactions /\ i \in Nat /\ ~file.userVersion
  BY <1>1, InProgress
<1>3. PICK n \in 0 .. known : Progress(p, n)
  BY <1>1, InProgress
<1>4. tx' = [tx EXCEPT ![p] = e] /\ UNCHANGED <<file, writer, open>>
  BY DEF Execute
<1>5. i \in n + 1 .. known
  BY <1>1, <1>2, <1>3, VersionAssumption DEF Progress
<1>6. /\ e \in Transactions /\ e.stage = "recording" /\ e.store = s /\ e.i = i
      /\ e.noted = tx[p].noted /\ e.ran = tx[p].ran \cup {i}
  <2>1. i \in Versions
    BY <1>2, <1>5, VersionAssumption DEF Versions
  <2> QED BY <1>2, <2>1 DEF Transactions
<1>7. tx[p].ran \cup {i} = n + 1 .. i
  BY <1>1, <1>3, <1>5 DEF Progress
<1> HIDE DEF e
<1>8. TypeOK'
  BY <1>2, <1>4, <1>6, TransactionTyped DEF IInv, TypeOK
<1>9. Underway(p)'
  <2>1. tx'[p] = e
    BY <1>4 DEF IInv, TypeOK
  <2>2. i \in n + 1 .. known + 1 /\ i <= known
    BY <1>2, <1>5, VersionAssumption
  <2>3. Progress(p, n)'
    BY <1>3, <1>4, <1>6, <1>7, <2>1, <2>2 DEF Progress
  <2> QED BY <1>2, <1>4, <1>6, <2>1, <2>3 DEF Underway
<1>10. \A q \in Processes : Underway(q)'
  BY <1>2, <1>4, <1>9, OthersIdle
<1> QED BY <1>4, <1>8, <1>10, FileStands DEF IInv

LEMMA RecordKeeps ==
  ASSUME IInv, NEW p \in Processes, Record(p)
  PROVE  IInv'
<1> DEFINE s == tx[p].store
           i == tx[p].i
           known == Known[p][s]
           e == [tx[p] EXCEPT !.stage = "applying", !.noted = @ \cup {tx[p].i}, !.i = @ + 1]
<1>1. tx[p].stage \in InTransaction /\ tx[p].stage = "recording"
  BY DEF Record, InTransaction
<1>2. /\ s \in Stores /\ known \in 0 .. MaxVersion /\ writer = p
      /\ tx[p] \in Transactions /\ i \in Nat /\ ~file.userVersion
  BY <1>1, InProgress
<1>3. PICK n \in 0 .. known : Progress(p, n)
  BY <1>1, InProgress
<1>4. tx' = [tx EXCEPT ![p] = e] /\ UNCHANGED <<file, writer, open>>
  BY DEF Record
<1>5. i \in n + 1 .. known
  BY <1>1, <1>2, <1>3, VersionAssumption DEF Progress
<1>6. /\ e \in Transactions /\ e.stage = "applying" /\ e.store = s /\ e.i = i + 1
      /\ e.noted = tx[p].noted \cup {i} /\ e.ran = tx[p].ran
  <2>1. i \in Versions /\ i + 1 \in Versions \cup {MaxVersion + 1}
    BY <1>2, <1>5, VersionAssumption DEF Versions
  <2> QED BY <1>2, <2>1 DEF Transactions
<1>7. tx[p].noted \cup {i} = n + 1 .. i /\ tx[p].ran = n + 1 .. i
  BY <1>1, <1>3, <1>5 DEF Progress
<1> HIDE DEF e
<1>8. TypeOK'
  BY <1>2, <1>4, <1>6, TransactionTyped DEF IInv, TypeOK
<1>9. Underway(p)'
  <2>1. tx'[p] = e
    BY <1>4 DEF IInv, TypeOK
  <2>2. /\ e.i \in n + 1 .. known + 1 /\ e.i - 1 = i
        /\ e.noted = n + 1 .. e.i - 1 /\ e.ran = n + 1 .. e.i - 1
    BY <1>2, <1>5, <1>6, <1>7, VersionAssumption
  <2>3. Progress(p, n)'
    BY <1>3, <1>4, <1>6, <1>7, <2>1, <2>2 DEF Progress
  <2> QED BY <1>2, <1>4, <1>6, <2>1, <2>3 DEF Underway
<1>10. \A q \in Processes : Underway(q)'
  BY <1>2, <1>4, <1>9, OthersIdle
<1> QED BY <1>4, <1>8, <1>10, FileStands DEF IInv

\* What a commit writes: one store's history, whole.
LEMMA CommitWrites ==
  ASSUME IInv, NEW p \in Processes, Commit(p)
  PROVE  LET s == tx[p].store
             known == Known[p][s]
         IN /\ s \in Stores /\ known \in 0 .. MaxVersion /\ writer = p
            /\ file' \in Files /\ ~file.userVersion /\ ~file'.userVersion
            /\ \E n \in 0 .. known :
                 /\ file.recorded[s] = 1 .. n
                 /\ file'.recorded = [file.recorded EXCEPT ![s] = 1 .. known]
                 /\ file'.executed = [file.executed EXCEPT ![s] =
                      [v \in Versions |-> IF v \in n + 1 .. known
                                         THEN file.executed[s][v] + 1
                                         ELSE file.executed[s][v]]]
<1> DEFINE s == tx[p].store
           known == Known[p][s]
<1>1. tx[p].stage \in InTransaction /\ tx[p].stage = "applying" /\ tx[p].i > known
  BY DEF Commit, Finished, InTransaction
<1>2. /\ s \in Stores /\ known \in 0 .. MaxVersion /\ writer = p
      /\ tx[p] \in Transactions /\ tx[p].i \in Nat /\ ~file.userVersion
  BY <1>1, InProgress
<1>3. PICK n \in 0 .. known : Progress(p, n)
  BY <1>1, InProgress
<1>4. tx[p].i - 1 = known
  BY <1>1, <1>2, <1>3, VersionAssumption DEF Progress
<1>5. tx[p].noted = n + 1 .. known /\ tx[p].ran = n + 1 .. known /\ file.recorded[s] = 1 .. n
  BY <1>1, <1>3, <1>4 DEF Progress
<1>6. 1 .. n \cup (n + 1 .. known) = 1 .. known
  BY <1>2, <1>3, VersionAssumption
<1>7. file \in Files /\ file' = Written(p)
  BY DEF IInv, TypeOK, Commit
<1>8. file'.recorded = [file.recorded EXCEPT ![s] = 1 .. known]
  BY <1>2, <1>5, <1>6, <1>7 DEF Written, Files
<1>9. file'.executed = [file.executed EXCEPT ![s] =
        [v \in Versions |-> IF v \in n + 1 .. known THEN file.executed[s][v] + 1
                            ELSE file.executed[s][v]]]
  BY <1>2, <1>5, <1>7 DEF Written, Files
<1>10. 1 .. known \in SUBSET Versions
  BY <1>2, VersionAssumption DEF Versions
<1>11. file'.userVersion = file.userVersion /\ file' \in Files
  <2>1. file'.userVersion = file.userVersion /\ file'.ledger = TRUE
    BY <1>7 DEF Written, Files
  <2>2. file'.recorded \in [Stores -> SUBSET Versions]
    BY <1>2, <1>7, <1>8, <1>10 DEF Files
  <2>3. file'.executed \in [Stores -> [Versions -> Nat]]
    <3>1. file.executed \in [Stores -> [Versions -> Nat]] /\ file.executed[s] \in [Versions -> Nat]
      BY <1>2, <1>7 DEF Files
    <3>2. PICK f : f = [v \in Versions |-> IF v \in n + 1 .. known THEN file.executed[s][v] + 1
                                          ELSE file.executed[s][v]]
      OBVIOUS
    <3>3. f \in [Versions -> Nat]
      BY <3>1, <3>2
    <3>4. file'.executed = [file.executed EXCEPT ![s] = f]
      BY <1>9, <3>2
    <3> QED BY <3>1, <3>3, <3>4
  <2>4. file' = [userVersion |-> file'.userVersion, ledger |-> file'.ledger,
                 recorded |-> file'.recorded, executed |-> file'.executed]
    <3>1. file = [userVersion |-> file.userVersion, ledger |-> file.ledger,
                  recorded |-> file.recorded, executed |-> file.executed]
      BY <1>7 DEF Files
    <3>2. /\ DOMAIN file' = {"userVersion", "ledger", "recorded", "executed"}
          /\ file' = [x \in DOMAIN file' |-> file'[x]]
      BY <1>7, <3>1 DEF Written
    <3> QED BY <3>2
  <2> QED BY <1>7, <2>1, <2>2, <2>3, <2>4 DEF Files
<1> QED BY <1>2, <1>3, <1>5, <1>8, <1>9, <1>11

LEMMA CommitKeeps ==
  ASSUME IInv, NEW p \in Processes, Commit(p)
  PROVE  IInv'
<1> DEFINE s == tx[p].store
           known == Known[p][s]
<1>1. /\ s \in Stores /\ known \in 0 .. MaxVersion /\ writer = p /\ file' \in Files
  BY CommitWrites
<1>2. PICK n \in 0 .. known :
        /\ file.recorded[s] = 1 .. n
        /\ file'.recorded = [file.recorded EXCEPT ![s] = 1 .. known]
        /\ file'.executed = [file.executed EXCEPT ![s] =
             [v \in Versions |-> IF v \in n + 1 .. known THEN file.executed[s][v] + 1
                                 ELSE file.executed[s][v]]]
  BY CommitWrites
<1>3. file \in Files /\ HistoryIsSchema /\ OpenHasItsSchema /\ TypeOK
  BY DEF IInv, TypeOK
<1>4. n \in Nat /\ known \in Nat /\ ~Gapped(1 .. n)
  BY <1>1, SegmentUngapped, VersionAssumption
<1>5. HistoryIsSchema'
  <2> SUFFICES ASSUME NEW r \in Stores, NEW v \in Versions
               PROVE  /\ file'.executed[r][v] <= 1
                      /\ v \in file'.recorded[r] => file'.executed[r][v] = 1
                      /\ ~Gapped(file'.recorded[r]) /\ file'.executed[r][v] = 1
                           => v \in file'.recorded[r]
    BY DEF HistoryIsSchema
  <2>1. CASE r # s
    <3>1. file'.recorded[r] = file.recorded[r] /\ file'.executed[r] = file.executed[r]
      BY <1>2, <1>3, <2>1 DEF Files
    <3> QED BY <1>3, <3>1 DEF HistoryIsSchema
  <2>2. CASE r = s
    <3>1. /\ file.executed[s][v] \in Nat /\ file.executed[s][v] <= 1
          /\ v \in 1 .. n <=> file.executed[s][v] = 1
      BY <1>1, <1>2, <1>3, <1>4 DEF HistoryIsSchema, Files
    <3>2. /\ file'.recorded[r] = 1 .. known
          /\ file'.executed[r][v] = IF v \in n + 1 .. known THEN file.executed[s][v] + 1
                                    ELSE file.executed[s][v]
      BY <1>1, <1>2, <1>3, <2>2 DEF Files
    <3>3. v \in Nat /\ v >= 1
      BY VersionAssumption DEF Versions
    <3> QED BY <1>4, <3>1, <3>2, <3>3
  <2> QED BY <2>1, <2>2
<1>6. OpenHasItsSchema'
  <2>1. \A r \in Stores : file.recorded[r] \subseteq file'.recorded[r]
    BY <1>1, <1>2, <1>3, <1>4 DEF Files
  <2>2. open' = [open EXCEPT ![p] = @ \cup {s}] /\ open \in [Processes -> SUBSET Stores]
    BY <1>3 DEF Commit, TypeOK
  <2>3. 1 .. Known[p][s] \subseteq file'.recorded[s]
    BY <1>1, <1>2, <1>3 DEF Files
  <2> QED BY <1>3, <2>1, <2>2, <2>3 DEF OpenHasItsSchema
<1>7. TypeOK'
  BY <1>1, <1>3, NoTxTyped, TransactionTyped DEF Commit, Rollback, TypeOK
<1>8. Underway(p)'
  BY <1>3, NoTxTyped DEF TypeOK, Commit, Rollback, Underway, InTransaction
<1>9. \A q \in Processes : Underway(q)'
  BY <1>1, <1>8, OthersIdle DEF Commit, Rollback
<1> QED BY <1>5, <1>6, <1>7, <1>9 DEF IInv

LEMMA CrashKeeps ==
  ASSUME IInv, NEW p \in Processes, Crash(p)
  PROVE  IInv'
<1>1. TypeOK /\ NoTx \in Transactions /\ NoTx.stage = "none"
  BY NoTxTyped DEF IInv
<1>2. TypeOK'
  BY <1>1, NoneAssumption DEF TypeOK, Crash
<1>3. \A q \in Processes : tx'[q] = IF q = p THEN NoTx ELSE tx[q]
  BY <1>1 DEF TypeOK, Crash
<1>4. \A q \in Processes : Underway(q)'
  BY <1>1, <1>3 DEF IInv, Crash, Underway, Progress, InTransaction
<1>5. \A q \in Processes : open'[q] \subseteq open[q]
  BY <1>1 DEF TypeOK, Crash
<1> QED BY <1>2, <1>4, <1>5, FileStands DEF IInv, Crash

-----------------------------------------------------------------------------
(* The theorems.                                                           *)

LEMMA StepKeeps == IInv /\ [Next]_vars => IInv'
<1> SUFFICES ASSUME IInv, [Next]_vars PROVE IInv'
  OBVIOUS
<1>1. ASSUME NEW p \in Processes, Refuse(p) PROVE IInv'
  BY <1>1, EndKeeps DEF Refuse
<1>2. ASSUME NEW p \in Processes, Fail(p) PROVE IInv'
  BY <1>2, EndKeeps DEF Fail
<1>3. CASE UNCHANGED vars
  BY <1>3 DEF vars, IInv, TypeOK, HistoryIsSchema, OpenHasItsSchema, Underway, Progress
<1> QED BY <1>1, <1>2, <1>3, BeginKeeps, ResumeKeeps, ExecuteKeeps, RecordKeeps,
           CommitKeeps, CrashKeeps DEF Next

LEMMA Inductive == Spec => []IInv
  BY InitHolds, StepKeeps, PTL DEF Spec

\* The file, the write lock and the transactions are well-formed, and only the
\* process that has the write lock is in a transaction (migrate.go:60).
THEOREM TypeCorrect == Spec => []TypeOK
<1>1. IInv => TypeOK
  BY DEF IInv
<1> QED BY <1>1, Inductive, PTL

\* However many processes of whatever releases migrate, fail and crash, the
\* ledger says what the schema is, and an opened store has all its migrations
\* (migrate.go:27).
THEOREM LedgerHolds == Spec => []LedgerIsTrue
<1>1. IInv => LedgerIsTrue
  BY DEF IInv, LedgerIsTrue
<1> QED BY <1>1, Inductive, PTL

\* Every change of the file is a whole upgrade of one store (migrate.go:43).
THEOREM UpgradesAreWhole == Spec => UpgradeWhole
<1> DEFINE Whole ==
      file' # file =>
        /\ ~file.userVersion /\ ~file'.userVersion
        /\ \E p \in Processes, s \in Stores :
             /\ ~Gapped(file.recorded[s])
             /\ file.recorded[s] \subseteq file'.recorded[s]
             /\ file'.recorded[s] = 1 .. Known[p][s]
             /\ \A r \in Stores \ {s} :
                  /\ file'.recorded[r] = file.recorded[r]
                  /\ file'.executed[r] = file.executed[r]
<1>1. ASSUME IInv, NEW p \in Processes, Commit(p) PROVE Whole
  <2> DEFINE s == tx[p].store
             known == Known[p][s]
  <2>1. /\ s \in Stores /\ known \in 0 .. MaxVersion /\ file \in Files
        /\ ~file.userVersion /\ ~file'.userVersion
    BY <1>1, CommitWrites DEF IInv, TypeOK
  <2>2. PICK n \in 0 .. known :
          /\ file.recorded[s] = 1 .. n
          /\ file'.recorded = [file.recorded EXCEPT ![s] = 1 .. known]
          /\ file'.executed = [file.executed EXCEPT ![s] =
               [v \in Versions |-> IF v \in n + 1 .. known THEN file.executed[s][v] + 1
                                   ELSE file.executed[s][v]]]
    BY <1>1, CommitWrites
  <2>3. n \in Nat /\ ~Gapped(file.recorded[s])
    BY <2>1, <2>2, SegmentUngapped, VersionAssumption
  <2>4. file'.recorded[s] = 1 .. known /\ file.recorded[s] \subseteq 1 .. known
    BY <2>1, <2>2, VersionAssumption DEF Files
  <2>5. \A r \in Stores \ {s} :
          file'.recorded[r] = file.recorded[r] /\ file'.executed[r] = file.executed[r]
    BY <2>1, <2>2 DEF Files
  <2> QED BY <2>1, <2>3, <2>4, <2>5
<1>2. IInv /\ [Next]_vars => [Whole]_vars
  BY <1>1 DEF Next, vars, Begin, Refuse, Resume, Execute, Record, Fail, Crash, Rollback
<1> QED BY <1>2, Inductive, PTL DEF Spec, UpgradeWhole

=============================================================================
