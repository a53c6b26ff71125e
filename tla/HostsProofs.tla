---------------------------- MODULE HostsProofs ----------------------------
(***************************************************************************)
(* Theorems about Hosts, for any resources, tasks, leases and emails: what *)
(* the packages over a leasing manager build on it, and the LockService    *)
(* they build it on.                                                       *)
(***************************************************************************)
EXTENDS Hosts, FiniteSetTheorems, FunctionTheorems, SequenceTheorems, TLAPS

-----------------------------------------------------------------------------
(* Pools, as sequences that list each of their members once.               *)

Distinct(s) == \A i, j \in DOMAIN s : s[i] = s[j] => i = j

LEMMA DistinctCounts ==
  ASSUME NEW s \in Seq(Resources), Distinct(s)
  PROVE  Len(s) = Cardinality(ToSet(s)) /\ IsFiniteSet(ToSet(s))
<1>1. Len(s) \in Nat /\ DOMAIN s = 1 .. Len(s) /\ s \in [1 .. Len(s) -> Resources]
  BY LenProperties
<1>2. s \in Bijection(1 .. Len(s), ToSet(s))
  BY <1>1 DEF Distinct, ToSet, Bijection, Injection, Surjection, IsInjective
<1>3. IsFiniteSet(1 .. Len(s)) /\ Cardinality(1 .. Len(s)) = Len(s)
  BY <1>1, FS_Interval
<1> QED BY <1>2, <1>3, FS_Bijection DEF ExistsBijection

LEMMA AppendDistinct ==
  ASSUME NEW s \in Seq(Resources), Distinct(s), NEW r \in Resources, r \notin ToSet(s)
  PROVE  /\ Append(s, r) \in Seq(Resources) /\ Distinct(Append(s, r))
         /\ ToSet(Append(s, r)) = ToSet(s) \cup {r}
<1>1. Len(s) \in Nat /\ DOMAIN s = 1 .. Len(s) /\ s \in [1 .. Len(s) -> Resources]
  BY LenProperties
<1>2. /\ Append(s, r) \in Seq(Resources) /\ Len(Append(s, r)) = Len(s) + 1
      /\ \A i \in 1 .. Len(s) : Append(s, r)[i] = s[i]
      /\ Append(s, r)[Len(s) + 1] = r
  BY <1>1
<1>3. DOMAIN Append(s, r) = 1 .. Len(s) + 1
  BY <1>2, LenProperties
<1>4. \A i \in 1 .. Len(s) + 1 : i \in 1 .. Len(s) \/ i = Len(s) + 1
  BY <1>1
<1>5. Distinct(Append(s, r))
  BY <1>1, <1>2, <1>3, <1>4 DEF Distinct, ToSet
<1>6. ToSet(Append(s, r)) = ToSet(s) \cup {r}
  BY <1>1, <1>2, <1>3, <1>4 DEF ToSet
<1> QED BY <1>2, <1>5, <1>6

LEMMA RemoveDistinct ==
  ASSUME NEW s \in Seq(Resources), Distinct(s), NEW i \in DOMAIN s
  PROVE  /\ RemoveAt(s, i) \in Seq(Resources) /\ Distinct(RemoveAt(s, i))
         /\ ToSet(RemoveAt(s, i)) = ToSet(s) \ {s[i]}
<1> DEFINE u == RemoveAt(s, i)
<1>1. Len(s) \in Nat /\ DOMAIN s = 1 .. Len(s) /\ s \in [1 .. Len(s) -> Resources]
  BY LenProperties
<1>2. /\ SubSeq(s, 1, i - 1) \in Seq(Resources) /\ Len(SubSeq(s, 1, i - 1)) = i - 1
      /\ \A j \in 1 .. i - 1 : SubSeq(s, 1, i - 1)[j] = s[j]
  BY <1>1, SubSeqProperties
<1>3. /\ SubSeq(s, i + 1, Len(s)) \in Seq(Resources) /\ Len(SubSeq(s, i + 1, Len(s))) = Len(s) - i
      /\ \A j \in 1 .. Len(s) - i : SubSeq(s, i + 1, Len(s))[j] = s[i + j]
  <2>1. i + 1 \in Int /\ Len(s) \in Int /\ \A j \in i + 1 .. Len(s) : s[j] \in Resources
    BY <1>1
  <2>2. /\ SubSeq(s, i + 1, Len(s)) \in Seq(Resources)
        /\ Len(SubSeq(s, i + 1, Len(s))) = IF i + 1 <= Len(s) THEN Len(s) - (i + 1) + 1 ELSE 0
        /\ \A j \in 1 .. Len(s) - (i + 1) + 1 : SubSeq(s, i + 1, Len(s))[j] = s[i + 1 + j - 1]
    BY <2>1, SubSeqProperties
  <2> QED BY <1>1, <2>2
<1>4. /\ u \in Seq(Resources) /\ Len(u) = Len(s) - 1
      /\ \A j \in 1 .. Len(s) - 1 : u[j] = IF j < i THEN s[j] ELSE s[j + 1]
  <2> DEFINE a == SubSeq(s, 1, i - 1)
             b == SubSeq(s, i + 1, Len(s))
  <2>1. u = a \o b
    BY DEF RemoveAt
  <2>2. /\ a \in Seq(Resources) /\ Len(a) = i - 1 /\ \A j \in 1 .. i - 1 : a[j] = s[j]
        /\ b \in Seq(Resources) /\ Len(b) = Len(s) - i /\ \A j \in 1 .. Len(s) - i : b[j] = s[i + j]
    BY <1>2, <1>3
  <2> HIDE DEF a, b, u
  <2>3. /\ u \in Seq(Resources) /\ Len(u) = Len(a) + Len(b)
        /\ \A j \in 1 .. Len(a) + Len(b) : u[j] = IF j <= Len(a) THEN a[j] ELSE b[j - Len(a)]
    BY <2>1, <2>2, ConcatProperties
  <2>4. PICK n \in Nat : n = Len(s) /\ i \in 1 .. n
    BY <1>1
  <2>5. /\ Len(u) = n - 1
        /\ \A j \in 1 .. n - 1 : u[j] = IF j <= i - 1 THEN a[j] ELSE b[j - (i - 1)]
        /\ \A j \in 1 .. i - 1 : a[j] = s[j]
        /\ \A j \in 1 .. n - i : b[j] = s[i + j]
    <3>1. Len(a) = i - 1 /\ Len(b) = n - i /\ i \in 1 .. n
      BY <2>2, <2>4
    <3>2. (i - 1) + (n - i) = n - 1
      BY <3>1
    <3>3. /\ Len(u) = n - 1
          /\ \A j \in 1 .. n - 1 : u[j] = IF j <= i - 1 THEN a[j] ELSE b[j - (i - 1)]
      BY <2>3, <3>1, <3>2
    <3>4. \A j \in 1 .. n - i : b[j] = s[i + j]
      BY <2>2, <2>4
    <3> QED BY <2>2, <3>3, <3>4
  <2>6. ASSUME NEW j \in 1 .. n - 1
        PROVE  u[j] = IF j < i THEN s[j] ELSE s[j + 1]
    <3>1. CASE j < i
      BY <2>4, <2>5, <3>1
    <3>2. CASE j >= i
      <4>1. PICK k \in 1 .. n - i : k = j - (i - 1)
        BY <2>4, <3>2
      <4>2. u[j] = b[k] /\ b[k] = s[i + k] /\ i + k = j + 1
        BY <2>4, <2>5, <3>2, <4>1
      <4> QED BY <2>4, <3>2, <4>2
    <3> QED BY <2>4, <3>1, <3>2
  <2> QED BY <2>3, <2>4, <2>5, <2>6
<1>5. DOMAIN u = 1 .. Len(s) - 1
  BY <1>4, LenProperties
<1> HIDE DEF u
<1>6. Distinct(u)
  <2> SUFFICES ASSUME NEW j \in 1 .. Len(s) - 1, NEW k \in 1 .. Len(s) - 1, u[j] = u[k]
               PROVE  j = k
    BY <1>5 DEF Distinct
  <2>1. (IF j < i THEN j ELSE j + 1) = (IF k < i THEN k ELSE k + 1)
    <3>1. PICK a \in 1 .. Len(s) : a = (IF j < i THEN j ELSE j + 1) /\ u[j] = s[a]
      BY <1>1, <1>4
    <3>2. PICK b \in 1 .. Len(s) : b = (IF k < i THEN k ELSE k + 1) /\ u[k] = s[b]
      BY <1>1, <1>4
    <3>3. a = b
      BY <1>1, <3>1, <3>2 DEF Distinct
    <3> QED BY <3>1, <3>2, <3>3
  <2> QED BY <1>1, <2>1
<1>7. ToSet(u) \subseteq ToSet(s) \ {s[i]}
  BY <1>1, <1>4, <1>5 DEF Distinct, ToSet
<1>8. ASSUME NEW j \in 1 .. Len(s), j # i
      PROVE  s[j] \in ToSet(u)
  <2>1. CASE j < i
    BY <1>1, <1>4, <1>5, <1>8, <2>1 DEF ToSet
  <2>2. CASE j > i
    <3>1. j - 1 \in DOMAIN u /\ u[j - 1] = s[j]
      BY <1>1, <1>4, <1>5, <2>2
    <3> QED BY <3>1 DEF ToSet
  <2> QED BY <1>1, <1>8, <2>1, <2>2
<1>9. ToSet(s) \ {s[i]} \subseteq ToSet(u)
  BY <1>1, <1>8 DEF ToSet
<1> QED BY <1>4, <1>6, <1>7, <1>9 DEF u

LEMMA AscendingDistinct ==
  ASSUME NEW S \in SUBSET Nat, IsFiniteSet(S), NEW s \in Ascending(S)
  PROVE  s \in Seq(S) /\ Distinct(s) /\ ToSet(s) = S
<1>1. Cardinality(S) \in Nat
  BY FS_CardinalityType
<1>2. s \in [1 .. Cardinality(S) -> S] /\ ToSet(s) = S /\ DOMAIN s = 1 .. Cardinality(S)
  BY DEF Ascending
<1>3. s \in Seq(S)
  BY <1>1, <1>2
<1>4. \A i, j \in DOMAIN s : i < j => s[i] < s[j]
  BY DEF Ascending
<1>5. Distinct(s)
  <2> SUFFICES ASSUME NEW i \in DOMAIN s, NEW j \in DOMAIN s, i < j PROVE s[i] # s[j]
    BY <1>1, <1>2 DEF Distinct
  <2>1. s[i] \in Nat /\ s[i] < s[j]
    BY <1>2, <1>4
  <2> QED BY <2>1
<1> QED BY <1>2, <1>3, <1>5

-----------------------------------------------------------------------------
(* The inductive invariant.                                                *)

Deletions ==
  [pc: {"idle", "held", "locked", "deleting"}, email: Emails \cup {None},
   guard: BOOLEAN, stranded: SUBSET Tasks]

StoredRows == [tally: 0 .. MaxTally, ref: Emails \cup {None}]

LocksInv ==
  /\ lockedBy \in [Resources -> Tasks \cup {None}]
  /\ uses \in [Callers -> [task: Tasks, resource: Resources] \cup {None}]

\* The pool is the store's rows, each listed once.
RowsInv ==
  /\ order \in Seq(Resources) /\ Distinct(order)
  /\ tally \in [Resources -> 0 .. MaxTally] /\ ref \in [Resources -> Emails \cup {None}]
  /\ rows \in [Resources -> StoredRows \cup {None}]
  /\ \A r \in Resources : rows[r] = IF Pooled(r) THEN Row(r) ELSE None

GroupInv ==
  groupRef \in Emails \cup {None} /\ strategy \in Strategies /\ cursor \in 0 .. MaxPicks

\* A Lease is a use of a pooled resource, and it is in use while it reports.
Loan(c) ==
  IF lease[c] = None THEN uses[c] = None /\ once[c] # "reporting"
  ELSE uses[c] # None /\ uses[c].resource = lease[c] /\ Pooled(lease[c])

LoansInv ==
  /\ lease \in [Callers -> Resources \cup {None}]
  /\ once \in [Callers -> {"unused", "reporting", "told"}]
  /\ \A c \in Callers : Loan(c)
  /\ \A r \in Resources : lockedBy[r] # None => Pooled(r)

EmailsInv ==
  /\ inventory \subseteq Emails /\ stored = inventory /\ guarded \in BOOLEAN
  /\ del \in Deletions /\ (del.pc # "idle" => del.email \in Emails)

PoolInv == kind \in Kinds /\ LocksInv /\ RowsInv /\ GroupInv /\ LoansInv /\ EmailsInv

\* What a guarded deletion has learnt by its two questions.
GuardInv ==
  /\ del.pc \in {"held", "locked"} => del.guard
  /\ del.guard /\ del.pc \in {"locked", "deleting"} => since.held = {}
  /\ del.guard /\ del.pc = "deleting" =>
       since.locked \subseteq del.stranded /\ del.stranded \subseteq since.ever

\* The places from lo up to p, around the end of the list, are one pick ahead.
Ahead(j, lo, p) == IF lo <= p THEN lo <= j /\ j < p ELSE lo <= j \/ j < p

Turning(list, count, at) ==
  /\ Distinct(list)
  /\ \E q \in 0 .. at, lo \in 0 .. Len(list) - 1 : \A i \in 1 .. Len(list) :
       count[list[i]] = IF Ahead(i - 1, lo, at % Len(list)) THEN q + 1 ELSE q

TurnInv ==
  /\ picks \in [list: Seq(Resources), count: [Resources -> Nat]]
  /\ kind # "proxy" => picks = NoPicks
  /\ strategy = "roundRobin" /\ picks.list # <<>> => Turning(picks.list, picks.count, cursor)

-----------------------------------------------------------------------------
(* Leases, pool, rows and emails.                                          *)

LEMMA PoolImplies ==
  ASSUME PoolInv
  PROVE  TypeOK /\ OutcomesKept
<1>1. Len(order) = Cardinality(ToSet(order))
  BY DistinctCounts DEF PoolInv, RowsInv
<1>2. TypeOK
  BY <1>1 DEF PoolInv, LocksInv, RowsInv, GroupInv, LoansInv, EmailsInv, StoredRows,
     Deletions, TypeOK
<1>3. OutcomesKept
  BY DEF PoolInv, RowsInv, LoansInv, Loan, OutcomesKept
<1> QED BY <1>2, <1>3

LEMMA RowsStand ==
  ASSUME RowsInv, UNCHANGED <<order, tally, ref, rows>>
  PROVE  RowsInv' /\ \A r : Pooled(r)' = Pooled(r)
<1>1. \A r : Pooled(r)' = Pooled(r) /\ Row(r)' = Row(r)
  BY DEF Pooled, Row
<1> QED BY <1>1 DEF RowsInv

LEMMA LoansStand ==
  ASSUME LoansInv, UNCHANGED <<locks, lease, once>>, \A r : Pooled(r) => Pooled(r)'
  PROVE  LoansInv'
BY DEF LoansInv, Loan, locks

\* Saving the row of a resource that is or becomes pooled.
LEMMA SaveKeeps ==
  ASSUME RowsInv, NEW r \in Resources, NEW row \in StoredRows, Save(r, row),
         order' \in Seq(Resources), Distinct(order'), ToSet(order') = ToSet(order) \cup {r}
  PROVE  RowsInv' /\ \A s : Pooled(s) => Pooled(s)'
<1>1. \A s : Pooled(s)' <=> Pooled(s) \/ s = r
  BY DEF Pooled
<1>2. /\ rows' = [rows EXCEPT ![r] = row] /\ tally' = [tally EXCEPT ![r] = row.tally]
      /\ ref' = [ref EXCEPT ![r] = row.ref]
  BY DEF Save, SaveRow
<1>3. row.tally \in 0 .. MaxTally /\ row.ref \in Emails \cup {None}
      /\ row = [tally |-> row.tally, ref |-> row.ref]
  BY DEF StoredRows
<1>4. /\ tally' \in [Resources -> 0 .. MaxTally] /\ ref' \in [Resources -> Emails \cup {None}]
      /\ rows' \in [Resources -> StoredRows \cup {None}]
  BY <1>2, <1>3 DEF RowsInv
<1>5. \A s \in Resources : rows'[s] = IF Pooled(s)' THEN Row(s)' ELSE None
  BY <1>1, <1>2, <1>3 DEF RowsInv, Row
<1> QED BY <1>1, <1>4, <1>5 DEF RowsInv

LEMMA AddKeeps ==
  ASSUME PoolInv, NEW r \in Resources, NEW e \in Emails \cup {None}, Add(r, e), UNCHANGED kind
  PROVE  PoolInv'
<1>1. [tally |-> 0, ref |-> e] \in StoredRows
  BY BoundsAssumption DEF StoredRows
<1>2. /\ order' \in Seq(Resources) /\ Distinct(order')
      /\ ToSet(order') = ToSet(order) \cup {r}
  BY AppendDistinct DEF PoolInv, RowsInv, Add, Pooled
<1>3. Save(r, [tally |-> 0, ref |-> e])
  BY DEF Add
<1>4. RowsInv' /\ \A s : Pooled(s) => Pooled(s)'
  BY <1>1, <1>2, <1>3, SaveKeeps DEF PoolInv
<1>5. UNCHANGED <<locks, lease, once, groupRef, strategy, cursor, emails>>
  BY DEF Add
<1>6. LoansInv'
  BY <1>4, <1>5, LoansStand DEF PoolInv
<1> QED BY <1>4, <1>5, <1>6 DEF PoolInv, LocksInv, GroupInv, EmailsInv, locks, emails

LEMMA RelinkKeeps ==
  ASSUME PoolInv, NEW r \in Resources, NEW e \in Emails \cup {None}, Relink(r, e), UNCHANGED kind
  PROVE  PoolInv'
<1>1. PICK row : row = [tally |-> tally[r], ref |-> e]
  OBVIOUS
<1>2. row \in StoredRows
  BY <1>1 DEF PoolInv, RowsInv, StoredRows
<1>3. /\ order' \in Seq(Resources) /\ Distinct(order')
      /\ ToSet(order') = ToSet(order) \cup {r}
  BY DEF PoolInv, RowsInv, Relink, Pooled
<1>4. Save(r, row)
  BY <1>1 DEF Relink
<1>5. RowsInv' /\ \A s : Pooled(s) => Pooled(s)'
  BY <1>2, <1>3, <1>4, SaveKeeps DEF PoolInv
<1>6. UNCHANGED <<locks, lease, once, groupRef, strategy, cursor, emails>>
  BY DEF Relink
<1>7. LoansInv'
  BY <1>5, <1>6, LoansStand DEF PoolInv
<1> QED BY <1>5, <1>6, <1>7 DEF PoolInv, LocksInv, GroupInv, EmailsInv, locks, emails

\* The outcome is tallied on a proxy that is still pooled.
LEMMA TallyKeeps ==
  ASSUME PoolInv, NEW c \in Callers, Tally(c), UNCHANGED kind
  PROVE  PoolInv'
<1>1. PICK r \in Resources : r = lease[c] /\ Pooled(r) /\ uses[c] # None /\ tally[r] < MaxTally
  BY DEF PoolInv, LoansInv, Loan, Tally
<1>2. RowsInv' /\ \A s : Pooled(s) => Pooled(s)'
  <2>1. CASE UNCHANGED <<rows, tally, ref>>
    BY <2>1, RowsStand DEF PoolInv, Tally
  <2>2. CASE Save(r, [tally |-> tally[r] + 1, ref |-> ref[r]])
    <3>1. PICK row : row = [tally |-> tally[r] + 1, ref |-> ref[r]]
      OBVIOUS
    <3>2. row \in StoredRows
      BY <1>1, <3>1, BoundsAssumption DEF PoolInv, RowsInv, StoredRows
    <3>3. /\ order' \in Seq(Resources) /\ Distinct(order')
          /\ ToSet(order') = ToSet(order) \cup {r}
      BY <1>1 DEF PoolInv, RowsInv, Tally, Pooled
    <3> QED BY <2>2, <3>1, <3>2, <3>3, SaveKeeps DEF PoolInv
  <2> QED BY <1>1, <2>1, <2>2 DEF Tally
<1>3. /\ UNCHANGED <<locks, lease, groupRef, strategy, cursor, emails>>
      /\ once' = [once EXCEPT ![c] = "told"]
  BY DEF Tally
<1>4. LoansInv'
  BY <1>1, <1>2, <1>3 DEF PoolInv, LoansInv, Loan, locks
<1> QED BY <1>2, <1>3, <1>4 DEF PoolInv, LocksInv, GroupInv, EmailsInv, locks, emails

\* A resource that is in use stays, so no Lease loses its row.
LEMMA DeleteKeeps ==
  ASSUME PoolInv, NEW r \in Resources, Delete(r), UNCHANGED kind
  PROVE  PoolInv'
<1>1. PICK i \in DOMAIN order : order[i] = r /\ order' = RemoveAt(order, i)
  BY DEF Delete
<1>2. /\ order' \in Seq(Resources) /\ Distinct(order')
      /\ ToSet(order') = ToSet(order) \ {r}
  BY <1>1, RemoveDistinct DEF PoolInv, RowsInv
<1>3. \A s : Pooled(s)' <=> Pooled(s) /\ s # r
  BY <1>2 DEF Pooled
<1>4. /\ rows' = [rows EXCEPT ![r] = None] /\ tally' = [tally EXCEPT ![r] = 0]
      /\ ref' = [ref EXCEPT ![r] = None] /\ UNCHANGED <<uses, lease, once, groupRef, strategy, cursor, emails>>
      /\ lockedBy' = [s \in Resources |-> IF s \in {r} THEN None ELSE lockedBy[s]]
      /\ Service!Using(r) = {}
  BY DEF Delete, DropRow, Service!Remove
<1>5. RowsInv'
  <2>1. /\ tally' \in [Resources -> 0 .. MaxTally] /\ ref' \in [Resources -> Emails \cup {None}]
        /\ rows' \in [Resources -> StoredRows \cup {None}]
    BY <1>4, BoundsAssumption DEF PoolInv, RowsInv
  <2>2. \A s \in Resources : rows'[s] = IF Pooled(s)' THEN Row(s)' ELSE None
    BY <1>3, <1>4 DEF PoolInv, RowsInv, Row
  <2> QED BY <1>2, <2>1, <2>2 DEF RowsInv
<1>6. \A c \in Callers : lease[c] # r
  BY <1>4, NoneAssumption DEF PoolInv, LoansInv, Loan, Service!Using
<1>7. LoansInv'
  BY <1>3, <1>4, <1>6 DEF PoolInv, LoansInv, Loan
<1>8. LocksInv'
  BY <1>4 DEF PoolInv, LocksInv
<1> QED BY <1>4, <1>5, <1>7, <1>8 DEF PoolInv, GroupInv, EmailsInv, emails

LEMMA UpdateGroupKeeps ==
  ASSUME PoolInv, NEW e \in Emails \cup {None}, NEW s \in Strategies, UpdateGroup(e, s),
         UNCHANGED kind
  PROVE  PoolInv'
<1>1. UNCHANGED <<locks, order, tally, ref, rows, lease, once, emails>>
  BY DEF UpdateGroup
<1>2. GroupInv'
  BY BoundsAssumption DEF PoolInv, GroupInv, UpdateGroup
<1>3. RowsInv' /\ LoansInv'
  BY <1>1, RowsStand, LoansStand DEF PoolInv
<1> QED BY <1>1, <1>2, <1>3 DEF PoolInv, LocksInv, EmailsInv, locks, emails

LEMMA UnlockKeeps ==
  ASSUME PoolInv, NEW r \in Resources, Unlock(r), UNCHANGED kind
  PROVE  PoolInv'
<1>1. /\ lockedBy' = [lockedBy EXCEPT ![r] = None]
      /\ UNCHANGED <<uses, order, tally, ref, groupRef, strategy, cursor, rows, lease, once, emails>>
  BY DEF Unlock, Service!GiveUp, pool
<1>2. RowsInv' /\ \A s : Pooled(s)' = Pooled(s)
  BY <1>1, RowsStand DEF PoolInv
<1>3. LocksInv' /\ LoansInv'
  BY <1>1, <1>2 DEF PoolInv, LocksInv, LoansInv, Loan
<1> QED BY <1>1, <1>2, <1>3 DEF PoolInv, GroupInv, EmailsInv, emails

LEMMA RotateTyped ==
  ASSUME GroupInv, NEW list, NEW r, Rotate(list, r) \/ Pinned
  PROVE  cursor' \in 0 .. MaxPicks
<1>1. cursor \in 0 .. MaxPicks /\ MaxPicks \in Nat
  BY BoundsAssumption DEF GroupInv
<1>2. CASE Pinned
  BY <1>1, <1>2 DEF Pinned
<1>3. CASE Rotate(list, r) /\ kind = "proxy"
  BY <1>1, <1>3 DEF Rotate
<1>4. CASE Rotate(list, r) /\ kind # "proxy"
  BY <1>1, <1>4 DEF Rotate
<1> QED BY <1>2, <1>3, <1>4

LEMMA AcquireKeeps ==
  ASSUME PoolInv, NEW c \in Callers, NEW t \in Tasks, NEW r \in Resources,
         NEW pinned \in BOOLEAN, NEW lock \in BOOLEAN, Acquire(c, t, r, pinned, lock),
         UNCHANGED kind
  PROVE  PoolInv'
<1>1. /\ UNCHANGED <<order, tally, ref, groupRef, strategy, rows, emails>>
      /\ lease' = [lease EXCEPT ![c] = r] /\ once' = [once EXCEPT ![c] = "unused"]
  BY DEF Acquire
<1>2. RowsInv' /\ \A s : Pooled(s)' = Pooled(s)
  BY <1>1, RowsStand DEF PoolInv
<1>3. cursor' \in 0 .. MaxPicks
  <2>1. CASE UNCHANGED <<cursor, picks>>
    BY <2>1 DEF PoolInv, GroupInv
  <2>2. CASE Pinned \/ \E list \in Candidates(lock) : Rotate(list, r)
    BY <2>2, RotateTyped DEF PoolInv
  <2> QED BY <2>1, <2>2 DEF Acquire
<1>4. /\ uses' = [uses EXCEPT ![c] = [task |-> t, resource |-> r]]
      /\ lockedBy' = lockedBy \/ lockedBy' = [lockedBy EXCEPT ![r] = t]
  BY DEF Acquire, Service!UseOwn, Service!Lock, Service!Share, Service!Use
<1>5. Pooled(r)
  <2>1. CASE Service!UseOwn(c, t, r)
    BY <2>1, NoneAssumption DEF PoolInv, LoansInv, Service!UseOwn
  <2>2. CASE Candidate(r, lock)
    BY <2>2 DEF Candidate
  <2> QED BY <2>1, <2>2 DEF Acquire
<1>6. PICK u \in [task: Tasks, resource: Resources] : u = [task |-> t, resource |-> r]
  OBVIOUS
<1>7. u # None /\ u.resource = r /\ r # None
  BY <1>6, NoneAssumption
<1>8. LocksInv'
  BY <1>4, <1>6 DEF PoolInv, LocksInv
<1>9. LoansInv'
  <2>1. \A d \in Callers : /\ uses'[d] = IF d = c THEN u ELSE uses[d]
                           /\ lease'[d] = IF d = c THEN r ELSE lease[d]
                           /\ once'[d] = IF d = c THEN "unused" ELSE once[d]
    BY <1>1, <1>4, <1>6 DEF PoolInv, LocksInv, LoansInv
  <2>2. \A d \in Callers : Loan(d)'
    BY <1>2, <1>5, <1>7, <2>1 DEF PoolInv, LoansInv, Loan
  <2>3. \A s \in Resources : lockedBy'[s] # None => Pooled(s)'
    BY <1>2, <1>4, <1>5 DEF PoolInv, LocksInv, LoansInv
  <2>4. /\ lease' \in [Callers -> Resources \cup {None}]
        /\ once' \in [Callers -> {"unused", "reporting", "told"}]
    BY <1>1 DEF PoolInv, LoansInv
  <2> QED BY <2>2, <2>3, <2>4 DEF LoansInv
<1> QED BY <1>1, <1>2, <1>3, <1>8, <1>9 DEF PoolInv, GroupInv, EmailsInv, emails

LEMMA LockFailsKeeps ==
  ASSUME PoolInv, NEW c \in Callers, NEW t \in Tasks, NEW r \in Resources, LockFails(c, t, r),
         UNCHANGED kind
  PROVE  PoolInv'
<1>1. UNCHANGED <<locks, order, tally, ref, groupRef, strategy, rows, lease, once, emails>>
  BY DEF LockFails
<1>2. cursor' \in 0 .. MaxPicks
  BY RotateTyped DEF PoolInv, LockFails
<1>3. RowsInv' /\ LoansInv'
  BY <1>1, RowsStand, LoansStand DEF PoolInv
<1> QED BY <1>1, <1>2, <1>3 DEF PoolInv, LocksInv, GroupInv, EmailsInv, locks, emails

LEMMA ReportKeeps ==
  ASSUME PoolInv, NEW c \in Callers, Report(c), UNCHANGED kind
  PROVE  PoolInv'
<1>1. /\ UNCHANGED <<locks, pool, lease, emails>>
      /\ uses[c] # None /\ once' = [once EXCEPT ![c] = "reporting"]
  BY DEF Report
<1>2. RowsInv' /\ \A s : Pooled(s)' = Pooled(s)
  BY <1>1, RowsStand DEF PoolInv, pool
<1>3. LoansInv'
  BY <1>1, <1>2 DEF PoolInv, LoansInv, Loan, locks
<1> QED BY <1>1, <1>2, <1>3 DEF PoolInv, LocksInv, GroupInv, EmailsInv, locks, pool, emails

LEMMA ReleaseKeeps ==
  ASSUME PoolInv, NEW c \in Callers, Release(c), UNCHANGED kind
  PROVE  PoolInv'
<1>1. /\ UNCHANGED <<lockedBy, pool, emails>>
      /\ uses' = [uses EXCEPT ![c] = None] /\ lease' = [lease EXCEPT ![c] = None]
      /\ once' = [once EXCEPT ![c] = "unused"]
  BY DEF Release, Service!Return
<1>2. RowsInv' /\ \A s : Pooled(s)' = Pooled(s)
  BY <1>1, RowsStand DEF PoolInv, pool
<1>3. LocksInv' /\ LoansInv'
  BY <1>1, <1>2 DEF PoolInv, LocksInv, LoansInv, Loan
<1> QED BY <1>1, <1>2, <1>3 DEF PoolInv, GroupInv, EmailsInv, pool, emails

LEMMA NoDeletionTyped == NoDeletion \in Deletions /\ NoDeletion.pc = "idle"
BY DEF NoDeletion, Deletions

LEMMA EmailStepKeeps ==
  ASSUME PoolInv, EmailStep, UNCHANGED kind
  PROVE  PoolInv'
<1>1. UNCHANGED <<locks, pool, lease, once>>
  BY DEF EmailStep, AddEmail, DeleteEmail, GuardDeletes, AskHeld, AskLocked, DropEmail
<1>2. RowsInv' /\ LoansInv'
  BY <1>1, RowsStand, LoansStand DEF PoolInv, pool
<1>3. Locked(del.email) \subseteq Tasks
  BY DEF Locked, Referencing, PoolInv, LocksInv
<1>4. EmailsInv'
  <2>1. ASSUME NEW e \in Emails, AddEmail(e) PROVE EmailsInv'
    BY <2>1 DEF PoolInv, EmailsInv, AddEmail
  <2>2. ASSUME NEW e \in Emails, DeleteEmail(e) PROVE EmailsInv'
    BY <2>2 DEF PoolInv, EmailsInv, Deletions, DeleteEmail
  <2>3. CASE GuardDeletes
    BY <2>3 DEF PoolInv, EmailsInv, GuardDeletes
  <2>4. CASE AskHeld
    BY <2>4, NoDeletionTyped DEF PoolInv, EmailsInv, Deletions, AskHeld
  <2>5. CASE AskLocked
    BY <1>3, <2>5 DEF PoolInv, EmailsInv, Deletions, AskLocked
  <2>6. CASE DropEmail
    BY <2>6, NoDeletionTyped DEF PoolInv, EmailsInv, DropEmail
  <2> QED BY <2>1, <2>2, <2>3, <2>4, <2>5, <2>6 DEF EmailStep
<1> QED BY <1>1, <1>2, <1>4 DEF PoolInv, LocksInv, GroupInv, locks, pool

\* The next process finds the pool it left, in the store's order.
LEMMA RestartKeeps ==
  ASSUME PoolInv, Restart, UNCHANGED kind
  PROVE  PoolInv'
<1>1. /\ uses' = [c \in Callers |-> None] /\ UNCHANGED <<lockedBy, groupRef, strategy, rows, stored>>
      /\ order' \in List /\ cursor' = 0
      /\ tally' = [r \in Resources |-> IF rows[r] = None THEN 0 ELSE rows[r].tally]
      /\ ref' = [r \in Resources |-> IF rows[r] = None THEN None ELSE rows[r].ref]
      /\ lease' = [c \in Callers |-> None] /\ once' = [c \in Callers |-> "unused"]
      /\ inventory' = stored /\ guarded' = FALSE /\ del' = NoDeletion
  BY DEF Restart, Service!Lose
<1>2. \A r \in Resources : rows[r] # None <=> Pooled(r)
  BY NoneRowAssumption DEF PoolInv, RowsInv, Row, StoredRows
<1> DEFINE S == {r \in Resources : rows[r] # None}
<1>3. S = ToSet(order)
  BY <1>2, LenProperties DEF PoolInv, RowsInv, Pooled, ToSet
<1>4. IsFiniteSet(S) /\ S \subseteq Nat
  BY <1>3, DistinctCounts, ResourcesAssumption DEF PoolInv, RowsInv
<1>5. order' \in Seq(S) /\ Distinct(order') /\ ToSet(order') = S
  BY <1>1, <1>4, AscendingDistinct DEF List
<1>6. order' \in Seq(Resources)
  BY <1>5, SeqMonotonic
<1>7. \A r \in Resources : Pooled(r)' <=> rows[r] # None
  BY <1>5 DEF Pooled
<1>8. RowsInv'
  <2>1. \A r \in Resources : rows[r] \in StoredRows \cup {None}
    BY DEF PoolInv, RowsInv
  <2>2. tally' \in [Resources -> 0 .. MaxTally] /\ ref' \in [Resources -> Emails \cup {None}]
    BY <1>1, <2>1, BoundsAssumption DEF StoredRows
  <2>3. \A r \in Resources : rows'[r] = IF Pooled(r)' THEN Row(r)' ELSE None
    BY <1>1, <1>7, <2>1 DEF StoredRows, Row
  <2> QED BY <1>1, <1>5, <1>6, <2>2, <2>3 DEF PoolInv, RowsInv
<1>9. LocksInv' /\ LoansInv'
  BY <1>1, <1>2, <1>7 DEF PoolInv, LocksInv, LoansInv, Loan
<1>10. GroupInv' /\ EmailsInv'
  <2>1. GroupInv'
    BY <1>1, BoundsAssumption DEF PoolInv, GroupInv
  <2>2. EmailsInv'
    BY <1>1, NoDeletionTyped DEF PoolInv, EmailsInv
  <2> QED BY <2>1, <2>2
<1> QED BY <1>8, <1>9, <1>10 DEF PoolInv

LEMMA PoolInit ==
  ASSUME Init
  PROVE  PoolInv
<1>1. order = <<>> /\ order \in Seq(Resources) /\ Distinct(order) /\ ToSet(order) = {}
  BY DEF Init, Distinct, ToSet
<1>2. RowsInv
  BY <1>1, BoundsAssumption DEF Init, RowsInv, Pooled
<1>3. LocksInv /\ LoansInv
  BY DEF Init, Service!Init, LocksInv, LoansInv, Loan
<1>4. GroupInv
  BY BoundsAssumption DEF Init, GroupInv, Strategies
<1>5. EmailsInv
  BY NoDeletionTyped DEF Init, EmailsInv
<1> QED BY <1>2, <1>3, <1>4, <1>5 DEF Init, PoolInv

LEMMA PoolStepKeeps ==
  ASSUME PoolInv, [Next]_vars
  PROVE  PoolInv'
<1>1. CASE UNCHANGED vars
  <2>1. UNCHANGED <<kind, locks, pool, lease, once, emails>>
    BY <1>1 DEF vars
  <2>2. RowsInv' /\ LoansInv'
    BY <2>1, RowsStand, LoansStand DEF PoolInv, pool
  <2> QED BY <2>1, <2>2 DEF PoolInv, LocksInv, GroupInv, EmailsInv, locks, pool, emails
<1>2. ASSUME NEW c \in Callers, LeaseStep(c), UNCHANGED kind PROVE PoolInv'
  BY <1>2, AcquireKeeps, LockFailsKeeps, ReportKeeps, TallyKeeps, ReleaseKeeps DEF LeaseStep
<1>3. ASSUME PoolStep, UNCHANGED kind PROVE PoolInv'
  BY <1>3, AddKeeps, DeleteKeeps, RelinkKeeps, UnlockKeeps, UpdateGroupKeeps DEF PoolStep
<1> QED BY <1>1, <1>2, <1>3, EmailStepKeeps, RestartKeeps DEF Next

\* Pool, rows, leases and emails keep their types; each resource is pooled once
\* (leasing/manager.go:330).
THEOREM TypeCorrect == Spec => []TypeOK
<1>1. PoolInv => TypeOK
  BY PoolImplies
<1> QED BY <1>1, PoolInit, PoolStepKeeps, PTL DEF Spec

\* An outcome is reported on a proxy that is still pooled, and its tally is in the
\* row ("the tally goes first", proxies/manager.go:84).
THEOREM OutcomesAreKept == Spec => []OutcomesKept
<1>1. PoolInv => OutcomesKept
  BY PoolImplies
<1> QED BY <1>1, PoolInit, PoolStepKeeps, PTL DEF Spec

-----------------------------------------------------------------------------
(* A deletion and the questions it asks.                                   *)

\* What the guard asks about is what Track watches.
LEMMA ReferencingConcerned ==
  PoolInv /\ del.pc # "idle" =>
    /\ Concerned = Referencing(del.email)
    /\ HeldNow = Held(del.email) /\ LockedNow = Locked(del.email)
<1> SUFFICES ASSUME PoolInv, del.pc # "idle"
             PROVE  /\ Concerned = Referencing(del.email)
                    /\ HeldNow = Held(del.email) /\ LockedNow = Locked(del.email)
  OBVIOUS
<1>1. del.email \in Emails /\ del.email # None
  BY NoneAssumption DEF PoolInv, EmailsInv
<1>2. Concerned = Referencing(del.email)
  BY <1>1 DEF Concerned, Referencing, ForwardingEmail
<1>3. HeldNow = Held(del.email)
  <2>1. HeldNow \subseteq Held(del.email)
    <3> SUFFICES ASSUME NEW t \in HeldNow PROVE t \in Held(del.email)
      OBVIOUS
    <3>1. PICK c \in Callers, r \in Concerned : uses[c] = [task |-> t, resource |-> r]
      BY DEF HeldNow
    <3>2. uses[c] # None /\ uses[c].resource = r /\ uses[c].task = t
      BY <3>1, NoneAssumption DEF Concerned, HeldNow
    <3> QED BY <1>2, <3>1, <3>2 DEF Held
  <2>2. Held(del.email) \subseteq HeldNow
    <3> SUFFICES ASSUME NEW c \in Callers, uses[c] # None,
                        uses[c].resource \in Referencing(del.email)
                 PROVE  uses[c].task \in HeldNow
      BY DEF Held
    <3>1. uses[c] \in [task: Tasks, resource: Resources]
      BY DEF PoolInv, LocksInv
    <3>2. uses[c] = [task |-> uses[c].task, resource |-> uses[c].resource]
      BY <3>1
    <3> QED BY <1>2, <3>1, <3>2 DEF HeldNow
  <2> QED BY <2>1, <2>2
<1>4. LockedNow = Locked(del.email)
  BY <1>2, NoneAssumption DEF LockedNow, Locked, Concerned, PoolInv, LocksInv
<1> QED BY <1>2, <1>3, <1>4

\* While it goes on, the history of a deletion is that of its questions.
LEMMA TrackKeeps ==
  ASSUME GuardInv, Track, del.pc # "idle", UNCHANGED del
  PROVE  GuardInv'
<1>1. /\ since'.held = since.held \cap HeldNow' /\ since'.locked = since.locked \cap LockedNow'
      /\ since'.ever = since.ever \cup LockedNow'
  BY DEF Track
<1> QED BY <1>1 DEF GuardInv

LEMMA GuardStepKeeps ==
  ASSUME PoolInv, PoolInv', GuardInv, [Next]_vars
  PROVE  GuardInv'
<1>1. CASE UNCHANGED vars
  BY <1>1 DEF vars, emails, GuardInv
<1> SUFFICES ASSUME Next PROVE GuardInv'
  BY <1>1
<1>2. /\ Track
      /\ del'.pc # "idle" => HeldNow' = Held(del.email)' /\ LockedNow' = Locked(del.email)'
  <2>1. (PoolInv /\ del.pc # "idle" =>
           /\ Concerned = Referencing(del.email)
           /\ HeldNow = Held(del.email) /\ LockedNow = Locked(del.email))'
    BY ReferencingConcerned, PTL
  <2> QED BY <2>1 DEF Next
<1>3. CASE UNCHANGED del
  <2>1. CASE del.pc = "idle"
    BY <1>3, <2>1 DEF GuardInv
  <2> QED BY <1>2, <1>3, <2>1, TrackKeeps
<1>4. CASE del' = NoDeletion
  BY <1>4 DEF GuardInv, NoDeletion
<1>5. ASSUME NEW e \in Emails, DeleteEmail(e) PROVE GuardInv'
  BY <1>5 DEF GuardInv, DeleteEmail, PoolInv, EmailsInv
<1>6. CASE AskHeld /\ del' # NoDeletion
  <2>1. /\ Held(del.email) = {} /\ del' = [del EXCEPT !.pc = "locked"] /\ del.pc = "held"
        /\ UNCHANGED <<locks, pool>>
    BY <1>6 DEF AskHeld
  <2>2. /\ del'.pc = "locked" /\ del'.guard = del.guard /\ del'.email = del.email
    BY <2>1 DEF PoolInv, EmailsInv, Deletions
  <2>3. Held(del.email)' = Held(del.email)
    BY <2>1, <2>2 DEF Held, Referencing, ForwardingEmail, Pooled, locks, pool
  <2>4. HeldNow' = {}
    BY <1>2, <2>1, <2>2, <2>3
  <2>5. since'.held = since.held \cap HeldNow'
    BY <1>2, <2>1, <2>2 DEF Track
  <2> QED BY <2>1, <2>2, <2>4, <2>5 DEF GuardInv
<1>7. CASE AskLocked
  <2>1. /\ del' = [del EXCEPT !.pc = "deleting", !.stranded = Locked(del.email)]
        /\ del.pc = "locked" /\ UNCHANGED <<locks, pool>>
    BY <1>7 DEF AskLocked
  <2>2. /\ del'.pc = "deleting" /\ del'.guard = del.guard /\ del'.email = del.email
        /\ del'.stranded = Locked(del.email)
    BY <2>1 DEF PoolInv, EmailsInv, Deletions
  <2>3. LockedNow' = Locked(del.email)
    BY <1>2, <2>1, <2>2
    DEF Locked, Referencing, ForwardingEmail, Pooled, locks, pool
  <2>4. /\ since'.held = since.held \cap HeldNow' /\ since'.locked = since.locked \cap LockedNow'
        /\ since'.ever = since.ever \cup LockedNow'
    BY <1>2, <2>1, <2>2 DEF Track
  <2> QED BY <2>1, <2>2, <2>3, <2>4 DEF GuardInv
<1>8. EmailStep =>
        \/ UNCHANGED del \/ del' = NoDeletion \/ AskHeld \/ AskLocked
        \/ \E e \in Emails : DeleteEmail(e)
  BY DEF EmailStep, AddEmail, GuardDeletes, DropEmail
<1>9. Restart => del' = NoDeletion
  BY DEF Restart
<1>10. (PoolStep \/ \E c \in Callers : LeaseStep(c)) => UNCHANGED del
  <2>1. PoolStep => UNCHANGED emails
    BY DEF PoolStep, Delete, Unlock, Add, Relink, UpdateGroup
  <2>2. ASSUME NEW c \in Callers, LeaseStep(c) PROVE UNCHANGED emails
    BY <2>2 DEF LeaseStep, Acquire, LockFails, Report, Tally, Release
  <2> QED BY <2>1, <2>2 DEF emails
<1> QED BY <1>3, <1>4, <1>5, <1>6, <1>7, <1>8, <1>9, <1>10 DEF Next

\* A guarded deletion that goes through met no task in use of its inbox
\* throughout, and reports the tasks whose locks it strands
\* (email/manager.go:154), whatever is leased, locked or linked meanwhile.
THEOREM DeletionsGuarded == Spec => DeletionGuarded
<1>1. PoolInv /\ PoolInv' /\ GuardInv /\ [Next]_vars => GuardInv'
  BY GuardStepKeeps
<1>2. Init => GuardInv
  BY DEF Init, GuardInv, NoDeletion
<1>3. GuardInv =>
        [inventory' # inventory /\ del.pc = "deleting" /\ del.guard =>
           /\ since.held = {}
           /\ since.locked \subseteq del.stranded
           /\ del.stranded \subseteq since.ever]_vars
  BY DEF GuardInv
<1> QED BY <1>1, <1>2, <1>3, PoolInit, PoolStepKeeps, PTL DEF Spec, DeletionGuarded

-----------------------------------------------------------------------------
(* The rotation.                                                           *)

LEMMA Remainder ==
  ASSUME NEW n \in Nat \ {0}, NEW d \in Nat, NEW q \in Nat, NEW r \in 0 .. n - 1, d = n * q + r
  PROVE  d % n = r
OBVIOUS

\* The next place around a list of n.
LEMMA NextPlace ==
  ASSUME NEW n \in Nat \ {0}, NEW c \in Nat
  PROVE  /\ c % n \in 0 .. n - 1
         /\ (c + 1) % n = IF c % n = n - 1 THEN 0 ELSE (c % n) + 1
<1>1. PICK q \in Nat, r \in 0 .. n - 1 : r = c % n /\ c = n * q + r
  OBVIOUS
<1>2. PICK d \in Nat : d = c + 1
  OBVIOUS
<1>3. CASE r = n - 1
  <2>1. PICK p \in Nat : p = q + 1
    OBVIOUS
  <2>2. d = n * p + 0 /\ 0 \in 0 .. n - 1
    BY <1>1, <1>2, <1>3, <2>1
  <2>3. d % n = 0
    BY <2>2, Remainder
  <2> QED BY <1>1, <1>2, <1>3, <2>3
<1>4. CASE r # n - 1
  <2>1. PICK s \in 0 .. n - 1 : s = r + 1
    BY <1>4
  <2>2. d = n * q + s
    BY <1>1, <1>2, <2>1
  <2>3. d % n = s
    BY <2>2, Remainder
  <2> QED BY <1>1, <1>2, <1>4, <2>1, <2>3
<1> QED BY <1>3, <1>4

\* What the strategy is offered lists each candidate once, and there is one.
LEMMA OfferedOnce ==
  ASSUME PoolInv, NEW lock, NEW list \in Candidates(lock), NEW r \in Resources, Candidate(r, lock)
  PROVE  list \in Seq(Resources) /\ Distinct(list) /\ list # <<>>
<1> DEFINE I == {i \in DOMAIN order : Candidate(order[i], lock)}
<1>1. /\ order \in Seq(Resources) /\ Distinct(order) /\ Len(order) \in Nat
      /\ DOMAIN order = 1 .. Len(order) /\ order \in [1 .. Len(order) -> Resources]
  BY LenProperties DEF PoolInv, RowsInv
<1>2. IsFiniteSet(I) /\ I \subseteq Nat
  <2>1. IsFiniteSet(1 .. Len(order))
    BY <1>1, FS_Interval
  <2>2. I \subseteq 1 .. Len(order)
    BY <1>1
  <2>3. IsFiniteSet(I)
    <3> HIDE DEF I
    <3> QED BY <2>1, <2>2, FS_Subset
  <2>4. I \subseteq Nat
    <3> HIDE DEF I
    <3>1. 1 .. Len(order) \subseteq Nat
      OBVIOUS
    <3> QED BY <2>2, <3>1
  <2> QED BY <2>3, <2>4
<1>3. PICK i \in I : order[i] = r
  BY DEF Candidate, Pooled, ToSet
<1> HIDE DEF I
<1>4. PICK f \in Ascending(I) : list = [k \in DOMAIN f |-> order[f[k]]]
  BY DEF Candidates, I
<1>5. f \in Seq(I) /\ Distinct(f) /\ ToSet(f) = I
  BY <1>2, AscendingDistinct
<1>6. Len(f) \in Nat /\ DOMAIN f = 1 .. Len(f) /\ f \in [1 .. Len(f) -> I]
  BY <1>5, LenProperties
<1>7. \A k \in 1 .. Len(f) : f[k] \in DOMAIN order /\ order[f[k]] \in Resources
  BY <1>1, <1>6 DEF I
<1>8. list \in [1 .. Len(f) -> Resources] /\ DOMAIN list = 1 .. Len(f)
  BY <1>4, <1>6, <1>7
<1>9. list \in Seq(Resources)
  BY <1>6, <1>8
<1>10. Distinct(list)
  BY <1>1, <1>4, <1>5, <1>6, <1>7, <1>8 DEF Distinct
<1>11. DOMAIN list # {}
  BY <1>3, <1>5, <1>6, <1>8 DEF ToSet
<1>12. list # <<>>
  BY <1>11
<1> QED BY <1>9, <1>10, <1>12

\* The member at the cursor is not one pick ahead: picked, it is.
LEMMA TurnOn ==
  ASSUME NEW list \in Seq(Resources), Distinct(list), list # <<>>,
         NEW old \in [Resources -> Nat], NEW at \in Nat, NEW q \in 0 .. at,
         NEW lo \in 0 .. Len(list) - 1, NEW r \in Resources, r = RoundRobin(list), cursor = at,
         \A i \in 1 .. Len(list) :
           old[list[i]] = IF Ahead(i - 1, lo, at % Len(list)) THEN q + 1 ELSE q
  PROVE  Turning(list, [old EXCEPT ![r] = old[r] + 1], at + 1)
<1>1. PICK n \in Nat \ {0} : n = Len(list)
  BY EmptySeq
<1>2. DOMAIN list = 1 .. n /\ list \in [1 .. n -> Resources]
  BY <1>1, LenProperties
<1>3. PICK p \in 0 .. n - 1 : p = at % n
  BY NextPlace
<1>4. (at + 1) % n = IF p = n - 1 THEN 0 ELSE p + 1
  BY <1>3, NextPlace
<1>5. PICK m \in 0 .. n - 1 : m = IF p = n - 1 THEN 0 ELSE p + 1
  OBVIOUS
<1>6. r = list[p + 1]
  BY <1>1, <1>3 DEF RoundRobin
<1>7. \A i \in 1 .. n : old[list[i]] = IF Ahead(i - 1, lo, p) THEN q + 1 ELSE q
  BY <1>1, <1>3
<1> DEFINE new == [old EXCEPT ![r] = old[r] + 1]
<1>8. \A i \in 1 .. n : new[list[i]] = IF i = p + 1 THEN old[list[i]] + 1 ELSE old[list[i]]
  <2>1. p + 1 \in 1 .. n
    BY <1>3
  <2>2. \A i \in 1 .. n : list[i] \in Resources /\ (list[i] = r <=> i = p + 1)
    BY <1>2, <1>6, <2>1 DEF Distinct
  <2> QED BY <2>2
<1> HIDE DEF new
<1>9. \A i \in 1 .. n : i = p + 1 => ~Ahead(i - 1, lo, p)
  BY <1>1, <1>3 DEF Ahead
<1>10. ASSUME m = lo PROVE Turning(list, new, at + 1)
  <2>1. \A i \in 1 .. n : i # p + 1 => Ahead(i - 1, lo, p)
    BY <1>1, <1>5, <1>10 DEF Ahead
  <2>2. \A i \in 1 .. n : ~Ahead(i - 1, lo, m)
    BY <1>1, <1>10 DEF Ahead
  <2>3. PICK w \in 0 .. at + 1 : w = q + 1
    OBVIOUS
  <2>4. \A i \in 1 .. n : new[list[i]] = w
    BY <1>7, <1>8, <1>9, <2>1, <2>3
  <2>5. \A i \in 1 .. Len(list) :
          new[list[i]] = IF Ahead(i - 1, lo, (at + 1) % Len(list)) THEN w + 1 ELSE w
    BY <1>1, <1>4, <1>5, <2>2, <2>4
  <2> QED BY <2>5 DEF Turning
<1>11. ASSUME m # lo PROVE Turning(list, new, at + 1)
  <2>1. \A i \in 1 .. n : Ahead(i - 1, lo, m) <=> Ahead(i - 1, lo, p) \/ i = p + 1
    BY <1>1, <1>5, <1>11 DEF Ahead
  <2>2. \A i \in 1 .. n : new[list[i]] = IF Ahead(i - 1, lo, m) THEN q + 1 ELSE q
    BY <1>7, <1>8, <1>9, <2>1
  <2>3. \A i \in 1 .. Len(list) :
          new[list[i]] = IF Ahead(i - 1, lo, (at + 1) % Len(list)) THEN q + 1 ELSE q
    BY <1>1, <1>4, <1>5, <2>2
  <2>4. q \in 0 .. at + 1
    OBVIOUS
  <2> QED BY <2>3, <2>4 DEF Turning
<1> QED BY <1>10, <1>11 DEF new

LEMMA RotateTurns ==
  ASSUME PoolInv, TurnInv, NEW lock, NEW list \in Candidates(lock), NEW r \in Resources,
         Candidate(r, lock), Rotate(list, r), UNCHANGED <<kind, strategy>>
  PROVE  TurnInv'
<1>1. CASE kind # "proxy"
  BY <1>1 DEF TurnInv, Rotate, NoPicks
<1>2. CASE kind = "proxy"
  <2>1. list \in Seq(Resources) /\ Distinct(list) /\ list # <<>>
    BY OfferedOnce
  <2>2. PICK old \in [Resources -> Nat] : old = IF picks.list = list THEN picks.count ELSE NoPicks.count
    BY DEF TurnInv, NoPicks
  <2>3. /\ cursor' = cursor + 1 /\ picks' = [list |-> list, count |-> [old EXCEPT ![r] = old[r] + 1]]
        /\ strategy = "roundRobin" => r = RoundRobin(list)
    BY <1>2, <2>2 DEF Rotate, Picked
  <2>4. picks' \in [list: Seq(Resources), count: [Resources -> Nat]]
    BY <2>1, <2>2, <2>3
  <2>5. ASSUME strategy = "roundRobin" PROVE Turning(list, [old EXCEPT ![r] = old[r] + 1], cursor + 1)
    <3>1. PICK at \in Nat : at = cursor
      BY BoundsAssumption DEF PoolInv, GroupInv
    <3>2. Len(list) \in Nat \ {0}
      BY <2>1, EmptySeq
    <3>3. \E q \in 0 .. at, lo \in 0 .. Len(list) - 1 : \A i \in 1 .. Len(list) :
            old[list[i]] = IF Ahead(i - 1, lo, at % Len(list)) THEN q + 1 ELSE q
      <4>1. CASE picks.list = list
        BY <2>1, <2>2, <2>5, <3>1, <4>1 DEF TurnInv, Turning
      <4>2. CASE picks.list # list
        <5>1. at % Len(list) \in 0 .. Len(list) - 1
          BY <3>2, NextPlace
        <5>2. PICK lo \in 0 .. Len(list) - 1 : lo = at % Len(list)
          BY <5>1
        <5>3. \A i \in 1 .. Len(list) : list[i] \in Resources /\ ~Ahead(i - 1, lo, lo)
          BY <2>1, <3>2, ElementOfSeq DEF Ahead
        <5>4. PICK q \in 0 .. at : q = 0
          OBVIOUS
        <5>5. \A i \in 1 .. Len(list) :
                old[list[i]] = IF Ahead(i - 1, lo, at % Len(list)) THEN q + 1 ELSE q
          BY <2>2, <4>2, <5>2, <5>3, <5>4 DEF NoPicks
        <5> QED BY <5>5
      <4> QED BY <4>1, <4>2
    <3>4. PICK q \in 0 .. at, lo \in 0 .. Len(list) - 1 : \A i \in 1 .. Len(list) :
            old[list[i]] = IF Ahead(i - 1, lo, at % Len(list)) THEN q + 1 ELSE q
      BY <3>3
    <3> QED BY <2>1, <2>3, <2>5, <3>1, <3>4, TurnOn
  <2> QED BY <1>2, <2>3, <2>4, <2>5 DEF TurnInv
<1> QED BY <1>1, <1>2

LEMMA TurnStepKeeps ==
  ASSUME PoolInv, TurnInv, [Next]_vars
  PROVE  TurnInv'
<1>1. ASSUME UNCHANGED <<kind, strategy, cursor, picks>> PROVE TurnInv'
  BY <1>1 DEF TurnInv
<1>2. ASSUME picks' = NoPicks PROVE TurnInv'
  <2>1. <<>> \in Seq(Resources) /\ [r \in Resources |-> 0] \in [Resources -> Nat]
    BY EmptySeq
  <2> QED BY <1>2, <2>1 DEF TurnInv, NoPicks
<1>3. CASE UNCHANGED vars
  BY <1>1, <1>3 DEF vars, pool
<1> SUFFICES ASSUME Next PROVE TurnInv'
  BY <1>3
<1>4. UNCHANGED kind
  BY DEF Next
<1>5. ASSUME NEW c \in Callers, LeaseStep(c) PROVE TurnInv'
  <2>1. ASSUME NEW t \in Tasks, NEW r \in Resources, NEW pinned \in BOOLEAN, NEW lock \in BOOLEAN,
               Acquire(c, t, r, pinned, lock)
        PROVE  TurnInv'
    <3>1. CASE UNCHANGED <<cursor, picks>>
      BY <1>1, <1>4, <2>1, <3>1 DEF Acquire
    <3>2. ASSUME Candidate(r, lock), NEW list \in Candidates(lock), Rotate(list, r) PROVE TurnInv'
      BY <1>4, <2>1, <3>2, RotateTurns DEF Acquire
    <3> QED BY <2>1, <3>1, <3>2 DEF Acquire, Pinned
  <2>2. ASSUME NEW t \in Tasks, NEW r \in Resources, LockFails(c, t, r) PROVE TurnInv'
    BY <1>4, <2>2, RotateTurns DEF LockFails
  <2>3. CASE Report(c) \/ Tally(c) \/ Release(c)
    BY <1>1, <1>4, <2>3 DEF Report, Tally, Release, pool
  <2> QED BY <1>5, <2>1, <2>2, <2>3 DEF LeaseStep
<1>6. ASSUME PoolStep PROVE TurnInv'
  <2>1. ASSUME NEW e \in Emails \cup {None}, NEW s \in Strategies, UpdateGroup(e, s) PROVE TurnInv'
    BY <1>1, <1>2, <1>4, <2>1 DEF UpdateGroup
  <2>2. ASSUME NEW r \in Resources, Delete(r) \/ Unlock(r) PROVE TurnInv'
    BY <1>1, <1>4, <2>2 DEF Delete, Unlock, pool
  <2>3. ASSUME NEW r \in Resources, NEW e \in Emails \cup {None}, Add(r, e) \/ Relink(r, e)
        PROVE  TurnInv'
    BY <1>1, <1>4, <2>3 DEF Add, Relink
  <2> QED BY <1>6, <2>1, <2>2, <2>3 DEF PoolStep
<1>7. CASE EmailStep
  BY <1>1, <1>4, <1>7 DEF EmailStep, AddEmail, DeleteEmail, GuardDeletes, AskHeld, AskLocked,
     DropEmail, pool
<1>8. CASE Restart
  BY <1>2, <1>8 DEF Restart
<1> QED BY <1>5, <1>6, <1>7, <1>8 DEF Next

\* "Spreading load evenly" (leasing/roundrobin.go:8): while candidates and
\* instance stay the same, no member gets two turns more than another.
THEOREM RotatesEvenly == Spec => []EvenRotation
<1>1. Init => TurnInv
  <2>1. <<>> \in Seq(Resources) /\ [r \in Resources |-> 0] \in [Resources -> Nat]
    BY EmptySeq
  <2> QED BY <2>1 DEF Init, TurnInv, NoPicks
<1>2. PoolInv /\ TurnInv /\ [Next]_vars => TurnInv'
  BY TurnStepKeeps
<1>3. PoolInv /\ TurnInv => EvenRotation
  <2> SUFFICES ASSUME PoolInv, TurnInv, strategy = "roundRobin",
                      NEW a \in ToSet(picks.list), NEW b \in ToSet(picks.list)
               PROVE  picks.count[a] <= picks.count[b] + 1
    BY DEF EvenRotation
  <2>1. picks.list \in Seq(Resources)
    BY DEF TurnInv
  <2>2. DOMAIN picks.list = 1 .. Len(picks.list)
    BY <2>1, LenProperties
  <2>3. PICK i \in 1 .. Len(picks.list), j \in 1 .. Len(picks.list) :
          a = picks.list[i] /\ b = picks.list[j]
    BY <2>2 DEF ToSet
  <2>4. picks.list # <<>>
    BY <2>3, EmptySeq
  <2>5. PICK q \in 0 .. cursor, lo \in 0 .. Len(picks.list) - 1 : \A k \in 1 .. Len(picks.list) :
          picks.count[picks.list[k]] =
            IF Ahead(k - 1, lo, cursor % Len(picks.list)) THEN q + 1 ELSE q
    BY <2>4 DEF TurnInv, Turning
  <2>6. picks.count[a] \in {q, q + 1} /\ picks.count[b] \in {q, q + 1}
    BY <2>3, <2>5
  <2> QED BY <2>6
<1> QED BY <1>1, <1>2, <1>3, PoolInit, PoolStepKeeps, PTL DEF Spec

-----------------------------------------------------------------------------
(* The leases and locks are those of the lock service.                     *)

ServiceInv == LocksInv /\ Service!OwnerAlone

\* A use that starts on an unlocked resource, or alone for the owner.
LEMMA ServiceUseKeeps ==
  ASSUME ServiceInv, NEW c \in Callers, NEW t \in Tasks, NEW r \in Resources, uses[c] = None,
         Service!Use(c, t, r), lockedBy' \in [Resources -> Tasks \cup {None}],
         \A s \in Resources : s # r => lockedBy'[s] = lockedBy[s],
         lockedBy'[r] # None => lockedBy'[r] = t /\ Service!Using(r) = {}
  PROVE  ServiceInv'
<1>1. LocksInv'
  BY DEF ServiceInv, LocksInv, Service!Use
<1>2. \A d \in Callers : uses'[d] = IF d = c THEN [task |-> t, resource |-> r] ELSE uses[d]
  BY DEF ServiceInv, LocksInv, Service!Use
<1>3. Service!Using(r)' \subseteq Service!Using(r) \cup {c}
  BY <1>2 DEF Service!Using
<1>4. \A s \in Resources : s # r => Service!Using(s)' \subseteq Service!Using(s) \ {c}
  BY <1>2 DEF Service!Using
<1>5. Service!OwnerAlone'
  <2> SUFFICES ASSUME NEW s \in Resources, lockedBy'[s] # None,
                      NEW d \in Service!Using(s)', NEW e \in Service!Using(s)'
               PROVE  d = e /\ uses'[d].task = lockedBy'[s]
    BY DEF Service!OwnerAlone
  <2>1. CASE s = r
    BY <1>2, <1>3, <2>1
  <2>2. CASE s # r
    BY <1>2, <1>4, <2>2 DEF ServiceInv, Service!OwnerAlone, Service!Using
  <2> QED BY <2>1, <2>2
<1> QED BY <1>1, <1>5 DEF ServiceInv

\* A step that only ends uses, and gives up locks or removes resources.
LEMMA ServiceEndKeeps ==
  ASSUME ServiceInv, LocksInv',
         \A d \in Callers : uses'[d] \in {uses[d], None},
         \A s \in Resources : lockedBy'[s] \in {lockedBy[s], None}
  PROVE  ServiceInv'
<1>1. \A s \in Resources : Service!Using(s)' \subseteq Service!Using(s)
  BY DEF Service!Using
<1>2. Service!OwnerAlone'
  <2> SUFFICES ASSUME NEW s \in Resources, lockedBy'[s] # None,
                      NEW d \in Service!Using(s)', NEW e \in Service!Using(s)'
               PROVE  d = e /\ uses'[d].task = lockedBy'[s]
    BY DEF Service!OwnerAlone
  <2>1. /\ d \in Service!Using(s) /\ e \in Service!Using(s)
        /\ lockedBy'[s] = lockedBy[s] /\ uses'[d] = uses[d]
    BY <1>1 DEF Service!Using
  <2> QED BY <2>1 DEF ServiceInv, Service!OwnerAlone
<1> QED BY <1>2 DEF ServiceInv

\* A locked resource has at most one user, which works for its owner: what a
\* client of Lock (leasing/manager.go) relies on.
THEOREM OwnerIsAlone == Service!Spec => []Service!OwnerAlone
<1>1. Service!Init => ServiceInv
  BY DEF Service!Init, ServiceInv, LocksInv, Service!OwnerAlone, Service!Using
<1>2. ServiceInv /\ [Service!Next]_Service!vars => ServiceInv'
  <2> SUFFICES ASSUME ServiceInv, [Service!Next]_Service!vars PROVE ServiceInv'
    OBVIOUS
  <2>1. CASE UNCHANGED Service!vars
    BY <2>1 DEF Service!vars, ServiceInv, LocksInv, Service!OwnerAlone, Service!Using
  <2>2. ASSUME NEW c \in Callers, NEW t \in Tasks, NEW r \in Resources,
               Service!Share(c, t, r) \/ Service!Lock(c, t, r) \/ Service!UseOwn(c, t, r)
        PROVE  ServiceInv'
    BY <2>2, ServiceUseKeeps DEF Service!Share, Service!Lock, Service!UseOwn, ServiceInv, LocksInv
  <2>3. ASSUME NEW c \in Callers, Service!Return(c) PROVE ServiceInv'
    BY <2>3, ServiceEndKeeps DEF Service!Return, ServiceInv, LocksInv
  <2>4. ASSUME NEW r \in Resources, Service!GiveUp(r) PROVE ServiceInv'
    BY <2>4, ServiceEndKeeps DEF Service!GiveUp, ServiceInv, LocksInv
  <2>5. ASSUME NEW gone \in SUBSET Resources, Service!Remove(gone) PROVE ServiceInv'
    BY <2>5, ServiceEndKeeps DEF Service!Remove, ServiceInv, LocksInv
  <2>6. CASE Service!Lose
    BY <2>6, ServiceEndKeeps DEF Service!Lose, ServiceInv, LocksInv
  <2> QED BY <2>1, <2>2, <2>3, <2>4, <2>5, <2>6 DEF Service!Next
<1>3. ServiceInv => Service!OwnerAlone
  BY DEF ServiceInv
<1> QED BY <1>1, <1>2, <1>3, PTL DEF Service!Spec

\* Hosts is written over the service: each of its steps takes one of the service's
\* (leasing/manager.go) or leaves leases and locks alone, so OwnerIsAlone is about
\* its runs too.
LEMMA HostsUseTheService == Spec => Service!Spec
<1>1. Init => Service!Init
  BY DEF Init
<1>2. [Next]_vars => [Service!Next]_Service!vars
  <2> SUFFICES ASSUME Next PROVE [Service!Next]_Service!vars
    BY DEF vars, locks, Service!vars
  <2>1. ASSUME NEW c \in Callers, LeaseStep(c) PROVE [Service!Next]_Service!vars
    <3>1. ASSUME NEW t \in Tasks, NEW r \in Resources, NEW pinned \in BOOLEAN, NEW lock \in BOOLEAN,
                 Acquire(c, t, r, pinned, lock)
          PROVE  Service!Next
      BY <3>1 DEF Acquire, Service!Next
    <3>2. ASSUME NEW t \in Tasks, NEW r \in Resources, LockFails(c, t, r) PROVE UNCHANGED locks
      BY <3>2 DEF LockFails
    <3>3. Report(c) \/ Tally(c) => UNCHANGED locks
      BY DEF Report, Tally
    <3>4. Release(c) => Service!Next
      BY DEF Release, Service!Next
    <3> QED BY <2>1, <3>1, <3>2, <3>3, <3>4 DEF LeaseStep, locks, Service!vars
  <2>2. ASSUME PoolStep PROVE [Service!Next]_Service!vars
    <3>1. ASSUME NEW r \in Resources, Delete(r) PROVE Service!Next
      BY <3>1, {r} \in SUBSET Resources DEF Delete, Service!Next
    <3>2. ASSUME NEW r \in Resources, Unlock(r) PROVE Service!Next
      BY <3>2 DEF Unlock, Service!Next
    <3>3. ASSUME NEW r \in Resources, NEW e \in Emails \cup {None}, Add(r, e) \/ Relink(r, e)
          PROVE  UNCHANGED locks
      BY <3>3 DEF Add, Relink
    <3>4. ASSUME NEW e \in Emails \cup {None}, NEW s \in Strategies, UpdateGroup(e, s)
          PROVE  UNCHANGED locks
      BY <3>4 DEF UpdateGroup
    <3> QED BY <2>2, <3>1, <3>2, <3>3, <3>4 DEF PoolStep, locks, Service!vars
  <2>3. EmailStep => UNCHANGED locks
    BY DEF EmailStep, AddEmail, DeleteEmail, GuardDeletes, AskHeld, AskLocked, DropEmail
  <2>4. Restart => Service!Next
    BY DEF Restart, Service!Next
  <2> QED BY <2>1, <2>2, <2>3, <2>4 DEF Next, locks, Service!vars
<1> QED BY <1>1, <1>2, PTL DEF Spec, Service!Spec

=============================================================================
