--------------------------- MODULE PoliciesProofs ---------------------------
(***************************************************************************)
(* Theorems about Policies, for any stack of decorators and any settings:  *)
(* what follows from contexts, and what the attempts of nested retries and *)
(* the backoffs come to, by induction over their recursions.               *)
(***************************************************************************)
EXTENDS Policies, SequenceTheorems, WellFoundedInduction, TLAPS

-----------------------------------------------------------------------------
(* Recursion, with sets for predicates and functions for steps.            *)

\* Induction: a set of naturals with zero and every successor has them all.
LEMMA Induction ==
  ASSUME NEW S \in SUBSET Nat, 0 \in S, \A n \in S : n + 1 \in S
  PROVE  S = Nat
<1> DEFINE Rest == Nat \ S
<1> SUFFICES ASSUME Rest # {} PROVE FALSE
  OBVIOUS
<1>1. PICK n \in Rest : \A m \in Rest : ~(<<m, n>> \in OpToRel(<, Nat))
  <2>1. Rest \subseteq Nat
    OBVIOUS
  <2> HIDE DEF Rest
  <2> QED BY <2>1, NatLessThanWellFounded, WFMin
<1>2. n \in Nat /\ n \notin S /\ n # 0
  BY <1>1
<1>3. \A m \in Rest : ~(m < n)
  BY <1>1, <1>2 DEF OpToRel
<1>4. PICK m \in Nat : n = m + 1
  <2>1. n - 1 \in Nat /\ n = (n - 1) + 1
    BY <1>2
  <2> QED BY <2>1
<1>5. m \in S
  BY <1>2, <1>3, <1>4
<1> QED BY <1>2, <1>4, <1>5

\* The same up to a bound.
LEMMA Upwards ==
  ASSUME NEW n \in Nat, NEW S, 0 \in S, \A k \in 1 .. n : k - 1 \in S => k \in S
  PROVE  \A k \in 0 .. n : k \in S
<1> DEFINE T == {m \in Nat : m <= n => m \in S}
<1>1. 0 \in T
  OBVIOUS
<1>2. ASSUME NEW m \in T PROVE m + 1 \in T
  <2> SUFFICES ASSUME m + 1 <= n PROVE m + 1 \in S
    OBVIOUS
  <2>1. m + 1 \in 1 .. n /\ (m + 1) - 1 = m /\ m \in S
    OBVIOUS
  <2> QED BY <2>1
<1>3. T = Nat
  <2>1. T \in SUBSET Nat
    OBVIOUS
  <2> HIDE DEF T
  <2> QED BY <1>1, <1>2, <2>1, Induction
<1> SUFFICES ASSUME NEW k \in 0 .. n PROVE k \in S
  OBVIOUS
<1>4. k \in T
  <2> HIDE DEF T
  <2> QED BY <1>3
<1> QED BY <1>4

\* A function that keeps to a set step by step has all its values there.
LEMMA StaysIn ==
  ASSUME NEW n \in Nat, NEW V, NEW f, f[0] \in V, \A k \in 1 .. n : f[k - 1] \in V => f[k] \in V
  PROVE  \A k \in 0 .. n : f[k] \in V
<1> DEFINE S == {k \in 0 .. n : f[k] \in V}
<1>1. 0 \in S
  OBVIOUS
<1>2. \A k \in 1 .. n : k - 1 \in S => k \in S
  OBVIOUS
<1>3. \A k \in 0 .. n : k \in S
  <2> HIDE DEF S
  <2> QED BY <1>1, <1>2, Upwards
<1> QED BY <1>3

Steps(n, V) == [1 .. n -> [V -> V]]

\* Recursion: from any start, steps of any kind can be taken one after another.
LEMMA Recursion ==
  ASSUME NEW n \in Nat, NEW V, NEW start \in V, NEW step \in Steps(n, V)
  PROVE  \E f \in [0 .. n -> V] :
           f[0] = start /\ \A k \in 1 .. n : f[k] = step[k][f[k - 1]]
<1> USE DEF Steps
<1> DEFINE Upto(f, m) == /\ f \in [0 .. m -> V] /\ f[0] = start
                         /\ \A k \in 1 .. m : f[k] = step[k][f[k - 1]]
           S == {m \in Nat : m <= n => \E f \in [0 .. m -> V] : Upto(f, m)}
<1>1. 0 \in S
  <2> DEFINE f == [k \in 0 .. 0 |-> start]
  <2>1. Upto(f, 0)
    OBVIOUS
  <2> QED BY <2>1
<1>2. ASSUME NEW m \in S PROVE m + 1 \in S
  <2> SUFFICES ASSUME m + 1 <= n PROVE \E f \in [0 .. m + 1 -> V] : Upto(f, m + 1)
    OBVIOUS
  <2>1. m \in Nat /\ m <= n /\ m + 1 \in 1 .. n
    OBVIOUS
  <2>2. PICK g \in [0 .. m -> V] : Upto(g, m)
    BY <2>1
  <2> DEFINE f == [k \in 0 .. m + 1 |-> IF k <= m THEN g[k] ELSE step[m + 1][g[m]]]
  <2>3. g[m] \in V /\ step[m + 1] \in [V -> V]
    BY <2>1, <2>2
  <2>4. f \in [0 .. m + 1 -> V]
    BY <2>1, <2>2, <2>3
  <2>5. f[0] = start
    BY <2>1, <2>2
  <2>6. ASSUME NEW k \in 1 .. m + 1 PROVE f[k] = step[k][f[k - 1]]
    <3>1. k - 1 \in 0 .. m /\ f[k - 1] = g[k - 1]
      BY <2>1
    <3>2. CASE k <= m
      BY <2>1, <2>2, <3>1, <3>2
    <3>3. CASE k = m + 1
      BY <2>1, <3>1, <3>3
    <3> QED BY <2>1, <3>2, <3>3
  <2> HIDE DEF f
  <2> QED BY <2>4, <2>5, <2>6
<1>3. S = Nat
  <2> HIDE DEF S
  <2>1. S \in SUBSET Nat
    BY DEF S
  <2> QED BY <1>1, <1>2, <2>1, Induction
<1>4. n \in S
  BY <1>3
<1> QED BY <1>4

-----------------------------------------------------------------------------
(* What the recursive definitions compute.                                 *)

Positive == Nat \ {0}

\* A power is the last of its partial products, wherever those stay.
LEMMA PowerIn ==
  ASSUME NEW V, NEW one \in V, one = 1, NEW x, \A v \in V : x * v \in V, NEW n \in Nat
  PROVE  power(x, n) \in V
<1> DEFINE Pow(f) == f = [k \in 0 .. n |-> IF k = 0 THEN 1 ELSE x * f[k - 1]]
           p == CHOOSE f : Pow(f)
           step == [k \in 1 .. n |-> [v \in V |-> x * v]]
<1>1. \E f : Pow(f)
  <2>1. step \in Steps(n, V)
    BY DEF Steps
  <2>2. PICK f \in [0 .. n -> V] :
          f[0] = one /\ \A k \in 1 .. n : f[k] = step[k][f[k - 1]]
    <3> HIDE DEF step
    <3> QED BY <2>1, Recursion
  <2>3. \A k \in 1 .. n : f[k] = x * f[k - 1]
    <3>1. \A k \in 1 .. n : f[k - 1] \in V
      OBVIOUS
    <3> QED BY <2>2, <3>1
  <2>4. \A k \in 0 .. n : f[k] = IF k = 0 THEN 1 ELSE x * f[k - 1]
    BY <2>2, <2>3
  <2>5. Pow(f)
    BY <2>4
  <2> QED BY <2>5
<1>2. Pow(p)
  <2> HIDE DEF Pow
  <2> QED BY <1>1
<1>3. power(x, n) = p[n]
  BY DEF power
<1>4. p[0] = 1 /\ \A k \in 1 .. n : p[k] = x * p[k - 1]
  <2> HIDE DEF p
  <2> QED BY <1>2
<1>5. \A k \in 0 .. n : p[k] \in V
  <2> HIDE DEF p
  <2>1. p[0] \in V /\ \A k \in 1 .. n : p[k - 1] \in V => p[k] \in V
    BY <1>4
  <2> QED BY <2>1, StaysIn
<1> HIDE DEF p
<1> QED BY <1>3, <1>5

\* What a delay is made of: whole numbers, and a divisor above zero.
LEMMA FractionWhole ==
  ASSUME NEW b \in Backoffs, NEW n \in Nat
  PROVE  product(b, n + 1) \in Int /\ scale(b, n + 1) \in Positive
<1>0. b.base \in Int /\ b.factor \in Int /\ b.over \in Positive /\ (n + 1) - 1 = n
  BY BackoffsAssumption, DurationAssumption DEF Positive, Durations, Least
<1>1. power(b.factor, n) \in Int
  <2>1. PICK V, one : V = Int /\ one \in V /\ one = 1
    OBVIOUS
  <2>2. \A v \in V : b.factor * v \in V
    BY <1>0, <2>1
  <2>3. power(b.factor, n) \in V
    BY <2>1, <2>2, PowerIn
  <2> QED BY <2>1, <2>3
<1>2. power(b.over, n) \in Positive
  <2>0. 1 \in Positive
    BY DEF Positive
  <2>1. PICK V, one : V = Positive /\ one \in V /\ one = 1
    BY <2>0
  <2>2. \A v \in V : b.over * v \in V
    BY <1>0, <2>1 DEF Positive
  <2>3. power(b.over, n) \in V
    BY <2>1, <2>2, PowerIn
  <2> QED BY <2>1, <2>3
<1> QED BY <1>0, <1>1, <1>2 DEF product, scale

\* A quotient cut to a whole number.
LEMMA Quotient ==
  ASSUME NEW x \in Nat, NEW y \in Positive
  PROVE  x \div y \in Nat /\ (x \div y) * y <= x /\ x < ((x \div y) + 1) * y
<1> USE DEF Positive
<1>1. x \div y \in Int /\ x % y \in Int
  OBVIOUS
<1>2. x = y * (x \div y) + (x % y) /\ 0 <= x % y /\ x % y < y
  OBVIOUS
<1>3. PICK d \in Int, r \in Int : d = x \div y /\ r = x % y
  BY <1>1
<1>4. x = y * d + r /\ 0 <= r /\ r < y
  BY <1>2, <1>3
<1>5. d >= 0
  <2> SUFFICES ASSUME NEW e \in Nat, d = -(e + 1) PROVE FALSE
    <3>1. d < 0 => -d - 1 \in Nat /\ d = -((-d - 1) + 1)
      OBVIOUS
    <3> QED BY <3>1
  <2>1. y * d = -(y * e) - y /\ y * e \in Nat
    OBVIOUS
  <2> QED BY <1>4, <2>1
<1>6. y * d = d * y /\ (d + 1) * y = d * y + y /\ d * y \in Int
  OBVIOUS
<1> QED BY <1>3, <1>4, <1>5, <1>6

\* A longer quotient is one of a larger number.
LEMMA Larger ==
  ASSUME NEW a \in Int, NEW d \in Nat, NEW y \in Positive, a < d
  PROVE  a * y < d * y
<1> USE DEF Positive
<1>1. PICK e \in Nat : d = a + 1 + e
  <2>1. d - a - 1 \in Nat /\ d = a + 1 + (d - a - 1)
    OBVIOUS
  <2> QED BY <2>1
<1>2. (a + 1 + e) * y = a * y + y + e * y /\ e * y \in Nat /\ a * y \in Int
  OBVIOUS
<1> QED BY <1>1, <1>2

\* Every delay is within the cap, and the documented one wherever that is 1 or more,
\* whatever overflows.
LEMMA DelaysFit ==
  ASSUME NEW b \in Backoffs, NEW n \in Nat, NEW d \in ExpBackoff(b, n + 1),
         NEW x, x = product(b, n + 1), NEW y, y = scale(b, n + 1)
  PROVE  /\ d <= b.cap
         /\ x >= y => IF x > b.cap * y THEN d = b.cap ELSE d * y <= x /\ x < (d + 1) * y
<1>0. /\ MaxDuration \in Nat /\ Least = -MaxDuration - 1
      /\ b.cap \in Int /\ Least <= b.cap /\ b.cap <= MaxDuration
  BY BackoffsAssumption, DurationAssumption DEF Durations, Least
<1>1. x \in Int /\ y \in Positive
  BY FractionWhole
<1>2. PICK c \in Int : c = b.cap
  BY <1>0
<1>3. PICK t : t = truncated(x, y)
  OBVIOUS
<1>4. PICK z \in toDuration(t) : d = IF z <= 0 \/ z > b.cap THEN b.cap ELSE z
  BY <1>3 DEF ExpBackoff, grown
<1>5. IF t \in Durations THEN z = t ELSE z = MaxDuration \/ z = Least
  BY <1>4 DEF toDuration
<1>6. z \in Int
  BY <1>0, <1>4 DEF toDuration, Durations
<1>7. d <= c
  BY <1>2, <1>4, <1>6
<1>8. ASSUME x >= y
      PROVE  IF x > c * y THEN d = c ELSE d * y <= x /\ x < (d + 1) * y
  <2>1. x \in Nat
    BY <1>1, <1>8 DEF Positive
  <2>2. PICK q \in Nat : q = x \div y /\ q * y <= x /\ x < (q + 1) * y
    BY <1>1, <2>1, Quotient
  <2>3. t = q
    BY <1>3, <2>1, <2>2 DEF truncated
  <2>4. q >= 1
    <3>1. 0 * y = 0 /\ (0 + 1) * y = y
      BY <1>1 DEF Positive
    <3>2. q # 0
      BY <1>1, <1>8, <2>1, <2>2, <3>1 DEF Positive
    <3> QED BY <3>2
  <2>5. q > MaxDuration => z = MaxDuration \/ z = Least
    BY <1>0, <1>5, <2>3 DEF Durations
  <2>6. q <= MaxDuration => z = q
    BY <1>0, <1>5, <2>3, <2>4 DEF Durations
  <2>7. CASE q > c
    <3>1. d = c
      BY <1>0, <1>2, <1>4, <2>4, <2>5, <2>6, <2>7
    <3>2. x > c * y
      <4>1. c * y < q * y
        BY <1>1, <2>7, Larger
      <4>2. c * y \in Int /\ q * y \in Int
        BY <1>1 DEF Positive
      <4> QED BY <2>1, <2>2, <4>1, <4>2
    <3> QED BY <3>1, <3>2
  <2>8. CASE q <= c
    <3>1. d = q
      BY <1>0, <1>2, <1>4, <2>4, <2>6, <2>8
    <3>2. x > c * y => q = c
      <4> SUFFICES ASSUME q < c PROVE ~(x > c * y)
        BY <2>8
      <4>1. q + 1 <= c /\ c \in Nat
        BY <2>8
      <4>2. (q + 1) * y <= c * y
        <5>1. CASE q + 1 = c
          BY <1>1, <5>1 DEF Positive
        <5>2. CASE q + 1 < c
          <6>1. (q + 1) * y < c * y
            BY <1>1, <4>1, <5>2, Larger
          <6> QED BY <1>1, <6>1 DEF Positive
        <5> QED BY <4>1, <5>1, <5>2
      <4>3. c * y \in Int /\ (q + 1) * y \in Int
        BY <1>1 DEF Positive
      <4> QED BY <2>1, <2>2, <4>2, <4>3
    <3> QED BY <2>2, <3>1, <3>2
  <2> QED BY <2>7, <2>8
<1> QED BY <1>2, <1>7, <1>8

-----------------------------------------------------------------------------
(* The inductive invariant.                                                *)

\* Where a run stands: the handler runs at the bottom, and a level that waits is
\* one of the stack's.
Stands ==
  /\ Len(stack) \in Nat
  /\ pc \in {"running", "unwinding", "waiting", "returned"}
  /\ level \in 0 .. Handler
  /\ pc = "running" => level = Handler
  /\ pc \in {"unwinding", "waiting"} => level \in Levels
  /\ passed \subseteq Levels /\ killed \in BOOLEAN

\* A level has seen at most one run begin late, and then so has every level
\* below it; its context has ended for as long as its call is open.
LateWell ==
  /\ late \in [Levels -> 0 .. 1]
  /\ \A i, k \in Levels : i <= k /\ late[i] = 1 => late[k] = 1
  /\ \A i \in Levels : late[i] = 1 /\ i <= level => Ended(i, passed, killed)

\* A retry that waits has had no late run, nor has any level above it.
WaitsInTime == pc = "waiting" => late[level] = 0

LateInv == Stands /\ LateWell /\ WaitsInTime

-----------------------------------------------------------------------------

\* A context that has ended has ended for everything called with it.
LEMMA EndedBelow ==
  ASSUME NEW i \in Nat, NEW k \in Nat, i <= k, NEW cut \in SUBSET Nat, NEW dead, Ended(i, cut, dead)
  PROVE  Ended(k, cut, dead)
  BY DEF Ended

LEMMA LateInit == Init => LateInv
<1> SUFFICES ASSUME Init PROVE LateInv
  OBVIOUS
<1>1. Len(stack) \in Nat
  BY StacksAssumption, LenProperties DEF Init
<1>2. PICK n \in Nat : n = Len(stack)
  BY <1>1
<1>3. Stands
  <2>1. Handler = n + 1 /\ Len(stack) = n /\ pc = "running" /\ level = n + 1 /\ passed = {} /\ killed = FALSE
    BY <1>2 DEF Init, Handler
  <2>2. passed \subseteq Levels /\ killed \in BOOLEAN
    BY <2>1
  <2>3. level \in 0 .. Handler
    BY <2>1
  <2> QED BY <2>1, <2>2, <2>3 DEF Stands
<1>4. late = [i \in Levels |-> 0]
  BY DEF Init
<1>5. LateWell
  BY <1>4 DEF LateWell
<1> QED BY <1>3, <1>5 DEF Init, LateInv, WaitsInTime

\* A level answers the one above it: contexts of the open calls are as they were.
LEMMA ReturnKeeps ==
  ASSUME LateInv, NEW r, level \in Levels \cup {Handler}, Return(level - 1, r),
         passed' \subseteq passed, passed \ {level} \subseteq passed',
         UNCHANGED <<stack, killed, late>>
  PROVE  LateInv'
<1>1. Levels' = Levels /\ Handler' = Handler /\ Levels = 1 .. Len(stack) /\ Handler = Len(stack) + 1
  BY DEF Levels, Handler
<1>2. level' = level - 1 /\ pc' = IF level - 1 = 0 THEN "returned" ELSE "unwinding"
  BY DEF Return
<1>3. Stands'
  BY <1>1, <1>2 DEF LateInv, Stands
<1>4. \A i \in Levels : i <= level' /\ Ended(i, passed, killed) => Ended(i, passed, killed)'
  BY <1>1, <1>2 DEF LateInv, Stands, Ended
<1>5. LateWell'
  BY <1>1, <1>2, <1>4 DEF LateInv, Stands, LateWell
<1>6. WaitsInTime'
  BY <1>2 DEF WaitsInTime
<1> QED BY <1>3, <1>5, <1>6 DEF LateInv

\* Contexts end, and nothing else happens.
LEMMA EndingKeeps ==
  ASSUME LateInv, passed \subseteq passed', passed' \subseteq Levels, killed' \in BOOLEAN,
         killed => killed', UNCHANGED <<stack, pc, level, late>>
  PROVE  LateInv'
<1>1. Levels' = Levels /\ Handler' = Handler
  BY DEF Levels, Handler
<1>2. \A i \in Levels : Ended(i, passed, killed) => Ended(i, passed, killed)'
  BY DEF Ended
<1> QED BY <1>1, <1>2 DEF LateInv, Stands, LateWell, WaitsInTime

\* The timer of a wait has won: one run begins, late for the levels whose context
\* has ended, to all of which it is the first.
LEMMA AgainKeeps ==
  ASSUME LateInv, RetryAgain
  PROVE  LateInv'
<1>1. PICK n \in Nat : n = Len(stack)
  BY DEF LateInv, Stands
<1>2. Levels = 1 .. n /\ Levels' = 1 .. n /\ Handler = n + 1 /\ Handler' = n + 1
  BY <1>1 DEF RetryAgain, Levels, Handler
<1>3. PICK m \in 1 .. n : m = level
  BY <1>2 DEF LateInv, Stands, RetryAgain
<1>4. \A i \in 1 .. m : late[i] = 0
  BY <1>2, <1>3 DEF LateInv, LateWell, WaitsInTime, RetryAgain
<1> DEFINE cut == {j \in passed : j <= m}
<1>5. /\ passed' = cut /\ killed' = killed /\ pc' = "running" /\ level' = n + 1
      /\ late' = [j \in Levels |-> (IF j <= m THEN late[j] ELSE 0)
                                     + IF Ended(j, cut, killed) THEN 1 ELSE 0]
  BY <1>2, <1>3 DEF RetryAgain, Descend
<1>6. late' = [j \in 1 .. n |-> IF Ended(j, cut, killed) THEN 1 ELSE 0]
  BY <1>2, <1>4, <1>5
<1>7. cut \in SUBSET (1 .. n)
  BY <1>2 DEF LateInv, Stands
<1>8. Stands'
  <2>1. Len(stack)' = n
    BY <1>1 DEF RetryAgain
  <2>2. killed \in BOOLEAN
    BY DEF LateInv, Stands
  <2> HIDE DEF cut
  <2> QED BY <1>2, <1>5, <1>7, <2>1, <2>2 DEF Stands
<1>9. \A i, k \in 1 .. n : i <= k /\ Ended(i, cut, killed) => Ended(k, cut, killed)
  <2>1. cut \in SUBSET Nat
    <3> HIDE DEF cut
    <3> QED BY <1>7
  <2> QED BY <2>1, EndedBelow
<1>10. LateWell'
  BY <1>2, <1>5, <1>6, <1>9 DEF LateWell
<1> QED BY <1>5, <1>8, <1>10 DEF LateInv, WaitsInTime

LEMMA LateStepKeeps == LateInv /\ [Next]_vars => LateInv'
<1> SUFFICES ASSUME LateInv, [Next]_vars PROVE LateInv'
  OBVIOUS
<1>1. CASE UNCHANGED vars
  BY <1>1 DEF vars, LateInv, Stands, LateWell, WaitsInTime, Levels, Handler, Ended
<1>2. ASSUME NEW r \in Errors \cup {"ok"}, Run(r) PROVE LateInv'
  BY <1>2, ReturnKeeps DEF Run, LateInv, Stands
<1>3. CASE TimeoutReturns
  BY <1>3, ReturnKeeps DEF TimeoutReturns, Unwinding, LateInv, Stands
<1>4. CASE RetryReturns
  BY <1>4, ReturnKeeps DEF RetryReturns, Unwinding, LateInv, Stands
<1>5. CASE WaitCancelled
  BY <1>5, ReturnKeeps DEF WaitCancelled, LateInv, Stands
<1>6. CASE RetryWaits
  <2>1. /\ UNCHANGED <<stack, level, passed, killed, late>>
        /\ pc' = "waiting" /\ level \in Levels /\ ~Ended(level, passed, killed)
    BY <1>6 DEF RetryWaits, Unwinding, Stops, LateInv, Stands
  <2>2. Levels' = Levels /\ Handler' = Handler
    BY <2>1 DEF Levels, Handler
  <2>3. level <= level
    BY DEF LateInv, Stands, Handler
  <2>4. late[level] = 0
    BY <2>1, <2>3 DEF LateInv, LateWell
  <2> QED BY <2>1, <2>2, <2>4 DEF LateInv, Stands, LateWell, WaitsInTime, Ended
<1>7. CASE RetryAgain
  BY <1>7, AgainKeeps
<1>8. CASE Kill
  BY <1>8, EndingKeeps DEF Kill, LateInv, Stands
<1>9. ASSUME NEW i \in Levels, Deadline(i) PROVE LateInv'
  BY <1>9, EndingKeeps DEF Deadline, LateInv, Stands
<1> QED BY <1>1, <1>2, <1>3, <1>4, <1>5, <1>6, <1>7, <1>8, <1>9 DEF Next, Step

\* Retry "stops early on a context cancellation" (policy.go:37): once its context
\* has ended, at most one more run begins, however retries and timeouts are nested
\* and whichever way a timer and a context tie.
THEOREM RunsLateOnce == Spec => []LateOnce
<1>1. LateInv => LateOnce
  BY DEF LateInv, LateWell, LateOnce, Retries
<1> QED BY <1>1, LateInit, LateStepKeeps, PTL DEF Spec

-----------------------------------------------------------------------------
(* Attempts and waits.                                                     *)

\* No level is beyond what it is allowed, one that waits has attempts left, and
\* what it waits is what its backoff said.
AttemptInv ==
  /\ LateInv /\ stack \in Stacks /\ backoff \in Backoffs
  /\ attempt \in [Levels -> Positive]
  /\ \A i \in Levels : attempt[i] <= allowed(stack[i])
  /\ pc = "waiting" => /\ attempt[level] < allowed(stack[level])
                       /\ wait \in ExpBackoff(backoff, attempt[level])

\* What a level is allowed is one run at least.
LEMMA AllowedPositive ==
  ASSUME stack \in Stacks, NEW i \in Levels
  PROVE  allowed(stack[i]) \in Positive /\ stack[i].attempts \in Int
<1>1. stack \in Seq([kind: {"retry", "timeout"}, attempts: Int])
  BY StacksAssumption
<1>2. stack[i] \in [kind: {"retry", "timeout"}, attempts: Int]
  BY <1>1, LenProperties DEF Levels
<1> QED BY <1>2 DEF allowed, Positive

LEMMA AttemptInit == Init => AttemptInv
<1> SUFFICES ASSUME Init PROVE AttemptInv
  OBVIOUS
<1>1. attempt = [i \in Levels |-> 1] /\ stack \in Stacks /\ backoff \in Backoffs /\ pc = "running"
  BY DEF Init
<1>2. \A i \in Levels : allowed(stack[i]) >= 1
  BY <1>1, AllowedPositive DEF Positive
<1> QED BY <1>1, <1>2, LateInit DEF AttemptInv, Positive

LEMMA AttemptStepKeeps == AttemptInv /\ [Next]_vars => AttemptInv'
<1> SUFFICES ASSUME AttemptInv, [Next]_vars PROVE AttemptInv'
  OBVIOUS
<1>0. LateInv' /\ stack' = stack /\ backoff' = backoff /\ Levels' = Levels
  <2>1. stack' = stack /\ backoff' = backoff
    BY DEF Next, Step, vars, Run, TimeoutReturns, RetryReturns, RetryWaits, WaitCancelled,
           RetryAgain, Kill, Deadline
  <2> QED BY <2>1, LateStepKeeps DEF AttemptInv, Levels
<1>1. ASSUME UNCHANGED attempt, pc' = "waiting" => pc = "waiting" /\ UNCHANGED <<level, wait>>
      PROVE  AttemptInv'
  BY <1>0, <1>1 DEF AttemptInv
<1>2. CASE RetryWaits
  <2>1. /\ level \in Levels /\ stack[level].kind = "retry" /\ UNCHANGED <<attempt, level>>
        /\ ~(attempt[level] >= stack[level].attempts)
        /\ wait' \in ExpBackoff(backoff, attempt[level])
    BY <1>2 DEF RetryWaits, Unwinding, Stops, AttemptInv, LateInv, Stands
  <2>2. attempt[level] < allowed(stack[level])
    <3>1. attempt[level] \in Positive /\ stack[level].attempts \in Int
      BY <2>1, AllowedPositive DEF AttemptInv
    <3> QED BY <2>1, <3>1 DEF allowed, Positive
  <2> QED BY <1>0, <2>1, <2>2 DEF AttemptInv
<1>3. CASE RetryAgain
  <2>1. /\ level \in Levels /\ attempt[level] < allowed(stack[level]) /\ pc' = "running"
        /\ attempt' = [j \in Levels |-> IF j < level THEN attempt[j]
                                       ELSE IF j = level THEN attempt[level] + 1 ELSE 1]
    BY <1>3 DEF RetryAgain, Descend, AttemptInv, LateInv, Stands
  <2>2. \A i \in Levels : /\ allowed(stack[i]) \in Positive /\ attempt[i] \in Positive
                          /\ attempt[i] <= allowed(stack[i])
    BY AllowedPositive DEF AttemptInv
  <2>3. \A i \in Levels : attempt'[i] \in Positive /\ attempt'[i] <= allowed(stack[i])
    BY <2>1, <2>2 DEF Positive
  <2> QED BY <1>0, <2>1, <2>3 DEF AttemptInv
<1>4. CASE UNCHANGED vars
  BY <1>1, <1>4 DEF vars
<1>5. ASSUME NEW r \in Errors \cup {"ok"}, Run(r) PROVE AttemptInv'
  BY <1>1, <1>5 DEF Run, Return
<1>6. CASE TimeoutReturns
  BY <1>1, <1>6 DEF TimeoutReturns, Return
<1>7. CASE RetryReturns
  BY <1>1, <1>7 DEF RetryReturns, Return
<1>8. CASE WaitCancelled
  BY <1>1, <1>8 DEF WaitCancelled, Return
<1>9. CASE Kill
  BY <1>1, <1>9 DEF Kill
<1>10. ASSUME NEW i \in Levels, Deadline(i) PROVE AttemptInv'
  BY <1>1, <1>10 DEF Deadline
<1> QED BY <1>2, <1>3, <1>4, <1>5, <1>6, <1>7, <1>8, <1>9, <1>10 DEF Next, Step

\* ExpBackoff's delay is "base after the first attempt, multiplied by factor after each
\* further one, capped at max" (policy.go:24) wherever that comes to 1 or more, for any
\* base, cap and attempt and any fraction as the factor, however a platform converts
\* what overflows; and no delay exceeds the cap.
THEOREM DelaysHold == Spec => []DelaysAsDocumented
<1>1. AttemptInv => DelaysAsDocumented
  <2> SUFFICES ASSUME AttemptInv, pc = "waiting" PROVE DelaysAsDocumented
    BY DEF DelaysAsDocumented
  <2>1. level \in Levels /\ attempt[level] \in Positive
    BY DEF AttemptInv, LateInv, Stands
  <2>2. PICK n \in Nat : attempt[level] = n + 1
    <3>1. attempt[level] - 1 \in Nat /\ attempt[level] = (attempt[level] - 1) + 1
      BY <2>1 DEF Positive
    <3> QED BY <3>1
  <2>3. backoff \in Backoffs /\ wait \in ExpBackoff(backoff, n + 1)
    BY <2>2 DEF AttemptInv
  <2>4. PICK x, y : x = product(backoff, n + 1) /\ y = scale(backoff, n + 1)
    OBVIOUS
  <2>5. /\ wait <= backoff.cap
        /\ x >= y => IF x > backoff.cap * y THEN wait = backoff.cap
                     ELSE wait * y <= x /\ x < (wait + 1) * y
    BY <2>3, <2>4, DelaysFit
  <2> QED BY <2>2, <2>4, <2>5 DEF DelaysAsDocumented
<1> QED BY <1>1, AttemptInit, AttemptStepKeeps, PTL DEF Spec

-----------------------------------------------------------------------------
(* How often the handler runs.                                             *)

\* What a stack allows is the first of the products from its bottom.
LEMMA MostIs ==
  ASSUME NEW s, NEW n \in Nat, Len(s) = n, \A i \in 1 .. n : allowed(s[i]) \in Positive
  PROVE  \E w \in [1 .. n + 1 -> Positive] :
           /\ w[n + 1] = 1 /\ \A i \in 1 .. n : w[i] = allowed(s[i]) * w[i + 1]
           /\ mostRuns(s) = w[1]
<1> DEFINE Most(w) == w = [i \in 1 .. n + 1 |-> IF i = n + 1 THEN 1 ELSE allowed(s[i]) * w[i + 1]]
           m == CHOOSE w : Most(w)
           step == [k \in 1 .. n |-> [v \in Positive |-> allowed(s[n + 1 - k]) * v]]
<1>0. /\ 1 \in Positive /\ \A v, a \in Positive : a * v \in Positive
      /\ \A k \in 1 .. n : n + 1 - k \in 1 .. n
  BY DEF Positive
<1>1. \E w : Most(w)
  <2>1. step \in Steps(n, Positive)
    BY <1>0 DEF Steps
  <2>2. PICK one \in Positive : one = 1
    BY <1>0
  <2>3. PICK h \in [0 .. n -> Positive] :
          h[0] = one /\ \A k \in 1 .. n : h[k] = step[k][h[k - 1]]
    <3> HIDE DEF step
    <3> QED BY <2>1, Recursion
  <2>4. \A k \in 1 .. n : h[k] = allowed(s[n + 1 - k]) * h[k - 1]
    <3>1. \A k \in 1 .. n : h[k - 1] \in Positive
      OBVIOUS
    <3> QED BY <2>3, <3>1
  <2> DEFINE w == [i \in 1 .. n + 1 |-> h[n + 1 - i]]
  <2>5. ASSUME NEW i \in 1 .. n + 1
        PROVE  w[i] = IF i = n + 1 THEN 1 ELSE allowed(s[i]) * w[i + 1]
    <3>1. CASE i = n + 1
      BY <2>2, <2>3, <3>1
    <3>2. CASE i # n + 1
      <4>1. PICK k \in 1 .. n : k = n + 1 - i /\ i = n + 1 - k
        BY <3>2
      <4>2. w[i] = h[k] /\ w[i + 1] = h[k - 1] /\ h[k] = allowed(s[i]) * h[k - 1]
        BY <2>4, <4>1
      <4> QED BY <3>2, <4>2
    <3> QED BY <3>1, <3>2
  <2>6. w = [i \in 1 .. n + 1 |-> w[i]]
    OBVIOUS
  <2>7. Most(w)
    <3> HIDE DEF w
    <3> QED BY <2>5, <2>6
  <2> QED BY <2>7
<1>2. Most(m)
  <2> HIDE DEF Most
  <2> QED BY <1>1
<1>3. mostRuns(s) = m[1]
  BY DEF mostRuns
<1>4. m[n + 1] = 1 /\ \A i \in 1 .. n : m[i] = allowed(s[i]) * m[i + 1]
  <2> HIDE DEF m
  <2> QED BY <1>2
<1>5. m \in [1 .. n + 1 -> Positive]
  <2> HIDE DEF m
  <2> DEFINE S == {k \in 0 .. n : m[n + 1 - k] \in Positive}
  <2>1. 0 \in S
    BY <1>0, <1>4
  <2>2. ASSUME NEW k \in 1 .. n, k - 1 \in S PROVE k \in S
    <3>1. PICK i \in 1 .. n : i = n + 1 - k
      BY <1>0
    <3>2. n + 1 - (k - 1) = i + 1
      BY <3>1
    <3>3. m[i + 1] \in Positive
      BY <2>2, <3>2
    <3>4. m[i] \in Positive
      BY <1>0, <1>4, <3>3
    <3> QED BY <3>1, <3>4
  <2>3. \A k \in 0 .. n : k \in S
    <3>1. \A k \in 1 .. n : k - 1 \in S => k \in S
      BY <2>2
    <3> HIDE DEF S
    <3> QED BY <2>1, <3>1, Upwards
  <2>4. ASSUME NEW i \in 1 .. n + 1 PROVE m[i] \in Positive
    <3>1. PICK k \in 0 .. n : k = n + 1 - i /\ i = n + 1 - k
      OBVIOUS
    <3> QED BY <2>3, <3>1
  <2> QED BY <1>2, <2>4
<1> HIDE DEF m
<1> QED BY <1>3, <1>4, <1>5

\* The level whose call is still open below the one that runs or is answered.
Open == IF pc = "running" THEN Handler ELSE level + 1

\* w says how often a call of each level may run the handler, c how often it had run
\* when the level's current call began: every attempt before it has cost the call
\* w of the level below at most.
Counted(w, c) ==
  /\ w \in [1 .. Handler -> Positive] /\ w[Handler] = 1 /\ w[1] = mostRuns(stack)
  /\ \A i \in Levels : w[i] = allowed(stack[i]) * w[i + 1]
  /\ c \in [1 .. Handler -> Nat] /\ c[1] = 0
  /\ \A i \in Levels : c[i + 1] <= c[i] + (attempt[i] - 1) * w[i + 1]
  /\ runs \in Nat /\ Open \in 1 .. Handler /\ runs <= c[Open] + w[Open]

RunsInv == AttemptInv /\ \E w, c : Counted(w, c)

\* One more attempt of the cost x each.
LEMMA OneMore ==
  ASSUME NEW a \in Positive, NEW most \in Positive, a <= most, NEW x \in Nat, NEW from \in Nat,
         NEW to \in Nat, to <= from + (a - 1) * x
  PROVE  to + x <= from + a * x /\ from + a * x <= from + most * x
<1>1. PICK d \in Nat, e \in Nat : a = d + 1 /\ most = a + e
  <2>1. a - 1 \in Nat /\ most - a \in Nat /\ a = (a - 1) + 1 /\ most = a + (most - a)
    BY DEF Positive
  <2> QED BY <2>1
<1>2. PICK dx \in Nat, ex \in Nat : dx = d * x /\ ex = e * x
  OBVIOUS
<1>3. (d + 1) * x = dx + x /\ ((d + 1) + e) * x = dx + x + ex /\ (d + 1) - 1 = d
  BY <1>2
<1> QED BY <1>1, <1>2, <1>3

\* A level that has been answered has not used more than its attempts so far.
LEMMA Answered ==
  ASSUME AttemptInv, NEW w, NEW c, Counted(w, c), NEW i \in Levels, runs <= c[i + 1] + w[i + 1]
  PROVE  /\ runs <= c[i] + attempt[i] * w[i + 1]
         /\ runs <= c[i] + w[i]
<1>1. PICK n \in Nat : n = Len(stack)
  BY DEF AttemptInv, LateInv, Stands
<1>2. Levels = 1 .. n /\ Handler = n + 1 /\ i \in 1 .. n /\ i + 1 \in 1 .. n + 1
  BY <1>1 DEF Levels, Handler
<1>3. /\ allowed(stack[i]) \in Positive /\ attempt[i] \in Positive
      /\ attempt[i] <= allowed(stack[i])
  BY AllowedPositive DEF AttemptInv
<1>4. /\ w[i + 1] \in Nat /\ c[i] \in Nat /\ c[i + 1] \in Nat /\ runs \in Nat
      /\ w[i] = allowed(stack[i]) * w[i + 1]
      /\ c[i + 1] <= c[i] + (attempt[i] - 1) * w[i + 1]
  <2>1. /\ w \in [1 .. Handler -> Positive] /\ c \in [1 .. Handler -> Nat] /\ runs \in Nat
        /\ w[i] = allowed(stack[i]) * w[i + 1]
        /\ c[i + 1] <= c[i] + (attempt[i] - 1) * w[i + 1]
    BY DEF Counted
  <2>2. w[i + 1] \in Positive /\ c[i] \in Nat /\ c[i + 1] \in Nat
    BY <1>2, <2>1
  <2> QED BY <2>1, <2>2 DEF Positive
<1>5. PICK a \in Positive, most \in Positive, x \in Nat, from \in Nat, to \in Nat :
        /\ a = attempt[i] /\ most = allowed(stack[i]) /\ x = w[i + 1]
        /\ from = c[i] /\ to = c[i + 1]
  BY <1>3, <1>4
<1>6. to + x <= from + a * x /\ from + a * x <= from + most * x
  BY <1>3, <1>4, <1>5, OneMore
<1>7. a * x \in Nat /\ most * x \in Nat
  BY DEF Positive
<1>8. runs <= to + x
  BY <1>5
<1> QED BY <1>4, <1>5, <1>6, <1>7, <1>8

LEMMA RunsInit == Init => RunsInv
<1> SUFFICES ASSUME Init PROVE RunsInv
  OBVIOUS
<1>1. AttemptInv
  BY AttemptInit
<1>2. PICK n \in Nat : n = Len(stack)
  BY <1>1 DEF AttemptInv, LateInv, Stands
<1>3. Levels = 1 .. n /\ Handler = n + 1
  BY <1>2 DEF Levels, Handler
<1>4. \A i \in 1 .. n : allowed(stack[i]) \in Positive
  BY <1>1, <1>3, AllowedPositive DEF AttemptInv
<1>5. PICK w \in [1 .. n + 1 -> Positive] :
        /\ w[n + 1] = 1 /\ \A i \in 1 .. n : w[i] = allowed(stack[i]) * w[i + 1]
        /\ mostRuns(stack) = w[1]
  BY <1>2, <1>4, MostIs
<1> DEFINE c == [i \in 1 .. n + 1 |-> 0]
<1>6. ASSUME NEW i \in 1 .. n PROVE c[i + 1] <= c[i] + (attempt[i] - 1) * w[i + 1]
  <2>1. PICK x \in Nat : x = w[i + 1]
    BY DEF Positive
  <2>2. attempt[i] - 1 = 0 /\ 0 * x = 0
    BY <1>3 DEF Init
  <2>3. c[i + 1] = 0 /\ c[i] = 0
    OBVIOUS
  <2> QED BY <2>1, <2>2, <2>3
<1>7. c \in [1 .. n + 1 -> Nat] /\ c[1] = 0 /\ c[n + 1] = 0
  OBVIOUS
<1>8. Open = n + 1 /\ runs = 1
  BY <1>3 DEF Open, Init
<1> HIDE DEF c
<1>9. Counted(w, c)
  BY <1>3, <1>5, <1>6, <1>7, <1>8 DEF Counted
<1> QED BY <1>1, <1>9 DEF RunsInv

\* Nothing runs: the counts stand, as long as the open call is within them.
LEMMA CountsStand ==
  ASSUME AttemptInv', NEW w, NEW c, Counted(w, c), UNCHANGED <<stack, attempt, runs>>,
         Open' \in 1 .. Handler, runs <= c[Open'] + w[Open']
  PROVE  RunsInv'
<1>1. Levels' = Levels /\ Handler' = Handler
  BY DEF Levels, Handler
<1>2. Counted(w, c)'
  BY <1>1 DEF Counted
<1> QED BY <1>2 DEF RunsInv

\* A level answers the one above it.
LEMMA AnswerKeeps ==
  ASSUME RunsInv, AttemptInv', level \in Levels, pc # "running", NEW r, Return(level - 1, r),
         UNCHANGED <<stack, attempt, runs>>
  PROVE  RunsInv'
<1>1. PICK w, c : Counted(w, c)
  BY DEF RunsInv
<1>2. Open = level + 1
  BY DEF Open
<1>3. runs <= c[level] + w[level]
  BY <1>1, <1>2, Answered DEF RunsInv, Counted
<1>4. Open' = level
  <2>1. level \in Int /\ (level - 1) + 1 = level
    BY DEF Levels
  <2> QED BY <2>1 DEF Open, Return
<1>5. level \in 1 .. Handler
  BY DEF Levels, Handler, RunsInv, AttemptInv, LateInv, Stands
<1> QED BY <1>1, <1>3, <1>4, <1>5, CountsStand

\* Another attempt: the calls below begin with the runs there are, and so does the
\* run that begins.
LEMMA AgainCounts ==
  ASSUME RunsInv, AttemptInv', RetryAgain
  PROVE  RunsInv'
<1>1. PICK w, c : Counted(w, c)
  BY DEF RunsInv
<1>2. PICK n \in Nat : n = Len(stack)
  BY DEF RunsInv, AttemptInv, LateInv, Stands
<1>3. /\ Levels = 1 .. n /\ Levels' = 1 .. n /\ Handler = n + 1 /\ Handler' = n + 1
      /\ stack' = stack
  BY <1>2 DEF RetryAgain, Levels, Handler
<1>4. PICK l \in 1 .. n : l = level
  BY <1>3 DEF RetryAgain, RunsInv, AttemptInv, LateInv, Stands
<1>5. /\ attempt' = [j \in 1 .. n |-> IF j < l THEN attempt[j]
                                     ELSE IF j = l THEN attempt[l] + 1 ELSE 1]
      /\ runs' = runs + 1 /\ pc' = "running" /\ Open' = n + 1 /\ Open = l + 1
  BY <1>3, <1>4 DEF RetryAgain, Descend, Open
<1>6. /\ w \in [1 .. n + 1 -> Positive] /\ w[n + 1] = 1 /\ w[1] = mostRuns(stack)
      /\ \A i \in 1 .. n : w[i] = allowed(stack[i]) * w[i + 1]
      /\ c \in [1 .. n + 1 -> Nat] /\ c[1] = 0 /\ runs \in Nat
      /\ \A i \in 1 .. n : c[i + 1] <= c[i] + (attempt[i] - 1) * w[i + 1]
  BY <1>1, <1>3 DEF Counted
<1>7. runs <= c[l] + attempt[l] * w[l + 1]
  <2>1. runs <= c[l + 1] + w[l + 1]
    BY <1>1, <1>5 DEF Counted
  <2> QED BY <1>1, <1>3, <1>4, <2>1, Answered DEF RunsInv
<1>0. PICK d : d = [i \in 1 .. n + 1 |-> IF i <= l THEN c[i] ELSE runs]
  OBVIOUS
<1>8. d \in [1 .. n + 1 -> Nat] /\ d[1] = 0 /\ d[n + 1] = runs
  BY <1>0, <1>6
<1>9. ASSUME NEW i \in 1 .. n PROVE d[i + 1] <= d[i] + (attempt'[i] - 1) * w[i + 1]
  <2>1. CASE i < l
    <3>1. d[i + 1] = c[i + 1] /\ d[i] = c[i] /\ attempt'[i] = attempt[i]
      BY <1>0, <1>5, <2>1
    <3> QED BY <1>6, <3>1
  <2>2. CASE i = l
    <3>1. d[i + 1] = runs /\ d[i] = c[l] /\ attempt'[i] = attempt[l] + 1
      BY <1>0, <1>5, <2>2
    <3>2. attempt[l] \in Int
      BY <1>3 DEF RunsInv, AttemptInv, Positive
    <3>3. (attempt[l] + 1) - 1 = attempt[l]
      BY <3>2
    <3> QED BY <1>7, <2>2, <3>1, <3>3
  <2>3. CASE i > l
    <3>1. d[i + 1] = runs /\ d[i] = runs /\ attempt'[i] - 1 = 0
      BY <1>0, <1>5, <2>3
    <3>2. PICK x \in Nat : x = w[i + 1]
      BY <1>6 DEF Positive
    <3>3. 0 * x = 0 /\ runs <= runs + 0
      BY <1>6
    <3> QED BY <3>1, <3>2, <3>3
  <2> QED BY <2>1, <2>2, <2>3
<1>10. Counted(w, d)'
  <2>1. runs' \in Nat /\ runs' <= d[n + 1] + w[n + 1]
    BY <1>5, <1>6, <1>8
  <2>2. mostRuns(stack)' = mostRuns(stack) /\ n + 1 \in 1 .. n + 1
    BY <1>3
  <2>3. /\ \A i \in Levels' : w[i] = allowed(stack[i])' * w[i + 1]
        /\ \A i \in Levels' : d[i + 1] <= d[i] + (attempt'[i] - 1) * w[i + 1]
    <3>1. \A i \in 1 .. n : allowed(stack[i])' = allowed(stack[i])
      BY <1>3
    <3> QED BY <1>3, <1>6, <1>9, <3>1
  <2>4. Open' = n + 1
    BY <1>5
  <2>5. /\ w \in [1 .. Handler' -> Positive] /\ w[Handler'] = 1 /\ w[1] = mostRuns(stack)'
        /\ d \in [1 .. Handler' -> Nat] /\ d[1] = 0
    BY <1>3, <1>6, <1>8, <2>2
  <2>6. Open' \in 1 .. Handler' /\ runs' <= d[Open'] + w[Open']
    BY <1>3, <2>1, <2>2, <2>4
  <2> QED BY <2>1, <2>3, <2>5, <2>6 DEF Counted
<1> QED BY <1>10 DEF RunsInv

LEMMA RunsStepKeeps == RunsInv /\ [Next]_vars => RunsInv'
<1> SUFFICES ASSUME RunsInv, [Next]_vars PROVE RunsInv'
  OBVIOUS
<1>0. AttemptInv'
  BY AttemptStepKeeps DEF RunsInv
<1>1. ASSUME UNCHANGED <<stack, attempt, runs>>, Open' = Open PROVE RunsInv'
  <2>1. PICK w, c : Counted(w, c)
    BY DEF RunsInv
  <2>2. Open' \in 1 .. Handler /\ runs <= c[Open'] + w[Open']
    BY <1>1, <2>1 DEF Counted
  <2> QED BY <1>0, <1>1, <2>1, <2>2, CountsStand
<1>2. Len(stack) \in Nat /\ (pc \in {"unwinding", "waiting"} => level \in Levels)
      /\ (pc = "running" => level = Handler)
  BY DEF RunsInv, AttemptInv, LateInv, Stands
<1>3. CASE UNCHANGED vars
  BY <1>1, <1>3 DEF vars, Open, Handler
<1>4. ASSUME NEW r \in Errors \cup {"ok"}, Run(r) PROVE RunsInv'
  <2>1. level = Handler /\ Open = Handler /\ Handler \in Int
    BY <1>2, <1>4 DEF Run, Open, Handler
  <2>2. Open' = Handler
    BY <1>4, <2>1 DEF Run, Return, Open
  <2> QED BY <1>1, <1>4, <2>1, <2>2 DEF Run
<1>5. CASE TimeoutReturns
  BY <1>0, <1>2, <1>5, AnswerKeeps DEF TimeoutReturns, Unwinding
<1>6. CASE RetryReturns
  BY <1>0, <1>2, <1>6, AnswerKeeps DEF RetryReturns, Unwinding
<1>7. CASE WaitCancelled
  BY <1>0, <1>2, <1>7, AnswerKeeps DEF WaitCancelled
<1>8. CASE RetryWaits
  BY <1>1, <1>8 DEF RetryWaits, Unwinding, Open
<1>9. CASE RetryAgain
  BY <1>0, <1>9, AgainCounts
<1>10. CASE Kill
  BY <1>1, <1>10 DEF Kill, Open, Handler
<1>11. ASSUME NEW i \in Levels, Deadline(i) PROVE RunsInv'
  BY <1>1, <1>11 DEF Deadline, Open, Handler
<1> QED BY <1>3, <1>4, <1>5, <1>6, <1>7, <1>8, <1>9, <1>10, <1>11 DEF Next, Step

\* "Retry re-runs a failed handler up to attempts total runs" (policy.go:36): whatever
\* stands between them, nested retries run the handler at most as often as their
\* attempts multiply to, and a retry of less than one attempt once.
THEOREM RunsBounded == Spec => []AttemptsBounded
<1>1. RunsInv => AttemptsBounded
  <2> SUFFICES ASSUME RunsInv PROVE AttemptsBounded
    OBVIOUS
  <2>1. PICK w, c : Counted(w, c)
    BY DEF RunsInv
  <2>2. PICK n \in Nat : n = Len(stack)
    BY DEF RunsInv, AttemptInv, LateInv, Stands
  <2>3. Levels = 1 .. n /\ Handler = n + 1
    BY <2>2 DEF Levels, Handler
  <2>4. PICK top \in 0 .. n : Open = top + 1
    <3>1. Open \in 1 .. n + 1
      BY <2>1, <2>3 DEF Counted
    <3>2. Open - 1 \in 0 .. n /\ Open = (Open - 1) + 1
      BY <3>1
    <3> QED BY <3>2
  <2> DEFINE S == {k \in 0 .. top : runs <= c[top + 1 - k] + w[top + 1 - k]}
  <2>5. 0 \in S
    BY <2>1, <2>4 DEF Counted
  <2>6. ASSUME NEW k \in 1 .. top, k - 1 \in S PROVE k \in S
    <3>1. PICK i \in 1 .. n : i = top + 1 - k
      OBVIOUS
    <3>2. top + 1 - (k - 1) = i + 1
      BY <3>1
    <3>3. runs <= c[i + 1] + w[i + 1]
      BY <2>6, <3>2
    <3>4. runs <= c[i] + w[i]
      BY <2>1, <2>3, <3>3, Answered DEF RunsInv
    <3> QED BY <3>1, <3>4
  <2>7. top \in S
    <3>1. \A k \in 1 .. top : k - 1 \in S => k \in S
      BY <2>6
    <3>2. top \in Nat
      OBVIOUS
    <3> HIDE DEF S
    <3>3. \A k \in 0 .. top : k \in S
      BY <2>5, <3>1, <3>2, Upwards
    <3> QED BY <3>2, <3>3
  <2>8. top + 1 - top = 1
    OBVIOUS
  <2>9. runs <= c[1] + w[1]
    BY <2>7, <2>8
  <2>10. c[1] = 0 /\ w[1] = mostRuns(stack) /\ w[1] \in Nat
    BY <2>1, <2>3 DEF Counted, Positive
  <2> QED BY <2>9, <2>10 DEF AttemptsBounded
<1> QED BY <1>1, RunsInit, RunsStepKeeps, PTL DEF Spec

=============================================================================
