------------------------------ MODULE Policies ------------------------------
(***************************************************************************)
(* One run of a state's handler under its policies (workflows/policy.go as *)
(* workflows.On applies them): a stack of Retry and Timeout decorators,    *)
(* outermost first, around a handler that may succeed, fail, fail for good *)
(* (Permanent) or return its context's error, whenever it likes.  Level i  *)
(* of the stack calls level i + 1; the handler is the level below the last. *)
(* A context ends when the run is killed or a deadline above it passes,    *)
(* between any two steps.  Time is abstract: a timer may fire at any moment *)
(* of a wait, and ties between a timer and a context go either way.        *)
(***************************************************************************)
EXTENDS Integers, Sequences

CONSTANTS
  Stacks,    \* the stacks to consider: [kind, attempts] records, outermost first
  Backoffs,  \* the ExpBackoff settings: [base, factor, over, cap], factor as a fraction
  MaxDuration  \* the longest time.Duration

ASSUME StacksAssumption == Stacks \subseteq Seq([kind: {"retry", "timeout"}, attempts: Int])
ASSUME DurationAssumption == MaxDuration \in Nat
Least == -MaxDuration - 1
Durations == Least .. MaxDuration

\* Nothing is validated: any base, any cap, any factor that is a finite number.
ASSUME BackoffsAssumption ==
  \A b \in Backoffs : {b.base, b.cap} \subseteq Durations /\ b.factor \in Int /\ b.over \in Nat \ {0}

VARIABLES
  stack,    \* the decorators of the state
  backoff,  \* the settings of its retries
  pc,       \* "running" the handler, "unwinding", "waiting" or "returned"
  level,    \* the level that runs, gets the result, or waits
  attempt,  \* level -> Retry's attempt in its current call
  passed,   \* the Timeout levels whose current deadline has passed
  killed,   \* the run's context is cancelled
  result,   \* what the level below returned
  wait,     \* the delay of the latest wait
  runs,     \* how often the handler ran
  late      \* level -> runs begun in its current call after its context ended

vars == <<stack, backoff, pc, level, attempt, passed, killed, result, wait, runs, late>>

Levels == 1 .. Len(stack)
Handler == Len(stack) + 1
Errors == {"error", "permanent", "ended"}
Retries == {i \in Levels : stack[i].kind = "retry"}

\* The context a level is called with.
Ended(i, cut, dead) == dead \/ \E j \in cut : j < i

\* Level i calls the one below it, and so on down to the handler: attempts start
\* at one, deadlines are fresh.
Descend(i, tried) ==
  LET cut == {j \in passed : j <= i}
      behind(j) == IF j <= i THEN late[j] ELSE 0
  IN /\ passed' = cut
     /\ attempt' = [j \in Levels |-> IF j < i THEN attempt[j] ELSE IF j = i THEN tried ELSE 1]
     /\ late' = [j \in Levels |-> behind(j) + IF Ended(j, cut, killed) THEN 1 ELSE 0]
     /\ runs' = runs + 1
     /\ pc' = "running" /\ level' = Handler

Init ==
  /\ stack \in Stacks /\ backoff \in Backoffs
  /\ pc = "running" /\ level = Handler
  /\ attempt = [i \in Levels |-> 1]
  /\ passed = {} /\ killed = FALSE
  /\ result = "none" /\ wait = 0
  /\ runs = 1 /\ late = [i \in Levels |-> 0]

-----------------------------------------------------------------------------
(* ExpBackoff.                                                             *)

\* math.Pow, of whole numbers.
power(x, n) ==
  LET pow[k \in 0 .. n] == IF k = 0 THEN 1 ELSE x * pow[k - 1] IN pow[n]

\* The base, multiplied by the factor once for every attempt after the first: a
\* fraction, exact where a float64 rounds, that the conversion cuts toward zero.
product(b, n) == b.base * power(b.factor, n - 1)
scale(b, n) == power(b.over, n - 1)
truncated(x, y) == IF x >= 0 THEN x \div y ELSE -((-x) \div y)

\* float64 to time.Duration: what does not fit saturates or gives the least value,
\* as the platform has it.
toDuration(x) == IF x \in Durations THEN {x} ELSE {MaxDuration, Least}
grown(b, n) == toDuration(truncated(product(b, n), scale(b, n)))

\* Slip: the comparison with the cap alone.
ExpBackoffUnguarded(b, n) ==
  {IF d > b.cap THEN b.cap ELSE d : d \in grown(b, n)}

\* The delays attempt n may be followed by.
ExpBackoff(b, n) ==
  {IF d <= 0 \/ d > b.cap THEN b.cap ELSE d : d \in grown(b, n)}

-----------------------------------------------------------------------------
(* The handler.                                                            *)

Return(i, r) ==
  /\ level' = i /\ result' = r
  /\ pc' = IF i = 0 THEN "returned" ELSE "unwinding"

\* The handler returns; its context may have ended, and it may not care.
Run(r) ==
  /\ pc = "running"
  /\ r = "ended" => Ended(Handler, passed, killed)
  /\ Return(level - 1, r)
  /\ UNCHANGED <<stack, backoff, attempt, passed, killed, wait, runs, late>>

-----------------------------------------------------------------------------
(* Retry and Timeout.                                                      *)

Unwinding(kind) == pc = "unwinding" /\ stack[level].kind = kind

\* The deferred cancel, and the handler's own answer.
TimeoutReturns ==
  /\ Unwinding("timeout")
  /\ passed' = passed \ {level}
  /\ Return(level - 1, result)
  /\ UNCHANGED <<stack, backoff, attempt, killed, wait, runs, late>>

\* Slip: the context is not looked at between attempts.
StopsUncancelled == attempt[level] >= stack[level].attempts

\* Slip: one attempt too many.
StopsLate == attempt[level] > stack[level].attempts \/ Ended(level, passed, killed)

\* The last attempt, or nobody waits for another.
Stops == attempt[level] >= stack[level].attempts \/ Ended(level, passed, killed)

\* errors.As finds the mark: the underlying error goes up without it.
GivesUp == result = "permanent"

RetryReturns ==
  /\ Unwinding("retry")
  /\ result = "ok" \/ GivesUp \/ Stops
  /\ Return(level - 1, IF GivesUp THEN "error" ELSE result)
  /\ UNCHANGED <<stack, backoff, attempt, passed, killed, wait, runs, late>>

RetryWaits ==
  /\ Unwinding("retry")
  /\ result # "ok" /\ ~GivesUp /\ ~Stops
  /\ pc' = "waiting"
  /\ wait' \in ExpBackoff(backoff, attempt[level])
  /\ UNCHANGED <<stack, backoff, level, attempt, passed, killed, result, runs, late>>

\* Slip: the wait is a plain sleep.
SleepThrough == FALSE /\ UNCHANGED vars

\* The wait ends with the context, whose error replaces the handler's ...
WaitCancelled ==
  /\ pc = "waiting" /\ Ended(level, passed, killed)
  /\ Return(level - 1, "ended")
  /\ UNCHANGED <<stack, backoff, attempt, passed, killed, wait, runs, late>>

\* ... or with the timer, which may win against a context that has just ended.
RetryAgain ==
  /\ pc = "waiting"
  /\ Descend(level, attempt[level] + 1)
  /\ UNCHANGED <<stack, backoff, killed, result, wait>>

-----------------------------------------------------------------------------
(* Contexts end from outside.                                              *)

Kill ==
  /\ pc # "returned" /\ ~killed
  /\ killed' = TRUE
  /\ UNCHANGED <<stack, backoff, pc, level, attempt, passed, result, wait, runs, late>>

\* A deadline passes while its level's call is open.
Deadline(i) ==
  /\ pc # "returned"
  /\ stack[i].kind = "timeout" /\ i <= level /\ i \notin passed
  /\ passed' = passed \cup {i}
  /\ UNCHANGED <<stack, backoff, pc, level, attempt, killed, result, wait, runs, late>>

Step ==
  \/ \E r \in Errors \cup {"ok"} : Run(r)
  \/ TimeoutReturns \/ RetryReturns \/ RetryWaits \/ WaitCancelled

Next == Step \/ RetryAgain \/ Kill \/ \E i \in Levels : Deadline(i)

Spec == Init /\ [][Next]_vars

\* A handler returns and the goroutine is scheduled; no timer need ever fire.
FairSpec == Spec /\ WF_vars(Step)

-----------------------------------------------------------------------------
(* Properties.                                                             *)

\* "up to attempts total runs" (policy.go:36): what a stack can make of one call,
\* where attempts below one still make one run.
allowed(policy) ==
  IF policy.kind = "retry" /\ policy.attempts > 1 THEN policy.attempts ELSE 1

mostRuns(policies) ==
  LET bottom == Len(policies) + 1
      most[i \in 1 .. bottom] ==
        IF i = bottom THEN 1 ELSE allowed(policies[i]) * most[i + 1]
  IN most[1]

\* The handler runs at most as often as the attempts of its retries, however they
\* are nested, multiply to.
AttemptsBounded == runs <= mostRuns(stack)

\* Once the context of a Retry has ended, killed or past a deadline above it, at
\* most one more run begins: the one whose timer won.
LateOnce == \A i \in Retries : late[i] <= 1

\* "base after the first attempt, multiplied by factor after each further one,
\* capped at max" (policy.go:24): wherever that comes to a delay of 1 or more, the
\* wait is it, cut to a whole number, or the cap if it is beyond the cap - for any
\* factor, fractions too, and past the longest duration.  No wait exceeds the cap.
DelaysAsDocumented ==
  pc = "waiting" =>
    LET x == product(backoff, attempt[level])  y == scale(backoff, attempt[level]) IN
      /\ wait <= backoff.cap
      /\ x >= y => IF x > backoff.cap * y THEN wait = backoff.cap
                   ELSE wait * y <= x /\ x < (wait + 1) * y

\* The same comment, where the delay comes to nothing as well: the code waits the
\* whole cap then (policies_backoff.cfg).
BackoffAsCommented ==
  pc = "waiting" =>
    LET x == product(backoff, attempt[level])  y == scale(backoff, attempt[level]) IN
      0 <= x /\ x <= backoff.cap * y => wait * y <= x /\ x < (wait + 1) * y

\* A kill ends the policies' run whatever the delays: no wait is slept through.
KilledReturns == killed ~> pc = "returned"

=============================================================================
