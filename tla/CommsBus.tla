------------------------------ MODULE CommsBus ------------------------------
(***************************************************************************)
(* The in-memory bus through which tasks talk (comms/bus.go, comms.go).    *)
(*                                                                         *)
(* A publish takes the bus lock, offers its payload to every subscription  *)
(* of the topic without blocking, gives the lock up and reports the drops  *)
(* to the hook on its own goroutine.  Closing a subscription removes it    *)
(* under the lock and closes its channel outside it.  Receivers drain      *)
(* their channels without the lock, closed ones included.  Publishers,     *)
(* subscribers and receivers are different goroutines: a step is one       *)
(* channel operation, one hook call or one section under the lock.         *)
(*                                                                         *)
(* Payloads are numbered in the order their publishes took the lock, which *)
(* is the order of the bus.                                                *)
(***************************************************************************)
EXTENDS Integers, Sequences, FiniteSets

CONSTANTS
  Subs,        \* subscriptions, each made at most once
  Publishers,  \* goroutines that publish, one call at a time
  Topics,
  Size,        \* the buffer size NewBus is asked for
  MaxSent,     \* bound: how many payloads are published
  None         \* nobody has the lock; no topic

ASSUME SizeAssumption == Size \in Int
ASSUME SentAssumption == MaxSent \in Nat
ASSUME SubsAssumption == IsFiniteSet(Subs)
ASSUME NoneAssumption == None \notin Topics \cup Publishers

Payloads == 1 .. MaxSent

\* Values below 1 are raised to 1.
buffer == IF Size < 1 THEN 1 ELSE Size

Phases == {"unmade", "open", "removed", "closed"}
Stages == {"idle", "sending", "reporting"}

Calls ==
  [stage: Stages,
   payload: 0 .. MaxSent,         \* what is being published
   left: SUBSET Subs,             \* whom it was not yet offered to
   dropped: 0 .. Cardinality(Subs)]  \* drops still to be reported

NoCall == [stage |-> "idle", payload |-> 0, left |-> {}, dropped |-> 0]

VARIABLES
  mu,      \* the publisher that has the bus lock, or None
  phase,   \* where each subscription is
  topic,   \* the topic of each subscription
  ch,      \* what each channel holds
  call,    \* the publish under way in each publisher
  \* What happened, for the properties:
  log,     \* the topic of each payload published so far
  since,   \* how many payloads were published before a subscription was made
  upto,    \* and before it was removed
  got,     \* what each subscription's receiver took
  missed,  \* what was dropped for it
  reports  \* how often the hook heard of each payload

history == <<log, since, upto, got, missed, reports>>
vars == <<mu, phase, topic, ch, call, history>>

TypeOK ==
  /\ mu \in Publishers \cup {None}
  /\ phase \in [Subs -> Phases]
  /\ topic \in [Subs -> Topics \cup {None}]
  /\ ch \in [Subs -> Seq(Payloads)]
  /\ \A s \in Subs : Len(ch[s]) <= buffer
  /\ call \in [Publishers -> Calls]
  /\ \A p \in Publishers : call[p].stage = "sending" <=> mu = p
  /\ log \in Seq(Topics) /\ Len(log) <= MaxSent
  /\ since \in [Subs -> 0 .. MaxSent] /\ upto \in [Subs -> 0 .. MaxSent]
  /\ got \in [Subs -> Seq(Payloads)]
  /\ missed \in [Subs -> SUBSET Payloads]
  /\ reports \in [Payloads -> Nat]

Init ==
  /\ mu = None
  /\ phase = [s \in Subs |-> "unmade"] /\ topic = [s \in Subs |-> None]
  /\ ch = [s \in Subs |-> <<>>]
  /\ call = [p \in Publishers |-> NoCall]
  /\ log = <<>>
  /\ since = [s \in Subs |-> 0] /\ upto = [s \in Subs |-> 0]
  /\ got = [s \in Subs |-> <<>>] /\ missed = [s \in Subs |-> {}]
  /\ reports = [n \in Payloads |-> 0]

\* bus.subs[t]: the registered subscriptions of a topic.
subs(t) == {s \in Subs : phase[s] = "open" /\ topic[s] = t}

-----------------------------------------------------------------------------
(* Publish.                                                                *)

\* The publish takes the lock; the payload is the next of the bus.
Publish(p, t) ==
  /\ mu = None /\ call[p].stage = "idle" /\ Len(log) < MaxSent
  /\ mu' = p
  /\ log' = Append(log, t)
  /\ call' = [call EXCEPT ![p] = [stage |-> "sending", payload |-> Len(log'),
                                  left |-> subs(t), dropped |-> 0]]
  /\ UNCHANGED <<phase, topic, ch, since, upto, got, missed, reports>>

\* Slip: the send waits for room in the buffer.
OfferBlocking(p, s) ==
  /\ mu = p /\ s \in call[p].left
  /\ Len(ch[s]) < buffer
  /\ ch' = [ch EXCEPT ![s] = Append(@, call[p].payload)]
  /\ call' = [call EXCEPT ![p].left = @ \ {s}]
  /\ UNCHANGED <<mu, phase, topic, log, since, upto, got, missed, reports>>

\* Slip: a full buffer gives up its oldest payload for the new one.
OfferEvicting(p, s) ==
  LET n == call[p].payload
      full == Len(ch[s]) = buffer
  IN /\ mu = p /\ s \in call[p].left
     /\ ch' = [ch EXCEPT ![s] = Append(IF full THEN Tail(@) ELSE @, n)]
     /\ missed' = [missed EXCEPT ![s] = IF full THEN @ \cup {n} ELSE @]
     /\ call' = [call EXCEPT ![p].left = @ \ {s},
                             ![p].dropped = IF full THEN @ + 1 ELSE @]
     /\ UNCHANGED <<mu, phase, topic, log, since, upto, got, reports>>

\* One send of the fan-out: into the buffer, or dropped when it is full.
Offer(p, s) ==
  LET n == call[p].payload IN
    /\ mu = p /\ s \in call[p].left
    /\ IF Len(ch[s]) < buffer
       THEN /\ ch' = [ch EXCEPT ![s] = Append(@, n)]
            /\ call' = [call EXCEPT ![p].left = @ \ {s}]
            /\ UNCHANGED missed
       ELSE /\ missed' = [missed EXCEPT ![s] = @ \cup {n}]
            /\ call' = [call EXCEPT ![p].left = @ \ {s}, ![p].dropped = @ + 1]
            /\ UNCHANGED ch
    /\ UNCHANGED <<mu, phase, topic, log, since, upto, got, reports>>

Reporting(c) == IF c.dropped = 0 THEN NoCall ELSE [c EXCEPT !.stage = "reporting"]

\* The lock is given up; the publish returns once its drops are reported.
Unlock(p) ==
  /\ mu = p /\ call[p].left = {}
  /\ mu' = None
  /\ call' = [call EXCEPT ![p] = Reporting(@)]
  /\ UNCHANGED <<phase, topic, ch, history>>

\* The hook hears of one drop, outside the lock.
Report(p) ==
  /\ call[p].stage = "reporting"
  /\ call' = [call EXCEPT ![p] = Reporting([call[p] EXCEPT !.dropped = @ - 1])]
  /\ reports' = [reports EXCEPT ![call[p].payload] = @ + 1]
  /\ UNCHANGED <<mu, phase, topic, ch, log, since, upto, got, missed>>

-----------------------------------------------------------------------------
(* Subscriptions.                                                          *)

Subscribe(s, t) ==
  /\ mu = None /\ phase[s] = "unmade"
  /\ phase' = [phase EXCEPT ![s] = "open"]
  /\ topic' = [topic EXCEPT ![s] = t]
  /\ since' = [since EXCEPT ![s] = Len(log)]
  /\ UNCHANGED <<mu, ch, call, log, upto, got, missed, reports>>

\* Slip: Close takes the subscription out without waiting for the lock.
CloseUnlocked(s) ==
  /\ phase[s] = "open"
  /\ phase' = [phase EXCEPT ![s] = "removed"]
  /\ upto' = [upto EXCEPT ![s] = Len(log)]
  /\ UNCHANGED <<mu, topic, ch, call, log, since, got, missed, reports>>

\* The first Close of a subscription removes it; later ones do nothing.
CloseRemoves(s) ==
  /\ mu = None /\ phase[s] = "open"
  /\ phase' = [phase EXCEPT ![s] = "removed"]
  /\ upto' = [upto EXCEPT ![s] = Len(log)]
  /\ UNCHANGED <<mu, topic, ch, call, log, since, got, missed, reports>>

CloseChannel(s) ==
  /\ phase[s] = "removed"
  /\ phase' = [phase EXCEPT ![s] = "closed"]
  /\ UNCHANGED <<mu, topic, ch, call, history>>

\* A receiver takes the oldest payload; a closed channel drains first.
Receive(s) ==
  /\ ch[s] # <<>>
  /\ got' = [got EXCEPT ![s] = Append(@, Head(ch[s]))]
  /\ ch' = [ch EXCEPT ![s] = Tail(@)]
  /\ UNCHANGED <<mu, phase, topic, call, log, since, upto, missed, reports>>

-----------------------------------------------------------------------------
PublishStep(p) ==
  \/ \E s \in Subs : Offer(p, s)
  \/ Unlock(p) \/ Report(p)

SubscriptionStep(s) ==
  \/ \E t \in Topics : Subscribe(s, t)
  \/ CloseRemoves(s) \/ CloseChannel(s) \/ Receive(s)

Next ==
  \/ \E p \in Publishers : PublishStep(p)
  \/ \E p \in Publishers, t \in Topics : Publish(p, t)
  \/ \E s \in Subs : SubscriptionStep(s)

\* A publisher goes on, and the hook it calls returns.  Nobody has to receive.
Fairness == \A p \in Publishers : WF_vars(PublishStep(p))

Spec == Init /\ [][Next]_vars /\ Fairness

-----------------------------------------------------------------------------
(* Properties.                                                             *)

\* "fans out each published payload to every subscriber that was subscribed to
\* the topic at publish time" (comms.go:8): what is owed to s so far, in order.
InFlight(s) == {call[p].payload : p \in {q \in Publishers : s \in call[q].left}}
End(s) == IF phase[s] = "open" THEN Len(log) ELSE upto[s]
Owed(s) ==
  {n \in DOMAIN log : since[s] < n /\ n <= End(s) /\ log[n] = topic[s]} \ InFlight(s)

\* "Each subscriber observes payloads in publish order", at most once, and
\* misses only what was dropped for it: the receiver's payloads and then the
\* channel's are, in order, all that is owed and was not dropped.
InOrder ==
  \A s \in Subs :
    LET seen == got[s] \o ch[s] IN
      /\ \A i, j \in DOMAIN seen : i < j => seen[i] < seen[j]
      /\ {seen[i] : i \in DOMAIN seen} = Owed(s) \ missed[s]
      /\ missed[s] \subseteq Owed(s)

\* "invoked once per subscriber that a publish was dropped for": reported, or
\* about to be by the publisher that dropped it.
MissedBy(n) == Cardinality({s \in Subs : n \in missed[s]})
DropsReported ==
  /\ \A p \in Publishers : call[p].stage # "idle" =>
       MissedBy(call[p].payload) = reports[call[p].payload] + call[p].dropped
  /\ \A n \in Payloads \ {call[p].payload : p \in Publishers} :
       MissedBy(n) = reports[n]

\* Every payload is accounted for: to its subscriber, or to the hook.
Accounted == InOrder /\ DropsReported

\* "a concurrent Publish can never send on a closed channel" (bus.go:94).
NoSendOnClosed ==
  \A p \in Publishers : \A s \in call[p].left : phase[s] # "closed"

\* "Publish never blocks on a slow subscriber": every publish returns, though
\* no receiver ever receives.
NobodyStalls == \A p \in Publishers : call[p].stage # "idle" ~> call[p].stage = "idle"

=============================================================================
