--------------------------- MODULE CommsBusProofs ---------------------------
(***************************************************************************)
(* Theorems about CommsBus: its type, that every payload is accounted for  *)
(* to each subscriber or to the hook, and that no closed channel is sent   *)
(* to, for any subscriptions, publishers, topics and buffer size.          *)
(***************************************************************************)
EXTENDS CommsBus, FiniteSetTheorems, SequenceTheorems, TLAPS

-----------------------------------------------------------------------------
(* The inductive invariant: what a publish under way knows of the bus, and *)
(* what a subscription that was never made has not.                        *)

\* The publish that has the lock is the bus's latest, and whom it has still to
\* offer its payload to cannot leave meanwhile.
CallWell(p) ==
  LET c == call[p] IN
    /\ c.stage = "idle" => c = NoCall
    /\ c.stage # "idle" => c.payload \in DOMAIN log
    /\ c.stage = "reporting" => c.left = {} /\ c.dropped > 0
    /\ c.stage = "sending" =>
         /\ c.payload = Len(log)
         /\ \A s \in c.left :
              phase[s] = "open" /\ topic[s] = log[Len(log)] /\ since[s] < Len(log)

Distinct ==
  \A p, q \in Publishers :
    p # q /\ call[p].stage # "idle" /\ call[q].stage # "idle"
      => call[p].payload # call[q].payload

SubWell(s) ==
  /\ since[s] <= Len(log) /\ upto[s] <= Len(log)
  /\ phase[s] = "unmade" =>
       ch[s] = <<>> /\ got[s] = <<>> /\ missed[s] = {} /\ upto[s] = 0

IInv ==
  /\ TypeOK
  /\ \A p \in Publishers : CallWell(p)
  /\ Distinct
  /\ \A s \in Subs : SubWell(s)
  /\ Accounted

-----------------------------------------------------------------------------
(* Lemmas.                                                                 *)

LEMMA BufferPositive == buffer \in Nat \ {0}
  BY SizeAssumption DEF buffer

LEMMA NoCallTyped == NoCall \in Calls /\ NoCall.stage = "idle" /\ NoCall.left = {}
<1>1. IsFiniteSet(Subs) /\ Cardinality(Subs) \in Nat
  BY SubsAssumption, FS_CardinalityType
<1> QED BY <1>1, SentAssumption DEF NoCall, Calls, Stages

\* Moving the channel's head to the receiver changes nothing of what was seen.
LEMMA ReceiveSees ==
  ASSUME NEW u \in Seq(Payloads), NEW v \in Seq(Payloads), v # <<>>
  PROVE  Append(u, Head(v)) \o Tail(v) = u \o v
  OBVIOUS

LEMMA SendSees ==
  ASSUME NEW u \in Seq(Payloads), NEW v \in Seq(Payloads), NEW e \in Payloads
  PROVE  u \o Append(v, e) = Append(u \o v, e)
  OBVIOUS

\* Only the publisher that has the lock has a payload in flight.
LEMMA InFlightIs ==
  ASSUME IInv, NEW s \in Subs
  PROVE  /\ mu = None => InFlight(s) = {}
         /\ \A p \in Publishers : mu = p =>
              InFlight(s) = IF s \in call[p].left THEN {Len(log)} ELSE {}
<1>1. \A q \in Publishers : s \in call[q].left => mu = q /\ call[q].payload = Len(log)
  <2> SUFFICES ASSUME NEW q \in Publishers, s \in call[q].left
               PROVE  mu = q /\ call[q].payload = Len(log)
    OBVIOUS
  <2>1. call[q].stage \in Stages /\ CallWell(q) /\ (call[q].stage = "sending" <=> mu = q)
    BY DEF IInv, TypeOK, Calls
  <2>2. call[q].stage # "idle"
    BY <2>1, NoCallTyped DEF CallWell
  <2>3. call[q].stage # "reporting"
    BY <2>1 DEF CallWell
  <2> QED BY <2>1, <2>2, <2>3 DEF CallWell, Stages
<1> QED BY <1>1, NoneAssumption DEF InFlight

\* What InOrder says of one subscription.
Orderly(seen, owed, dropped) ==
  /\ \A i, j \in DOMAIN seen : i < j => seen[i] < seen[j]
  /\ {seen[i] : i \in DOMAIN seen} = owed \ dropped
  /\ dropped \subseteq owed

LEMMA OrderlyAll == InOrder <=> \A s \in Subs : Orderly(got[s] \o ch[s], Owed(s), missed[s])
  BY DEF InOrder, Orderly

\* One more payload, later than all before, is seen.
LEMMA OrderlySeen ==
  ASSUME NEW seen \in Seq(Payloads), NEW owed, NEW dropped, Orderly(seen, owed, dropped),
         NEW n \in Payloads, n \notin owed, \A m \in owed : m \in Nat /\ m < n
  PROVE  Orderly(Append(seen, n), owed \cup {n}, dropped)
<1> DEFINE new == Append(seen, n)
<1>1. /\ Len(seen) \in Nat /\ DOMAIN seen = 1 .. Len(seen) /\ DOMAIN new = 1 .. Len(seen) + 1
      /\ \A i \in 1 .. Len(seen) : new[i] = seen[i]
      /\ new[Len(seen) + 1] = n
  OBVIOUS
<1>2. \A i \in DOMAIN seen : seen[i] \in owed
  BY DEF Orderly
<1> HIDE DEF new
<1>3. ASSUME NEW i \in DOMAIN new, NEW j \in DOMAIN new, i < j PROVE new[i] < new[j]
  <2>1. i \in DOMAIN seen
    BY <1>1, <1>3
  <2>2. CASE j \in DOMAIN seen
    BY <1>1, <1>3, <2>1, <2>2 DEF Orderly
  <2>3. CASE j = Len(seen) + 1
    BY <1>1, <1>2, <2>1, <2>3
  <2> QED BY <1>1, <2>2, <2>3
<1>4. {new[i] : i \in DOMAIN new} = {seen[i] : i \in DOMAIN seen} \cup {n}
  BY <1>1
<1>5. n \notin dropped
  BY DEF Orderly
<1> QED BY <1>3, <1>4, <1>5 DEF Orderly, new

\* Or it is dropped.
LEMMA OrderlyDropped ==
  ASSUME NEW seen, NEW owed, NEW dropped, Orderly(seen, owed, dropped), NEW n, n \notin owed
  PROVE  Orderly(seen, owed \cup {n}, dropped \cup {n})
  BY DEF Orderly

\* A step that changes neither what is owed nor what was seen or missed.
LEMMA OrderStands ==
  ASSUME InOrder, UNCHANGED missed,
         \A s \in Subs : Owed(s)' = Owed(s) /\ got'[s] \o ch'[s] = got[s] \o ch[s]
  PROVE  InOrder'
  BY DEF InOrder

\* What is owed stays so while nothing is published, offered, made or removed.
LEMMA OwedStands ==
  ASSUME NEW s \in Subs, UNCHANGED <<topic, log, since>>, End(s)' = End(s),
         InFlight(s)' = InFlight(s)
  PROVE  Owed(s)' = Owed(s)
  BY DEF Owed

\* Drops and reports are about payloads of the bus.
LEMMA MissedTyped ==
  ASSUME IInv, NEW n
  PROVE  /\ MissedBy(n) \in 0 .. Cardinality(Subs) /\ Cardinality(Subs) \in Nat
         /\ IsFiniteSet({s \in Subs : n \in missed[s]})
         /\ n \notin DOMAIN log => MissedBy(n) = 0
<1> DEFINE M == {s \in Subs : n \in missed[s]}
<1>1. IsFiniteSet(M) /\ Cardinality(M) <= Cardinality(Subs)
  BY SubsAssumption, FS_Subset
<1>2. Cardinality(M) \in Nat /\ Cardinality(Subs) \in Nat
  BY <1>1, SubsAssumption, FS_CardinalityType
<1>3. n \notin DOMAIN log => M = {}
  BY DEF IInv, Accounted, InOrder, Owed
<1>4. MissedBy(n) = Cardinality(M)
  BY DEF MissedBy
<1> HIDE DEF M
<1> QED BY <1>1, <1>2, <1>3, <1>4, FS_EmptySet DEF M

-----------------------------------------------------------------------------
(* Publishing.                                                             *)

LEMMA InitHolds == Init => IInv
<1> SUFFICES ASSUME Init PROVE IInv
  OBVIOUS
<1>1. TypeOK
  BY NoCallTyped, BufferPositive, SentAssumption, NoneAssumption DEF Init, TypeOK, Phases
<1>2. (\A p \in Publishers : CallWell(p)) /\ Distinct
  BY DEF Init, CallWell, Distinct, NoCall
<1>3. \A s \in Subs : SubWell(s)
  BY DEF Init, SubWell
<1>4. InOrder
  BY DEF Init, InOrder, Owed
<1>5. DropsReported
  <2>1. \A n : MissedBy(n) = 0
    <3>1. \A n : {s \in Subs : n \in missed[s]} = {}
      BY DEF Init
    <3> QED BY <3>1, FS_EmptySet DEF MissedBy
  <2> QED BY <2>1 DEF Init, DropsReported, NoCall
<1> QED BY <1>1, <1>2, <1>3, <1>4, <1>5 DEF IInv, Accounted

LEMMA PublishKeeps ==
  ASSUME IInv, NEW p \in Publishers, NEW t \in Topics, Publish(p, t)
  PROVE  IInv'
<1> DEFINE n == Len(log) + 1
           e == [stage |-> "sending", payload |-> n, left |-> subs(t), dropped |-> 0]
<1>1. /\ TypeOK /\ Distinct /\ InOrder /\ DropsReported
      /\ \A q \in Publishers : CallWell(q)
      /\ \A s \in Subs : SubWell(s)
  BY DEF IInv, Accounted
<1>2. /\ log \in Seq(Topics) /\ Len(log) \in Nat /\ DOMAIN log = 1 .. Len(log)
      /\ n \in Payloads /\ n \in Nat /\ n = Len(log) + 1
  BY <1>1, SentAssumption DEF TypeOK, Publish, Payloads
<1>3. /\ log' \in Seq(Topics) /\ Len(log') = n /\ DOMAIN log' = 1 .. n /\ log'[n] = t
      /\ \A m \in DOMAIN log : log'[m] = log[m]
  BY <1>2 DEF Publish
<1>4. /\ mu = None /\ mu' = p /\ call' = [call EXCEPT ![p] = e]
      /\ UNCHANGED <<phase, topic, ch, since, upto, got, missed, reports>>
  BY <1>3 DEF Publish
<1> HIDE DEF n
<1>5. e \in Calls
  <2>1. Cardinality(Subs) \in Nat
    BY SubsAssumption, FS_CardinalityType
  <2> QED BY <1>2, <2>1, SentAssumption DEF Calls, Stages, subs, Payloads
<1>6. \A q \in Publishers : call'[q] = IF q = p THEN e ELSE call[q]
  BY <1>1, <1>4 DEF TypeOK
<1>7. \A q \in Publishers : call[q].stage # "sending"
  BY <1>1, <1>4, NoneAssumption DEF TypeOK
<1>8. TypeOK'
  <2>1. call' \in [Publishers -> Calls]
    BY <1>1, <1>4, <1>5 DEF TypeOK
  <2>2. \A q \in Publishers : call'[q].stage = "sending" <=> mu' = q
    BY <1>4, <1>6, <1>7
  <2>3. Len(log') <= MaxSent
    BY <1>2, <1>3, SentAssumption DEF Payloads
  <2> QED BY <1>1, <1>3, <1>4, <2>1, <2>2, <2>3 DEF TypeOK
<1>9. \A q \in Publishers : CallWell(q)'
  <2>1. CallWell(p)'
    BY <1>1, <1>2, <1>3, <1>4, <1>6 DEF CallWell, subs, SubWell, TypeOK
  <2>2. \A q \in Publishers \ {p} : CallWell(q)'
    <3> HIDE DEF e
    <3>1. DOMAIN log \subseteq DOMAIN log'
      BY <1>2, <1>3
    <3> QED BY <1>1, <1>6, <1>7, <3>1 DEF CallWell
  <2> QED BY <2>1, <2>2
<1>10. Distinct'
  BY <1>1, <1>2, <1>6 DEF Distinct, CallWell
<1>11. \A s \in Subs : SubWell(s)'
  BY <1>1, <1>2, <1>3, <1>4 DEF SubWell, TypeOK
<1>12. InOrder'
  <2> SUFFICES ASSUME NEW s \in Subs PROVE Owed(s)' = Owed(s)
    BY <1>1, <1>4, OrderStands
  <2>1. InFlight(s) = {}
    BY <1>4, InFlightIs
  <2>2. InFlight(s)' = IF s \in subs(t) THEN {n} ELSE {}
    <3>1. \A q \in Publishers : s \notin call[q].left
      BY <2>1 DEF InFlight
    <3> QED BY <1>6, <3>1 DEF InFlight
  <2>3. n \in DOMAIN log' /\ DOMAIN log' = DOMAIN log \cup {n} /\ n \notin DOMAIN log
    BY <1>2, <1>3
  <2>4. since[s] \in Nat /\ since[s] <= Len(log) /\ upto[s] <= Len(log) /\ upto[s] \in Nat
    BY <1>1 DEF SubWell, TypeOK
  <2>5. s \in subs(t) <=> phase[s] = "open" /\ topic[s] = t
    BY DEF subs
  <2>6. ASSUME NEW m PROVE m \in Owed(s)' <=> m \in Owed(s)
    <3>1. CASE m \in DOMAIN log
      <4>1. m \in DOMAIN log' /\ m # n /\ log'[m] = log[m] /\ m <= Len(log)
        BY <1>2, <1>3, <3>1
      <4>2. m <= End(s)' <=> m <= End(s)
        BY <1>2, <1>3, <1>4, <3>1, <4>1 DEF End
      <4> QED BY <1>4, <2>1, <2>2, <3>1, <4>1, <4>2 DEF Owed
    <3>2. CASE m = n
      <4>1. s \notin subs(t) => ~(n <= End(s)' /\ log'[n] = topic[s])
        BY <1>2, <1>3, <1>4, <2>4, <2>5 DEF End
      <4> QED BY <1>4, <2>1, <2>2, <2>3, <3>2, <4>1 DEF Owed
    <3>3. CASE m \notin DOMAIN log'
      BY <2>3, <3>3 DEF Owed
    <3> QED BY <2>3, <3>1, <3>2, <3>3
  <2> QED BY <2>6
<1>13. DropsReported'
  <2>1. \A m : MissedBy(m)' = MissedBy(m)
    BY <1>4 DEF MissedBy
  <2>2. n \notin {call[q].payload : q \in Publishers}
    <3> SUFFICES ASSUME NEW q \in Publishers PROVE n # call[q].payload
      OBVIOUS
    <3>1. CASE call[q].stage = "idle"
      BY <1>1, <1>2, <3>1 DEF CallWell, NoCall
    <3>2. CASE call[q].stage # "idle"
      BY <1>1, <1>2, <3>2 DEF CallWell
    <3> QED BY <3>1, <3>2
  <2>3. MissedBy(n) = 0 /\ reports[n] = 0
    <3>1. n \notin DOMAIN log
      BY <1>2
    <3>2. MissedBy(n) = 0
      BY <3>1, MissedTyped
    <3> QED BY <1>1, <1>2, <2>2, <3>2 DEF DropsReported
  <2>4. call[p].payload \notin Payloads
    BY <1>1 DEF CallWell, NoCall, Publish, Payloads
  <2>5. \A q \in Publishers : call'[q].stage # "idle" =>
          MissedBy(call'[q].payload) = reports[call'[q].payload] + call'[q].dropped
    BY <1>1, <1>6, <2>3 DEF DropsReported
  <2>6. \A m \in Payloads \ {call'[q].payload : q \in Publishers} : MissedBy(m) = reports[m]
    BY <1>1, <1>6, <2>4 DEF DropsReported
  <2> QED BY <1>4, <2>1, <2>5, <2>6 DEF DropsReported
<1> QED BY <1>8, <1>9, <1>10, <1>11, <1>12, <1>13 DEF IInv, Accounted

\* What an offer finds: the latest payload, owed to a subscription that is open,
\* that has not seen it and has not missed it.
LEMMA OfferFinds ==
  ASSUME IInv, NEW p \in Publishers, NEW s \in Subs, mu = p, s \in call[p].left
  PROVE  LET n == call[p].payload IN
           /\ n = Len(log) /\ n \in DOMAIN log /\ n \in Payloads
           /\ call[p].stage = "sending" /\ call[p] \in Calls
           /\ phase[s] = "open" /\ topic[s] = log[n] /\ since[s] < n
           /\ n \notin missed[s] /\ n \notin Owed(s)
           /\ \A m \in Owed(s) : m \in Nat /\ m < n
           /\ DOMAIN log = 1 .. Len(log) /\ Len(log) \in Nat
<1>1. call[p].stage = "sending" /\ CallWell(p) /\ call[p] \in Calls
  BY DEF IInv, TypeOK
<1>2. /\ call[p].payload = Len(log) /\ call[p].payload \in DOMAIN log
      /\ phase[s] = "open" /\ topic[s] = log[Len(log)] /\ since[s] < Len(log)
  BY <1>1 DEF CallWell
<1>3. DOMAIN log = 1 .. Len(log) /\ Len(log) \in Nat /\ Len(log) \in Payloads
  BY <1>2, SentAssumption DEF IInv, TypeOK, Payloads
<1>4. Len(log) \notin Owed(s)
  BY InFlightIs DEF Owed
<1>5. missed[s] \subseteq Owed(s)
  BY DEF IInv, Accounted, InOrder
<1>6. \A m \in Owed(s) : m \in DOMAIN log
  BY DEF Owed
<1>7. \A m \in Owed(s) : m \in Nat /\ m < Len(log)
  BY <1>3, <1>4, <1>6
<1> QED BY <1>1, <1>2, <1>3, <1>4, <1>5, <1>7

\* An offer moves its payload into what is owed to its subscription.
LEMMA OfferOwes ==
  ASSUME IInv, NEW p \in Publishers, NEW s \in Subs, mu = p, s \in call[p].left,
         NEW e, call' = [call EXCEPT ![p] = e],
         e.left = call[p].left \ {s}, e.payload = call[p].payload,
         UNCHANGED <<phase, topic, log, since, upto>>
  PROVE  /\ Owed(s)' = Owed(s) \cup {Len(log)}
         /\ \A r \in Subs \ {s} : Owed(r)' = Owed(r)
<1>1. \A q \in Publishers : call'[q] = IF q = p THEN e ELSE call[q]
  BY DEF IInv, TypeOK
<1>2. \A r \in Subs : InFlight(r) = IF r \in call[p].left THEN {Len(log)} ELSE {}
  BY InFlightIs
<1>3. \A q \in Publishers \ {p}, r \in Subs : r \notin call[q].left
  <2> SUFFICES ASSUME NEW q \in Publishers \ {p}, NEW r \in Subs, r \in call[q].left
               PROVE  FALSE
    OBVIOUS
  <2>1. call[q].stage \in Stages /\ call[q].stage # "sending" /\ CallWell(q)
    BY DEF IInv, TypeOK, Calls
  <2> QED BY <2>1, NoCallTyped DEF CallWell, Stages
<1>4. InFlight(s)' = {}
  BY <1>1, <1>3 DEF InFlight
<1>5. ASSUME NEW r \in Subs \ {s} PROVE InFlight(r)' = InFlight(r)
  <2>1. \A q \in Publishers : r \in call'[q].left <=> r \in call[q].left
    BY <1>1, <1>3
  <2>2. \A q \in Publishers : call'[q].payload = call[q].payload
    BY <1>1
  <2> QED BY <2>1, <2>2 DEF InFlight
<1>6. ASSUME NEW r \in Subs \ {s} PROVE Owed(r)' = Owed(r)
  <2>1. End(r)' = End(r)
    BY DEF End
  <2> QED BY <1>5, <2>1, OwedStands
<1>7. InFlight(s) = {Len(log)}
  BY <1>2
<1>8. /\ Len(log) \in DOMAIN log /\ since[s] < Len(log) /\ phase[s] = "open"
      /\ topic[s] = log[Len(log)] /\ Len(log) \in Nat
  BY OfferFinds
<1>9. Owed(s)' = Owed(s) \cup {Len(log)}
  BY <1>4, <1>7, <1>8 DEF Owed, End
<1> QED BY <1>6, <1>9

\* A payload sent is seen last, and a payload dropped is missed.
LEMMA OfferOrders ==
  ASSUME IInv, NEW p \in Publishers, NEW s \in Subs, Offer(p, s)
  PROVE  InOrder'
<1> DEFINE n == Len(log)
           full == ~(Len(ch[s]) < buffer)
<1>1. /\ mu = p /\ s \in call[p].left /\ TypeOK /\ InOrder
      /\ UNCHANGED <<phase, topic, log, since, upto, got>>
  BY DEF Offer, IInv, Accounted
<1>2. /\ n \in Payloads /\ n \notin Owed(s) /\ call[p].payload = n
      /\ \A m \in Owed(s) : m \in Nat /\ m < n
  BY <1>1, OfferFinds
<1>3. /\ call' = [call EXCEPT ![p] = call'[p]]
      /\ call'[p].left = call[p].left \ {s} /\ call'[p].payload = call[p].payload
  BY <1>1 DEF Offer, TypeOK, Calls
<1>4. Owed(s)' = Owed(s) \cup {n} /\ \A r \in Subs \ {s} : Owed(r)' = Owed(r)
  BY <1>1, <1>3, OfferOwes
<1>5. \A r \in Subs : Orderly(got[r] \o ch[r], Owed(r), missed[r])
  BY <1>1, OrderlyAll
<1>6. ASSUME NEW r \in Subs PROVE Orderly(got'[r] \o ch'[r], Owed(r)', missed'[r])
  <2>1. CASE r # s
    <3>1. ch'[r] = ch[r] /\ missed'[r] = missed[r]
      BY <1>1, <2>1 DEF Offer, TypeOK
    <3> QED BY <1>1, <1>4, <1>5, <2>1, <3>1
  <2>2. CASE r = s /\ full
    <3>1. ch'[r] = ch[r] /\ missed'[r] = missed[r] \cup {n}
      BY <1>1, <1>2, <2>2 DEF Offer, TypeOK
    <3>2. Orderly(got[r] \o ch[r], Owed(r) \cup {n}, missed[r] \cup {n})
      BY <1>2, <1>5, <2>2, OrderlyDropped
    <3> QED BY <1>1, <1>4, <2>2, <3>1, <3>2
  <2>3. CASE r = s /\ ~full
    <3>1. ch'[r] = Append(ch[r], n) /\ missed'[r] = missed[r]
      BY <1>1, <1>2, <2>3 DEF Offer, TypeOK
    <3>2. got[r] \in Seq(Payloads) /\ ch[r] \in Seq(Payloads)
      BY <1>1 DEF TypeOK
    <3>3. got[r] \o ch[r] \in Seq(Payloads)
      BY <3>2, ConcatProperties
    <3>4. Orderly(Append(got[r] \o ch[r], n), Owed(r) \cup {n}, missed[r])
      BY <1>2, <1>5, <2>3, <3>3, OrderlySeen
    <3>5. got[r] \o Append(ch[r], n) = Append(got[r] \o ch[r], n)
      BY <1>2, <3>2, SendSees
    <3> QED BY <1>1, <1>4, <2>3, <3>1, <3>4, <3>5
  <2> QED BY <2>1, <2>2, <2>3
<1>7. (\A r \in Subs : Orderly(got[r] \o ch[r], Owed(r), missed[r]))'
  BY <1>6
<1> QED BY <1>7, OrderlyAll DEF InOrder, Orderly

LEMMA OfferEffect ==
  ASSUME IInv, NEW p \in Publishers, NEW s \in Subs, Offer(p, s)
  PROVE  LET full == ~(Len(ch[s]) < buffer) IN
           /\ full => ch' = ch /\ missed' = [missed EXCEPT ![s] = @ \cup {Len(log)}]
           /\ ~full => missed' = missed /\ ch' = [ch EXCEPT ![s] = Append(@, Len(log))]
<1>1. call[p].payload = Len(log)
  BY OfferFinds DEF Offer
<1> QED BY <1>1 DEF Offer

\* What an offer makes of a call, the drop counted or not.
LEMMA OfferedCall ==
  ASSUME NEW n, NEW left, NEW dropped, NEW rest, NEW more, NEW c,
         c = [stage |-> "sending", payload |-> n, left |-> left, dropped |-> dropped]
  PROVE  /\ [c EXCEPT !.left = rest] =
              [stage |-> "sending", payload |-> n, left |-> rest, dropped |-> dropped]
         /\ [c EXCEPT !.left = rest, !.dropped = more] =
              [stage |-> "sending", payload |-> n, left |-> rest, dropped |-> more]
<1>1. PICK d : d = [stage |-> "sending", payload |-> n, left |-> rest, dropped |-> dropped]
  OBVIOUS
<1>2. [c EXCEPT !.left = rest] = d
  BY <1>1
<1>3. [d EXCEPT !.dropped = more] =
        [stage |-> "sending", payload |-> n, left |-> rest, dropped |-> more]
  BY <1>1
<1>4. [c EXCEPT !.left = rest, !.dropped = more] =
        [[c EXCEPT !.left = rest] EXCEPT !.dropped = more]
  BY Zenon
<1> QED BY <1>1, <1>2, <1>3, <1>4

LEMMA OfferReports ==
  ASSUME IInv, NEW p \in Publishers, NEW s \in Subs, Offer(p, s)
  PROVE  /\ DropsReported'
         /\ call'[p].dropped \in 0 .. Cardinality(Subs)
<1>0. PICK n \in Nat : n = Len(log)
  BY OfferFinds DEF Offer
<1> DEFINE full == ~(Len(ch[s]) < buffer)
           M(m) == {r \in Subs : m \in missed[r]}
<1>1. /\ mu = p /\ s \in call[p].left /\ TypeOK /\ DropsReported /\ Distinct
      /\ UNCHANGED reports
  BY DEF Offer, IInv, Accounted
<1>2. /\ n \in Payloads /\ n \notin missed[s] /\ call[p].payload = n
      /\ call[p].stage = "sending" /\ call[p].dropped \in Nat
  BY <1>0, <1>1, OfferFinds, SubsAssumption, FS_CardinalityType DEF Calls
<1>3. /\ \A q \in Publishers \ {p} : call'[q] = call[q]
      /\ call'[p].stage = "sending" /\ call'[p].payload = n
      /\ call'[p].dropped = IF full THEN call[p].dropped + 1 ELSE call[p].dropped
  BY <1>1, <1>2 DEF Offer, TypeOK, Calls
<1> DEFINE New(m) == IF m = n /\ full THEN MissedBy(m) + 1 ELSE MissedBy(m)
<1>4. ASSUME NEW m PROVE MissedBy(m)' = New(m)
  <2>1. IsFiniteSet(M(m)) /\ missed \in [Subs -> SUBSET Payloads]
    BY <1>1, MissedTyped DEF TypeOK
  <2>2. CASE m = n /\ full
    <3>1. M(m)' = M(m) \cup {s} /\ s \notin M(m)
      BY <1>0, <1>2, <2>1, <2>2, OfferEffect
    <3> QED BY <2>1, <2>2, <3>1, FS_AddElement DEF MissedBy
  <2>3. CASE ~(m = n /\ full)
    <3>1. \A r \in Subs : m \in missed'[r] <=> m \in missed[r]
      BY <1>0, <2>1, <2>3, OfferEffect
    <3>2. M(m)' = M(m)
      BY <3>1
    <3> QED BY <2>3, <3>2 DEF MissedBy
  <2> QED BY <2>2, <2>3
<1>5. MissedBy(n) = reports[n] + call[p].dropped /\ reports[n] \in Nat
  BY <1>1, <1>2 DEF DropsReported, TypeOK
<1> HIDE DEF full
<1>6. New(n) = reports[n] + call'[p].dropped
  BY <1>2, <1>3, <1>5
<1>7. DropsReported'
  <2>1. ASSUME NEW q \in Publishers, call'[q].stage # "idle"
        PROVE  New(call'[q].payload) = reports[call'[q].payload] + call'[q].dropped
    <3>1. CASE q = p
      BY <1>3, <1>6, <3>1
    <3>2. CASE q # p
      <4>1. call'[q] = call[q] /\ call[q].payload # n
        BY <1>1, <1>2, <1>3, <2>1, <3>2 DEF Distinct
      <4> QED BY <1>1, <2>1, <4>1 DEF DropsReported
    <3> QED BY <3>1, <3>2
  <2>2. ASSUME NEW m \in Payloads \ {call'[q].payload : q \in Publishers}
        PROVE  New(m) = reports[m]
    <3>1. m # n /\ m \notin {call[q].payload : q \in Publishers}
      BY <1>2, <1>3
    <3> QED BY <1>1, <3>1 DEF DropsReported
  <2> HIDE DEF New
  <2>3. \A q \in Publishers : call'[q].stage # "idle" =>
          MissedBy(call[q].payload)' = reports[call'[q].payload] + call'[q].dropped
    BY <1>4, <2>1 DEF MissedBy
  <2>4. \A m \in Payloads \ {call'[q].payload : q \in Publishers} :
          MissedBy(m)' = reports[m]
    BY <1>4, <2>2
  <2> QED BY <1>1, <2>3, <2>4 DEF DropsReported
<1>8. New(n) <= Cardinality(Subs) /\ Cardinality(Subs) \in Nat
  <2>1. IsFiniteSet(M(n)') /\ Cardinality(M(n)') <= Cardinality(Subs)
    BY SubsAssumption, FS_Subset
  <2> QED BY <1>4, <2>1, SubsAssumption, FS_CardinalityType DEF MissedBy
<1> HIDE DEF New
<1> QED BY <1>2, <1>3, <1>5, <1>6, <1>7, <1>8

LEMMA OfferKeeps ==
  ASSUME IInv, NEW p \in Publishers, NEW s \in Subs, Offer(p, s)
  PROVE  IInv'
<1>1. /\ mu = p /\ s \in call[p].left /\ TypeOK /\ Distinct
      /\ UNCHANGED <<mu, phase, topic, log, since, upto, got, reports>>
      /\ \A q \in Publishers : CallWell(q)
      /\ \A r \in Subs : SubWell(r)
  BY DEF Offer, IInv
<1>2. /\ Len(log) \in Payloads /\ call[p].payload = Len(log) /\ call[p] \in Calls
      /\ call[p].stage = "sending" /\ phase[s] = "open"
  BY <1>1, OfferFinds
<1>3. call'[p].dropped \in 0 .. Cardinality(Subs)
  BY OfferReports
<1>4. /\ call' = [call EXCEPT ![p] = call'[p]]
      /\ call'[p] = [stage |-> "sending", payload |-> Len(log),
                     left |-> call[p].left \ {s}, dropped |-> call'[p].dropped]
  <2>0. PICK n \in Payloads : n = Len(log)
    BY <1>2
  <2>1. \/ call' = [call EXCEPT ![p] = [call[p] EXCEPT !.left = call[p].left \ {s}]]
        \/ call' = [call EXCEPT ![p] = [call[p] EXCEPT !.left = call[p].left \ {s},
                                                     !.dropped = call[p].dropped + 1]]
    BY DEF Offer
  <2>2. call \in [Publishers -> Calls]
    BY <1>1 DEF TypeOK
  <2>3. call' = [call EXCEPT ![p] = call'[p]]
    BY <2>1, <2>2
  <2>4. /\ DOMAIN call[p] = {"stage", "payload", "left", "dropped"}
        /\ call[p] = [stage |-> "sending", payload |-> n,
                      left |-> call[p].left, dropped |-> call[p].dropped]
    BY <1>2, <2>0 DEF Calls
  <2>5. call'[p] = [stage |-> "sending", payload |-> n,
                    left |-> call[p].left \ {s}, dropped |-> call'[p].dropped]
    <3>1. PICK left, dropped, rest, more, c :
            /\ left = call[p].left /\ dropped = call[p].dropped /\ c = call[p]
            /\ rest = call[p].left \ {s} /\ more = call[p].dropped + 1
      OBVIOUS
    <3>2. c = [stage |-> "sending", payload |-> n, left |-> left, dropped |-> dropped]
      BY <2>4, <3>1
    <3>3. CASE call' = [call EXCEPT ![p] = [call[p] EXCEPT !.left = call[p].left \ {s}]]
      <4>1. call'[p] = [c EXCEPT !.left = rest]
        BY <2>2, <3>1, <3>3
      <4>2. call'[p] = [stage |-> "sending", payload |-> n, left |-> rest, dropped |-> dropped]
        BY <3>2, <4>1, OfferedCall
      <4> QED BY <3>1, <4>2
    <3>4. CASE call' = [call EXCEPT ![p] = [call[p] EXCEPT !.left = call[p].left \ {s},
                                                         !.dropped = call[p].dropped + 1]]
      <4>1. call'[p] = [c EXCEPT !.left = rest, !.dropped = more]
        BY <2>2, <3>1, <3>4
      <4>2. call'[p] = [stage |-> "sending", payload |-> n, left |-> rest, dropped |-> more]
        BY <3>2, <4>1, OfferedCall
      <4> QED BY <3>1, <4>2
    <3> QED BY <2>1, <3>3, <3>4
  <2> QED BY <2>0, <2>3, <2>5
<1>5. TypeOK'
  <2> DEFINE sent == [ch EXCEPT ![s] = Append(@, Len(log))]
             lost == [missed EXCEPT ![s] = @ \cup {Len(log)}]
  <2>0. \/ ~(Len(ch[s]) < buffer) /\ ch' = ch /\ missed' = lost
        \/ Len(ch[s]) < buffer /\ ch' = sent /\ missed' = missed
    BY OfferEffect
  <2>1. call'[p] \in Calls
    BY <1>2, <1>3, <1>4 DEF Calls
  <2>2. ch' \in [Subs -> Seq(Payloads)] /\ \A r \in Subs : Len(ch'[r]) <= buffer
    <3>1. Append(ch[s], Len(log)) \in Seq(Payloads)
          /\ Len(Append(ch[s], Len(log))) = Len(ch[s]) + 1
      BY <1>1, <1>2 DEF TypeOK
    <3>2. Len(ch[s]) \in Nat /\ buffer \in Nat
      BY <1>1, BufferPositive DEF TypeOK
    <3>3. sent \in [Subs -> Seq(Payloads)]
      BY <1>1, <3>1 DEF TypeOK
    <3>4. \A r \in Subs : sent[r] = IF r = s THEN Append(ch[s], Len(log)) ELSE ch[r]
      BY <1>1 DEF TypeOK
    <3>5. Len(ch[s]) < buffer => \A r \in Subs : Len(sent[r]) <= buffer
      <4> HIDE DEF sent
      <4> SUFFICES ASSUME Len(ch[s]) < buffer, NEW r \in Subs PROVE Len(sent[r]) <= buffer
        OBVIOUS
      <4>1. CASE r = s
        <5>1. Len(sent[r]) = Len(ch[s]) + 1
          BY <3>1, <3>4, <4>1
        <5> QED BY <3>2, <5>1
      <4>2. CASE r # s
        BY <1>1, <3>4, <4>2 DEF TypeOK
      <4> QED BY <4>1, <4>2
    <3> HIDE DEF sent
    <3> QED BY <1>1, <2>0, <3>3, <3>5 DEF TypeOK
  <2>3. missed' \in [Subs -> SUBSET Payloads]
    <3>1. missed[s] \cup {Len(log)} \in SUBSET Payloads
      BY <1>1, <1>2 DEF TypeOK
    <3>2. lost \in [Subs -> SUBSET Payloads]
      BY <1>1, <3>1 DEF TypeOK
    <3> HIDE DEF lost
    <3> QED BY <1>1, <2>0, <3>2 DEF TypeOK
  <2>4. call' \in [Publishers -> Calls]
    BY <1>1, <1>4, <2>1 DEF TypeOK
  <2>5. \A q \in Publishers : call'[q].stage = "sending" <=> mu' = q
    BY <1>1, <1>2, <1>4 DEF TypeOK
  <2> QED BY <1>1, <2>2, <2>3, <2>4, <2>5 DEF TypeOK
<1>6. \A q \in Publishers : q # p => call'[q] = call[q]
  BY <1>1, <1>4 DEF TypeOK
<1>7. \A q \in Publishers : CallWell(q)'
  <2>1. CallWell(p)'
    BY <1>1, <1>2, <1>4 DEF CallWell
  <2> QED BY <1>1, <1>6, <2>1 DEF CallWell
<1>8. Distinct'
  BY <1>1, <1>2, <1>4, <1>6 DEF Distinct
<1>9. \A r \in Subs : SubWell(r)'
  BY <1>1, <1>2 DEF SubWell, Offer, TypeOK
<1> QED BY <1>5, <1>7, <1>8, <1>9, OfferOrders, OfferReports DEF IInv, Accounted

\* The end of a publish, and its reports: what is owed, seen and missed stands.
LEMMA CallStands ==
  ASSUME IInv, NEW p \in Publishers, NEW e \in Calls, call' = [call EXCEPT ![p] = e],
         call[p].left = {}, call[p].stage # "idle", e.stage # "sending", mu = p \/ UNCHANGED mu,
         mu' # p, mu' # mu => mu' = None,
         e = NoCall \/ (e.stage = "reporting" /\ e.payload = call[p].payload /\ e.left = {}
                        /\ e.dropped > 0),
         UNCHANGED <<phase, topic, ch, log, since, upto, got, missed>>,
         reports' \in [Payloads -> Nat], DropsReported'
  PROVE  IInv'
<1>1. /\ TypeOK /\ Distinct /\ InOrder
      /\ \A q \in Publishers : CallWell(q)
      /\ \A s \in Subs : SubWell(s)
  BY DEF IInv, Accounted
<1>2. \A q \in Publishers : call'[q] = IF q = p THEN e ELSE call[q]
  BY <1>1 DEF TypeOK
<1>3. e.left = {}
  BY NoCallTyped
<1>4. TypeOK'
  <2>1. call' \in [Publishers -> Calls]
    BY <1>1 DEF TypeOK
  <2>2. \A q \in Publishers : call'[q].stage = "sending" <=> mu' = q
    BY <1>1, <1>2, NoneAssumption DEF TypeOK
  <2>3. mu' \in Publishers \cup {None}
    BY <1>1 DEF TypeOK
  <2> QED BY <1>1, <2>1, <2>2, <2>3 DEF TypeOK
<1>5. ASSUME NEW q \in Publishers PROVE CallWell(q)'
  <2>1. CASE q # p
    BY <1>1, <1>2, <2>1 DEF CallWell
  <2>2. CASE q = p
    BY <1>1, <1>2, <2>2, NoCallTyped DEF CallWell
  <2> QED BY <2>1, <2>2
<1>6. Distinct'
  BY <1>1, <1>2, NoCallTyped DEF Distinct
<1>7. \A s \in Subs : SubWell(s)'
  BY <1>1 DEF SubWell
<1>8. ASSUME NEW s \in Subs PROVE Owed(s)' = Owed(s)
  <2>1. \A q \in Publishers : s \in call'[q].left => q # p
    BY <1>2, <1>3
  <2>2. InFlight(s)' = InFlight(s)
    BY <1>2, <2>1 DEF InFlight
  <2> QED BY <2>2, OwedStands DEF End
<1>9. InOrder'
  BY <1>1, <1>8, OrderStands
<1> QED BY <1>4, <1>5, <1>6, <1>7, <1>9 DEF IInv, Accounted

LEMMA UnlockKeeps ==
  ASSUME IInv, NEW p \in Publishers, Unlock(p)
  PROVE  IInv'
<1> DEFINE e == Reporting(call[p])
<1>1. /\ TypeOK /\ DropsReported /\ CallWell(p) /\ mu = p /\ call[p].left = {}
      /\ mu' = None /\ call' = [call EXCEPT ![p] = e]
      /\ UNCHANGED <<phase, topic, ch, history>>
  BY DEF IInv, Accounted, Unlock
<1>2. call[p] \in Calls /\ call[p].stage = "sending"
  BY <1>1 DEF TypeOK
<1>3. /\ e \in Calls
      /\ \/ e = NoCall /\ call[p].dropped = 0
         \/ /\ e.stage = "reporting" /\ e.payload = call[p].payload /\ e.left = {}
            /\ e.dropped = call[p].dropped /\ e.dropped > 0
  <2>1. CASE call[p].dropped = 0
    BY <2>1, NoCallTyped DEF Reporting
  <2>2. CASE call[p].dropped # 0
    <3>1. call[p].dropped \in Nat
      BY <1>2, SubsAssumption, FS_CardinalityType DEF Calls
    <3> QED BY <1>1, <1>2, <2>2, <3>1 DEF Reporting, Calls, Stages
  <2> QED BY <2>1, <2>2
<1> HIDE DEF e
<1>4. \A q \in Publishers : call'[q] = IF q = p THEN e ELSE call[q]
  BY <1>1 DEF TypeOK
<1>5. DropsReported'
  <2>1. (\A m : MissedBy(m)' = MissedBy(m)) /\ reports' = reports
    BY <1>1 DEF MissedBy, history
  <2>2. \A q \in Publishers : call'[q].stage # "idle" =>
          MissedBy(call'[q].payload) = reports[call'[q].payload] + call'[q].dropped
    BY <1>1, <1>2, <1>3, <1>4, NoCallTyped DEF DropsReported
  <2>3. ASSUME NEW m \in Payloads \ {call'[q].payload : q \in Publishers}
        PROVE  MissedBy(m) = reports[m]
    <3>1. CASE m = call[p].payload
      <4>1. call[p].dropped = 0
        BY <1>3, <1>4, <2>3, <3>1
      <4>2. MissedBy(m) = reports[m] + 0 /\ reports[m] \in Nat
        BY <1>1, <1>2, <3>1, <4>1 DEF DropsReported, TypeOK
      <4> QED BY <4>2
    <3>2. CASE m # call[p].payload
      BY <1>1, <1>4, <2>3, <3>2 DEF DropsReported
    <3> QED BY <3>1, <3>2
  <2> QED BY <2>1, <2>2, <2>3 DEF DropsReported
<1> QED BY <1>1, <1>2, <1>3, <1>5, NoneAssumption, NoCallTyped, CallStands DEF history, TypeOK

LEMMA ReportKeeps ==
  ASSUME IInv, NEW p \in Publishers, Report(p)
  PROVE  IInv'
<1> DEFINE n == call[p].payload
           f == [call[p] EXCEPT !.dropped = @ - 1]
           e == Reporting(f)
<1>1. /\ TypeOK /\ DropsReported /\ CallWell(p) /\ call[p].stage = "reporting" /\ Distinct
      /\ reports' = [reports EXCEPT ![n] = @ + 1]
      /\ UNCHANGED <<mu, phase, topic, ch, log, since, upto, got, missed>>
  BY DEF IInv, Accounted, Report
<1>0. call' = [call EXCEPT ![p] = e]
  BY DEF Report
<1>2. /\ call[p] \in Calls /\ n \in DOMAIN log /\ call[p].left = {}
      /\ call[p].dropped \in Nat /\ call[p].dropped > 0
      /\ call[p].dropped <= Cardinality(Subs) /\ Cardinality(Subs) \in Nat
  BY <1>1, SubsAssumption, FS_CardinalityType DEF TypeOK, CallWell, Calls
<1>3. n \in Payloads
  BY <1>1, <1>2, SentAssumption DEF TypeOK, Payloads
<1>4. /\ e \in Calls
      /\ \/ e = NoCall /\ call[p].dropped = 1
         \/ /\ e.stage = "reporting" /\ e.payload = n /\ e.left = {}
            /\ e.dropped = call[p].dropped - 1 /\ e.dropped > 0
  <2>0. /\ f.stage = "reporting" /\ f.payload = n /\ f.left = {}
        /\ f.dropped = call[p].dropped - 1
        /\ f.dropped \in 0 .. Cardinality(Subs) => f \in Calls
    BY <1>1, <1>2 DEF Calls
  <2> HIDE DEF f
  <2>1. CASE call[p].dropped = 1
    BY <1>2, <2>0, <2>1, NoCallTyped DEF Reporting
  <2>2. CASE call[p].dropped # 1
    <3>1. call[p].dropped - 1 \in 0 .. Cardinality(Subs) /\ call[p].dropped - 1 > 0
      BY <1>2, <2>2
    <3>2. e = [f EXCEPT !.stage = "reporting"]
      BY <2>0, <3>1 DEF Reporting
    <3>3. f \in Calls
      BY <2>0, <3>1
    <3>4. e = f
      BY <2>0, <3>2, <3>3 DEF Calls
    <3> QED BY <2>0, <3>1, <3>3, <3>4
  <2> QED BY <2>1, <2>2
<1> HIDE DEF e
<1>5. \A q \in Publishers : call'[q] = IF q = p THEN e ELSE call[q]
  BY <1>0, <1>1 DEF TypeOK
<1>6. reports' \in [Payloads -> Nat] /\ \A m \in Payloads : reports'[m] = IF m = n THEN reports[m] + 1 ELSE reports[m]
  BY <1>1, <1>3 DEF TypeOK
<1>7. MissedBy(n) = reports[n] + call[p].dropped /\ reports[n] \in Nat
  BY <1>1, <1>3 DEF DropsReported, TypeOK
<1>8. DropsReported'
  <2>1. \A m : MissedBy(m)' = MissedBy(m)
    BY <1>1 DEF MissedBy
  <2>2. ASSUME NEW q \in Publishers, call'[q].stage # "idle"
        PROVE  MissedBy(call'[q].payload) = reports'[call'[q].payload] + call'[q].dropped
    <3>1. CASE q = p
      <4>1. e.payload = n /\ e.dropped = call[p].dropped - 1
        BY <1>4, <1>5, <2>2, <3>1, NoCallTyped
      <4> QED BY <1>2, <1>3, <1>5, <1>6, <1>7, <3>1, <4>1
    <3>2. CASE q # p
      <4>1. call'[q] = call[q] /\ call[q].payload # n
        BY <1>1, <1>5, <2>2, <3>2 DEF Distinct
      <4>2. call[q].payload \in Payloads
        BY <1>1, <2>2, <4>1, SentAssumption DEF IInv, CallWell, TypeOK, Payloads
      <4> QED BY <1>1, <1>6, <2>2, <4>1, <4>2 DEF DropsReported
    <3> QED BY <3>1, <3>2
  <2>3. ASSUME NEW m \in Payloads \ {call'[q].payload : q \in Publishers}
        PROVE  MissedBy(m) = reports'[m]
    <3>1. CASE m = n
      <4>1. call[p].dropped = 1
        BY <1>4, <1>5, <2>3, <3>1
      <4> QED BY <1>3, <1>6, <1>7, <3>1, <4>1
    <3>2. CASE m # n
      BY <1>1, <1>5, <1>6, <2>3, <3>2 DEF DropsReported
    <3> QED BY <3>1, <3>2
  <2> QED BY <2>1, <2>2, <2>3 DEF DropsReported
<1>9. mu # p
  BY <1>1 DEF TypeOK
<1> QED BY <1>0, <1>1, <1>2, <1>4, <1>6, <1>8, <1>9, NoCallTyped, CallStands

-----------------------------------------------------------------------------
(* Subscriptions.                                                          *)

\* A step of a subscription leaves the publishers alone.
LEMMA PublishersStand ==
  ASSUME IInv, UNCHANGED <<call, log, missed, reports>>,
         \A p \in Publishers : \A s \in call[p].left :
           phase'[s] = phase[s] /\ topic'[s] = topic[s] /\ since'[s] = since[s]
  PROVE  /\ \A p \in Publishers : CallWell(p)'
         /\ Distinct' /\ DropsReported'
<1>1. \A p \in Publishers : CallWell(p)'
  BY DEF IInv, CallWell
<1>2. \A m : MissedBy(m)' = MissedBy(m)
  BY DEF MissedBy
<1> QED BY <1>1, <1>2 DEF IInv, Accounted, Distinct, DropsReported

\* While nobody has the lock nothing is in flight.
LEMMA NobodyOffers ==
  ASSUME IInv, mu = None, NEW p \in Publishers
  PROVE  call[p].left = {}
<1>1. call[p].stage \in Stages /\ call[p].stage # "sending" /\ CallWell(p)
  BY NoneAssumption DEF IInv, TypeOK, Calls
<1> QED BY <1>1, NoCallTyped DEF CallWell, Stages

LEMMA SubscribeKeeps ==
  ASSUME IInv, NEW s \in Subs, NEW t \in Topics, Subscribe(s, t)
  PROVE  IInv'
<1>1. /\ TypeOK /\ InOrder /\ mu = None /\ phase[s] = "unmade"
      /\ phase' = [phase EXCEPT ![s] = "open"] /\ topic' = [topic EXCEPT ![s] = t]
      /\ since' = [since EXCEPT ![s] = Len(log)]
      /\ UNCHANGED <<mu, ch, call, log, upto, got, missed, reports>>
      /\ \A r \in Subs : SubWell(r)
  BY DEF IInv, Accounted, Subscribe
<1>2. Len(log) \in 0 .. MaxSent /\ DOMAIN log = 1 .. Len(log)
  BY <1>1, SentAssumption DEF TypeOK
<1>3. TypeOK'
  BY <1>1, <1>2 DEF TypeOK, Phases
<1>4. /\ \A p \in Publishers : CallWell(p)'
      /\ Distinct' /\ DropsReported'
  BY <1>1, NobodyOffers, PublishersStand
<1>5. \A r \in Subs : SubWell(r)'
  BY <1>1, <1>2 DEF SubWell, TypeOK
<1>6. ASSUME NEW r \in Subs PROVE InFlight(r) = {} /\ InFlight(r)' = {}
  BY <1>1, NobodyOffers DEF InFlight
<1>7. ASSUME NEW r \in Subs PROVE Owed(r)' = Owed(r)
  <2>1. CASE r # s
    <3>1. /\ phase'[r] = phase[r] /\ topic'[r] = topic[r] /\ since'[r] = since[r]
      BY <1>1, <2>1 DEF TypeOK
    <3> QED BY <1>1, <1>6, <3>1 DEF Owed, End
  <2>2. CASE r = s
    <3>1. phase'[s] = "open" /\ since'[s] = Len(log)
      BY <1>1 DEF TypeOK
    <3>2. Owed(s)' = {}
      BY <1>1, <1>2, <3>1 DEF Owed, End
    <3>3. upto[s] = 0 /\ since[s] \in Nat
      BY <1>1 DEF SubWell, TypeOK
    <3>4. Owed(s) = {}
      BY <1>1, <1>2, <3>3 DEF Owed, End
    <3> QED BY <2>2, <3>2, <3>4
  <2> QED BY <2>1, <2>2
<1>8. InOrder'
  BY <1>1, <1>7, OrderStands
<1> QED BY <1>3, <1>4, <1>5, <1>8 DEF IInv, Accounted

LEMMA CloseRemovesKeeps ==
  ASSUME IInv, NEW s \in Subs, CloseRemoves(s)
  PROVE  IInv'
<1>1. /\ TypeOK /\ InOrder /\ mu = None /\ phase[s] = "open"
      /\ phase' = [phase EXCEPT ![s] = "removed"] /\ upto' = [upto EXCEPT ![s] = Len(log)]
      /\ UNCHANGED <<mu, topic, ch, call, log, since, got, missed, reports>>
      /\ \A r \in Subs : SubWell(r)
  BY DEF IInv, Accounted, CloseRemoves
<1>2. Len(log) \in 0 .. MaxSent
  BY <1>1, SentAssumption DEF TypeOK
<1>3. TypeOK'
  BY <1>1, <1>2 DEF TypeOK, Phases
<1>4. /\ \A p \in Publishers : CallWell(p)'
      /\ Distinct' /\ DropsReported'
  BY <1>1, NobodyOffers, PublishersStand
<1>5. \A r \in Subs : SubWell(r)'
  BY <1>1, <1>2 DEF SubWell, TypeOK
<1>6. ASSUME NEW r \in Subs PROVE Owed(r)' = Owed(r)
  <2>1. End(r)' = End(r)
    BY <1>1 DEF End, TypeOK
  <2>2. InFlight(r)' = InFlight(r)
    BY <1>1 DEF InFlight
  <2> QED BY <1>1, <2>1, <2>2, OwedStands
<1>7. InOrder'
  BY <1>1, <1>6, OrderStands
<1> QED BY <1>3, <1>4, <1>5, <1>7 DEF IInv, Accounted

LEMMA CloseChannelKeeps ==
  ASSUME IInv, NEW s \in Subs, CloseChannel(s)
  PROVE  IInv'
<1>1. /\ TypeOK /\ InOrder /\ phase[s] = "removed"
      /\ phase' = [phase EXCEPT ![s] = "closed"]
      /\ UNCHANGED <<mu, topic, ch, call, history>>
      /\ \A r \in Subs : SubWell(r)
  BY DEF IInv, Accounted, CloseChannel
<1>2. TypeOK'
  BY <1>1 DEF TypeOK, Phases, history
<1>3. ASSUME NEW p \in Publishers, NEW r \in call[p].left PROVE phase'[r] = phase[r]
  <2>1. call[p].left \subseteq Subs /\ call[p].stage \in Stages /\ CallWell(p)
    BY <1>1 DEF IInv, TypeOK, Calls
  <2>2. phase[r] = "open"
    BY <1>3, <2>1, NoCallTyped DEF CallWell, Stages
  <2> QED BY <1>1, <2>1, <2>2 DEF TypeOK
<1>4. /\ \A p \in Publishers : CallWell(p)'
      /\ Distinct' /\ DropsReported'
  BY <1>1, <1>3, PublishersStand DEF history
<1>5. \A r \in Subs : SubWell(r)'
  BY <1>1 DEF SubWell, TypeOK, history
<1>6. ASSUME NEW r \in Subs PROVE Owed(r)' = Owed(r)
  <2>1. End(r)' = End(r)
    BY <1>1 DEF End, TypeOK, history
  <2>2. InFlight(r)' = InFlight(r)
    BY <1>1 DEF InFlight
  <2> QED BY <1>1, <2>1, <2>2, OwedStands DEF history
<1>7. InOrder'
  BY <1>1, <1>6, OrderStands DEF history
<1> QED BY <1>2, <1>4, <1>5, <1>7 DEF IInv, Accounted

LEMMA ReceiveKeeps ==
  ASSUME IInv, NEW s \in Subs, Receive(s)
  PROVE  IInv'
<1>1. /\ TypeOK /\ InOrder /\ ch[s] # <<>>
      /\ got' = [got EXCEPT ![s] = Append(@, Head(ch[s]))] /\ ch' = [ch EXCEPT ![s] = Tail(@)]
      /\ UNCHANGED <<mu, phase, topic, call, log, since, upto, missed, reports>>
      /\ \A r \in Subs : SubWell(r)
  BY DEF IInv, Accounted, Receive
<1>2. /\ ch[s] \in Seq(Payloads) /\ got[s] \in Seq(Payloads) /\ Len(ch[s]) \in Nat
      /\ Head(ch[s]) \in Payloads /\ Tail(ch[s]) \in Seq(Payloads)
      /\ Len(Tail(ch[s])) = Len(ch[s]) - 1
  BY <1>1, HeadTailProperties DEF TypeOK
<1>3. Append(got[s], Head(ch[s])) \in Seq(Payloads)
  BY <1>2
<1>4. TypeOK'
  <2>1. ch' \in [Subs -> Seq(Payloads)] /\ got' \in [Subs -> Seq(Payloads)]
    BY <1>1, <1>2, <1>3 DEF TypeOK
  <2>2. ASSUME NEW r \in Subs PROVE Len(ch'[r]) <= buffer
    <3>1. CASE r = s
      <4>1. Len(ch'[r]) = Len(ch[s]) - 1 /\ Len(ch[s]) <= buffer
        BY <1>1, <1>2, <3>1 DEF TypeOK
      <4> QED BY <1>2, <4>1, BufferPositive
    <3>2. CASE r # s
      BY <1>1, <3>2 DEF TypeOK
    <3> QED BY <3>1, <3>2
  <2> QED BY <1>1, <2>1, <2>2 DEF TypeOK
<1>5. /\ \A p \in Publishers : CallWell(p)'
      /\ Distinct' /\ DropsReported'
  BY <1>1, PublishersStand
<1>6. \A r \in Subs : SubWell(r)'
  BY <1>1 DEF SubWell, TypeOK
<1>7. ASSUME NEW r \in Subs PROVE Owed(r)' = Owed(r)
  BY <1>1 DEF Owed, End, InFlight
<1>8. ASSUME NEW r \in Subs PROVE got'[r] \o ch'[r] = got[r] \o ch[r]
  <2>1. Append(got[s], Head(ch[s])) \o Tail(ch[s]) = got[s] \o ch[s]
    BY <1>1, <1>2, ReceiveSees
  <2> QED BY <1>1, <2>1 DEF TypeOK
<1>9. InOrder'
  BY <1>1, <1>7, <1>8, OrderStands
<1> QED BY <1>4, <1>5, <1>6, <1>9 DEF IInv, Accounted

-----------------------------------------------------------------------------
(* The theorems.                                                           *)

LEMMA StepKeeps == IInv /\ [Next]_vars => IInv'
<1> SUFFICES ASSUME IInv, [Next]_vars PROVE IInv'
  OBVIOUS
<1>1. CASE UNCHANGED vars
  <2>1. \A m : MissedBy(m)' = MissedBy(m)
    BY <1>1 DEF vars, history, MissedBy
  <2>2. \A s \in Subs : Owed(s)' = Owed(s)
    BY <1>1 DEF vars, history, Owed, End, InFlight
  <2>3. InOrder' /\ DropsReported'
    BY <1>1, <2>1, <2>2, OrderStands DEF vars, history, IInv, Accounted, DropsReported
  <2> QED BY <1>1, <2>3
          DEF vars, history, IInv, TypeOK, CallWell, Distinct, SubWell, Accounted
<1>2. CASE Next
  BY <1>2, PublishKeeps, OfferKeeps, UnlockKeeps, ReportKeeps, SubscribeKeeps,
     CloseRemovesKeeps, CloseChannelKeeps, ReceiveKeeps
  DEF Next, PublishStep, SubscriptionStep
<1> QED BY <1>1, <1>2

LEMMA Inductive == Spec => []IInv
  BY InitHolds, StepKeeps, PTL DEF Spec

\* The bus's tables are well-formed: no channel holds more than its buffer, and
\* only the publisher that has the lock sends (bus.go:23).
THEOREM TypeCorrect == Spec => []TypeOK
<1>1. IInv => TypeOK
  BY DEF IInv
<1> QED BY <1>1, Inductive, PTL

\* Every subscriber gets what it is owed, in order and at most once, but for what
\* the hook is told of (comms.go:8, bus.go:51).
THEOREM PayloadsAccounted == Spec => []Accounted
<1>1. IInv => Accounted
  BY DEF IInv
<1> QED BY <1>1, Inductive, PTL

\* No publish sends on a closed channel (bus.go:94).
THEOREM NeverSendsOnClosed == Spec => []NoSendOnClosed
<1>1. IInv => NoSendOnClosed
  <2> SUFFICES ASSUME IInv, NEW p \in Publishers, NEW s \in call[p].left
               PROVE  phase[s] # "closed"
    BY DEF NoSendOnClosed
  <2>1. call[p].stage \in Stages /\ CallWell(p)
    BY DEF IInv, TypeOK, Calls
  <2> QED BY <2>1, NoCallTyped DEF CallWell, Stages
<1> QED BY <1>1, Inductive, PTL

=============================================================================
