----------------------------- MODULE EmailProofs -----------------------------
(***************************************************************************)
(* What one inbox of the email manager promises, for any number of         *)
(* subscriptions, listeners, messages, renumberings and failures.          *)
(*                                                                         *)
(* That the cursor skips nothing is not inductive: it holds because only   *)
(* the registered listener writes the cursor, so that what it read before  *)
(* it fetched is still the cursor when it advances it (OneWriter), and     *)
(* because everybody it serves by then was offered what it fetched         *)
(* (HandedOver), the subscriptions that came in between excepted, who are  *)
(* owed only what follows.                                                 *)
(***************************************************************************)
EXTENDS EmailListener, TLAPS

\* The statements of the repository are their effects on the row.
USE DEF SaveEmail, DropEmail

-----------------------------------------------------------------------------
(* Types.                                                                  *)

Pcs == {"unborn", "top", "select", "reconcile", "reset", "read", "fetch", "fanout",
        "advance", "idle", "backoff", "gone"}

\* Zero is a number within every bound.
LEMMA Zeros == 0 \in 0 .. MaxMail /\ 0 \in 0 .. MaxValidity
  BY BoundsAssumption

\* The constants of the model are of their types.
LEMMA Values ==
  /\ Unborn \in ListenerRecords /\ Gone \in ListenerRecords
  /\ NoBackfill \in BackfillRecords
  /\ NoCursor \in Cursors
<1>1. Unborn \in ListenerRecords
  BY Zeros DEF Unborn, ListenerRecords
<1>2. Gone \in ListenerRecords
  BY <1>1 DEF Gone, ListenerRecords
<1>3. NoBackfill \in BackfillRecords /\ NoCursor \in Cursors
  BY Zeros DEF NoBackfill, BackfillRecords, NoCursor, Cursors
<1>.QED
  BY <1>1, <1>2, <1>3

\* A record stays one when its fields get values of their types.
LEMMA RecordMoves ==
  ASSUME NEW r \in ListenerRecords, NEW pc \in Pcs
  PROVE  [r EXCEPT !.pc = pc] \in ListenerRecords
  BY DEF ListenerRecords, Pcs

LEMMA RecordFetches ==
  ASSUME NEW r \in ListenerRecords, NEW pc \in Pcs, NEW n \in 0 .. MaxMail
  PROVE  /\ [r EXCEPT !.pc = pc, !.cursor = n] \in ListenerRecords
         /\ [r EXCEPT !.pc = pc, !.upto = n] \in ListenerRecords
  BY DEF ListenerRecords, Pcs

LEMMA RecordContinues ==
  ASSUME NEW r \in ListenerRecords, NEW pc \in Pcs
  PROVE  [r EXCEPT !.pc = pc, !.cursor = 0, !.upto = 0] \in ListenerRecords
  BY Zeros DEF ListenerRecords, Pcs

LEMMA RecordHangsUp ==
  ASSUME NEW r \in ListenerRecords
  PROVE  [r EXCEPT !.pc = "backoff", !.validity = 0, !.cursor = 0, !.upto = 0, !.wake = FALSE]
           \in ListenerRecords
  BY Zeros DEF ListenerRecords

LEMMA RecordSelects ==
  ASSUME NEW r \in ListenerRecords, NEW v \in 0 .. MaxValidity, NEW n \in 0 .. MaxMail
  PROVE  [r EXCEPT !.pc = "reconcile", !.validity = v, !.upto = n] \in ListenerRecords
  BY DEF ListenerRecords

LEMMA RecordWakes ==
  ASSUME NEW r \in ListenerRecords, NEW pc \in Pcs, NEW w \in BOOLEAN
  PROVE  /\ [r EXCEPT !.pc = pc, !.wake = w] \in ListenerRecords
         /\ [r EXCEPT !.wake = w] \in ListenerRecords
  BY DEF ListenerRecords, Pcs

LEMMA RecordSubscribes ==
  ASSUME NEW r \in ListenerRecords, NEW ss \in SUBSET Subs, NEW b \in BOOLEAN
  PROVE  /\ [r EXCEPT !.subs = ss] \in ListenerRecords
         /\ [r EXCEPT !.pc = "top", !.subs = ss] \in ListenerRecords
         /\ [r EXCEPT !.subs = ss, !.stop = b] \in ListenerRecords
         /\ [r EXCEPT !.stop = b, !.subs = ss] \in ListenerRecords
  BY DEF ListenerRecords

\* A listener that becomes another record leaves listeners.
LEMMA ListenerKept ==
  ASSUME TypeOK, NEW l \in Listeners, NEW r \in ListenerRecords, Become(l, r)
  PROVE  listener' \in [Listeners -> ListenerRecords]
  BY DEF TypeOK, Become

\* So do the moves that several actions share.
LEMMA MovesKept ==
  ASSUME TypeOK, NEW l \in Listeners, NEW pc \in Pcs,
         Goto(l, pc) \/ Continue(l, pc) \/ HangUp(l) \/ Become(l, Gone)
  PROVE  listener' \in [Listeners -> ListenerRecords]
<1>1. listener[l] \in ListenerRecords
  BY DEF TypeOK
<1>2. CASE Goto(l, pc)
  BY <1>1, <1>2, RecordMoves, ListenerKept DEF Goto
<1>3. CASE Continue(l, pc)
  BY <1>1, <1>3, RecordContinues, ListenerKept DEF Continue
<1>4. CASE HangUp(l)
  BY <1>1, <1>4, RecordHangsUp, ListenerKept DEF HangUp
<1>5. CASE Become(l, Gone)
  BY <1>5, Values, ListenerKept
<1>.QED
  BY <1>2, <1>3, <1>4, <1>5

\* What a listener writes to the inbox is a cursor.
LEMMA CursorKept ==
  ASSUME TypeOK, NEW l \in Listeners, NEW reset \in BOOLEAN, advanceCursor(l, reset)
  PROVE  /\ row' \in Cursors \cup {None} /\ inbox' \in Cursors \cup {None}
         /\ MayWrite(l) => Advanced(l, reset) \in Cursors
<1>1. MayWrite(l) => Advanced(l, reset) \in Cursors
  <2>1. listener[l].validity \in 0 .. MaxValidity /\ listener[l].upto \in 0 .. MaxMail
    BY DEF TypeOK, ListenerRecords
  <2>2. inbox # None => inbox.uid \in 0 .. MaxMail
    BY DEF TypeOK, Cursors
  <2>.QED
    BY <2>1, <2>2 DEF Advanced, MayWrite, Cursors
<1>.QED
  BY <1>1 DEF TypeOK, advanceCursor, Persist

\* What a listener does keeps the types.
LEMMA ServeTypes ==
  ASSUME TypeOK, NEW l \in Listeners, Serve(l)
  PROVE  TypeOK'
<1>.USE DEF tables, history
<1>1. listener[l] \in ListenerRecords
  BY DEF TypeOK
<1>2. listener' \in [Listeners -> ListenerRecords]
  <2>.USE DEF Pcs
  <2>1. CASE Begin(l)
    BY <2>1, MovesKept DEF Begin
  <2>2. CASE Select(l)
    <3>1. server.validity \in 0 .. MaxValidity /\ LastUID \in 0 .. MaxMail
      BY DEF TypeOK, LastUID
    <3>.QED
      BY <1>1, <2>2, <3>1, RecordSelects, ListenerKept DEF Select
  <2>3. CASE Reconcile(l)
    BY <2>3, MovesKept DEF Reconcile
  <2>4. CASE Reset(l)
    BY <2>4, MovesKept DEF Reset
  <2>5. CASE Read(l)
    <3>1. inbox # None => inbox.uid \in 0 .. MaxMail
      BY DEF TypeOK, Cursors
    <3>2. CASE ~Readable(l)
      BY <2>5, <3>2, MovesKept DEF Read
    <3>3. CASE Readable(l)
      BY <1>1, <2>5, <3>1, <3>3, RecordFetches, ListenerKept DEF Read, Readable
    <3>.QED
      BY <3>2, <3>3
  <2>6. CASE Fetch(l)
    <3>1. server.last \in 0 .. MaxMail
      BY DEF TypeOK
    <3>.QED
      BY <1>1, <2>6, <3>1, RecordFetches, ListenerKept DEF Fetch
  <2>7. CASE Fanout(l)
    BY <2>7, MovesKept DEF Fanout
  <2>8. CASE Advance(l)
    BY <2>8, MovesKept DEF Advance
  <2>9. CASE SaveFails(l)
    BY <2>9, MovesKept DEF SaveFails
  <2>10. CASE IdleReturns(l)
    BY <1>1, <2>10, RecordWakes, ListenerKept DEF IdleReturns
  <2>11. CASE SessionBreaks(l)
    BY <2>11, MovesKept DEF SessionBreaks
  <2>12. CASE Backoff(l)
    BY <2>12, MovesKept DEF Backoff
  <2>.QED
    BY <2>1, <2>2, <2>3, <2>4, <2>5, <2>6, <2>7, <2>8, <2>9, <2>10, <2>11, <2>12 DEF Serve
<1>3. /\ row' \in Cursors \cup {None} /\ inbox' \in Cursors \cup {None}
      /\ since' \in [Subs -> Cursors] /\ offered' \in [Subs -> SUBSET (1 .. MaxMail)]
  <2>1. CASE Reset(l)
    BY <2>1, CursorKept DEF Reset, TypeOK
  <2>2. CASE Advance(l)
    BY <2>2, CursorKept DEF Advance, TypeOK
  <2>3. CASE Fanout(l)
    <3>1. Fetched(l) \subseteq 1 .. MaxMail
      BY DEF Fetched
    <3>.QED
      BY <2>3, <3>1 DEF Fanout, fanout, offer, TypeOK
  <2>4. CASE ~Reset(l) /\ ~Advance(l) /\ ~Fanout(l)
    BY <2>4 DEF TypeOK, Serve, Begin, Select, Reconcile, Read, Fetch, SaveFails, IdleReturns,
       SessionBreaks, Backoff
  <2>.QED
    BY <2>1, <2>2, <2>3, <2>4
<1>4. faults' \in 0 .. MaxFaults
  <2>1. faults' = faults \/ (faults > 0 /\ faults' = faults - 1)
    BY DEF Serve, Begin, Select, Reconcile, Reset, Read, Fetch, Fanout, Advance, SaveFails,
       IdleReturns, SessionBreaks, CallFails, Backoff
  <2>.QED
    BY <2>1, BoundsAssumption DEF TypeOK
<1>5. UNCHANGED <<server, tables>>
  BY DEF Serve, Begin, Select, Reconcile, Reset, Read, Fetch, Fanout, Advance, SaveFails,
     IdleReturns, SessionBreaks, Backoff
<1>.QED
  BY <1>2, <1>3, <1>4, <1>5 DEF TypeOK

\* What the manager's methods do keeps the types.
LEMMA MethodTypes ==
  ASSUME TypeOK,
         \/ \E s \in Subs : Listen(s) \/ Unsubscribe(s)
         \/ Add \/ Delete \/ Close \/ CloseReturns
  PROVE  TypeOK'
<1>1. ASSUME NEW s \in Subs, Listen(s)
      PROVE  TypeOK'
  <2>1. inbox \in Cursors /\ Owed \in Cursors
    <3>1. inbox \in Cursors
      BY <1>1 DEF TypeOK, Listen
    <3>2. registered # None => listener[registered].upto \in 0 .. MaxMail
      BY DEF TypeOK, ListenerRecords
    <3>.QED
      BY <3>1, <3>2 DEF Owed, Cursors
  <2>2. listener' \in [Listeners -> ListenerRecords] /\ registered' \in Listeners \cup {None}
    <3>1. CASE registered # None
      <4>1. registered \in Listeners /\ listener[registered] \in ListenerRecords
        BY <3>1 DEF TypeOK
      <4>2. listener[registered].subs \cup {s} \in SUBSET Subs
        BY <4>1 DEF ListenerRecords
      <4>3. [listener[registered] EXCEPT !.subs = @ \cup {s}] \in ListenerRecords
        BY <4>1, <4>2, RecordSubscribes
      <4>.QED
        BY <1>1, <3>1, <4>1, <4>3, ListenerKept DEF Listen, TypeOK
    <3>2. CASE registered = None
      <4>1. PICK l \in Listeners :
              registered' = l /\ Become(l, [listener[l] EXCEPT !.pc = "top", !.subs = {s}])
        BY <1>1, <3>2 DEF Listen
      <4>2. [listener[l] EXCEPT !.pc = "top", !.subs = {s}] \in ListenerRecords
        BY <4>1, RecordSubscribes DEF TypeOK
      <4>.QED
        BY <4>1, <4>2, ListenerKept
    <3>.QED
      BY <3>1, <3>2
  <2>3. backfill' \in [Subs -> BackfillRecords]
    <3>1. [backfill[s] EXCEPT !.pc = "fetch"] \in BackfillRecords
      BY DEF TypeOK, BackfillRecords
    <3>2. \/ backfill' = backfill
          \/ backfill' = [backfill EXCEPT ![s] = [backfill[s] EXCEPT !.pc = "fetch"]]
      BY <1>1 DEF Listen
    <3>.QED
      BY <3>1, <3>2 DEF TypeOK
  <2>4. channel' \in [Subs -> {"unborn", "open", "closed"}] /\ since' \in [Subs -> Cursors]
    BY <1>1, <2>1 DEF Listen, TypeOK
  <2>.QED
    BY <1>1, <2>2, <2>3, <2>4 DEF Listen, TypeOK
<1>2. ASSUME NEW ss \in SUBSET Subs, Retire(ss)
      PROVE  /\ channel' \in [Subs -> {"unborn", "open", "closed"}]
             /\ offered' \in [Subs -> SUBSET (1 .. MaxMail)] /\ since' \in [Subs -> Cursors]
  BY <1>2, Values DEF Retire, TypeOK
<1>3. ASSUME NEW s \in Subs, Unsubscribe(s)
      PROVE  TypeOK'
  <2>1. listener' \in [Listeners -> ListenerRecords] /\ registered' \in Listeners \cup {None}
    <3>1. CASE registered = None
      BY <1>3, <3>1 DEF Unsubscribe, TypeOK
    <3>2. CASE registered # None
      <4>1. registered \in Listeners /\ listener[registered] \in ListenerRecords
        BY <3>2 DEF TypeOK
      <4>2. /\ listener[registered].subs \ {s} \in SUBSET Subs
            /\ (listener[registered].stop \/ IsLast(s)) \in BOOLEAN
        BY <4>1 DEF ListenerRecords, IsLast
      <4>3. [listener[registered] EXCEPT !.subs = @ \ {s}, !.stop = @ \/ IsLast(s)]
              \in ListenerRecords
        BY <4>1, <4>2, RecordSubscribes
      <4>.QED
        BY <1>3, <3>2, <4>1, <4>3, ListenerKept DEF Unsubscribe, Detach, TypeOK
    <3>.QED
      BY <3>1, <3>2
  <2>2. {s} \in SUBSET Subs /\ Retire({s})
    BY <1>3 DEF Unsubscribe
  <2>.QED
    BY <1>2, <1>3, <2>1, <2>2 DEF Unsubscribe, TypeOK
<1>4. CASE Add \/ Delete
  BY <1>4, Values DEF Add, Delete, Persist, TypeOK, history
<1>5. CASE Close
  <2>1. CASE registered = None
    BY <1>5, <2>1 DEF Close, TypeOK, history
  <2>2. CASE registered # None
    <3>1. registered \in Listeners /\ listener[registered] \in ListenerRecords
      BY <2>2 DEF TypeOK
    <3>2. [listener[registered] EXCEPT !.stop = TRUE, !.subs = {}] \in ListenerRecords
      BY <3>1, RecordSubscribes
    <3>3. listener' \in [Listeners -> ListenerRecords]
      BY <1>5, <2>2, <3>1, <3>2, ListenerKept DEF Close
    <3>4. listener[registered].subs \in SUBSET Subs
      BY <3>1 DEF ListenerRecords
    <3>.QED
      BY <1>2, <1>5, <2>2, <3>3, <3>4 DEF Close, TypeOK
  <2>.QED
    BY <2>1, <2>2
<1>6. CASE CloseReturns
  BY <1>6 DEF CloseReturns, TypeOK, history
<1>.QED
  BY <1>1, <1>3, <1>4, <1>5, <1>6

\* Backfills and the world keep the types.
LEMMA WorldTypes ==
  ASSUME TypeOK,
         \/ \E s \in Subs : BackfillFetch(s) \/ BackfillOffer(s) \/ BackfillFails(s)
         \/ Arrive \/ Renumber \/ Restart
  PROVE  TypeOK'
<1>1. ASSUME NEW s \in Subs, BackfillFetch(s)
      PROVE  TypeOK'
  <2>1. [pc |-> "offer", validity |-> server.validity, upto |-> server.last] \in BackfillRecords
    BY DEF TypeOK, BackfillRecords
  <2>.QED
    BY <1>1, <2>1 DEF BackfillFetch, TypeOK, history
<1>2. ASSUME NEW s \in Subs, BackfillOffer(s)
      PROVE  TypeOK'
  <2>1. 1 .. backfill[s].upto \subseteq 1 .. MaxMail
    BY BoundsAssumption DEF TypeOK, BackfillRecords
  <2>2. offered' \in [Subs -> SUBSET (1 .. MaxMail)]
    BY <1>2, <2>1 DEF BackfillOffer, offer, TypeOK
  <2>.QED
    BY <1>2, <2>2, Values DEF BackfillOffer, TypeOK
<1>3. ASSUME NEW s \in Subs, BackfillFails(s)
      PROVE  TypeOK'
  <2>1. faults' \in 0 .. MaxFaults
    BY <1>3, BoundsAssumption DEF BackfillFails, TypeOK
  <2>.QED
    BY <1>3, <2>1, Values DEF BackfillFails, TypeOK, history
<1>4. CASE Arrive
  <2>1. server' \in [validity: 1 .. MaxValidity, last: 0 .. MaxMail]
    BY <1>4, BoundsAssumption DEF Arrive, TypeOK
  <2>2. \A l \in Listeners : Hears(l) \in BOOLEAN
    BY DEF Hears
  <2>3. \A l \in Listeners : [listener[l] EXCEPT !.wake = @ \/ Hears(l)] \in ListenerRecords
    <3>1. SUFFICES ASSUME NEW l \in Listeners
                   PROVE  [listener[l] EXCEPT !.wake = @ \/ Hears(l)] \in ListenerRecords
      OBVIOUS
    <3>2. listener[l] \in ListenerRecords /\ (listener[l].wake \/ Hears(l)) \in BOOLEAN
      BY <2>2 DEF TypeOK, ListenerRecords
    <3>.QED
      BY <3>2 DEF ListenerRecords
  <2>.QED
    BY <1>4, <2>1, <2>3 DEF Arrive, TypeOK, tables, history
<1>5. CASE Renumber
  <2>1. server' \in [validity: 1 .. MaxValidity, last: 0 .. MaxMail]
    BY <1>5, BoundsAssumption DEF Renumber, TypeOK
  <2>.QED
    BY <1>5, <2>1 DEF Renumber, TypeOK, tables, history
<1>6. CASE Restart
  BY <1>6, Values DEF Restart, Retire, TypeOK
<1>.QED
  BY <1>1, <1>2, <1>3, <1>4, <1>5, <1>6

\* The first state has the types.
LEMMA InitTyped == Init => TypeOK
<1>1. 1 \in 1 .. MaxValidity /\ 0 .. 1 \subseteq 0 .. MaxMail /\ MaxFaults \in 0 .. MaxFaults
  BY BoundsAssumption
<1>.QED
  BY <1>1, Values DEF Init, TypeOK

\* The tables, the sessions and the mailbox keep their types.
THEOREM TypeCorrect == Spec => []TypeOK
<1>1. TypeOK /\ [Next]_vars => TypeOK'
  <2>1. TypeOK /\ Next => TypeOK'
    BY ServeTypes, MethodTypes, WorldTypes DEF Next
  <2>2. TypeOK /\ UNCHANGED vars => TypeOK'
    BY DEF TypeOK, vars
  <2>.QED
    BY <2>1, <2>2
<1>.QED
  BY InitTyped, <1>1, PTL DEF Spec

-----------------------------------------------------------------------------
(* Who is registered.                                                      *)

\* A listener's step is its own: it changes no other listener and none of the
\* manager's tables, keeps its subscriptions, and ends only when stopped.
LEMMA ServeFrame ==
  ASSUME TypeOK, NEW l \in Listeners, Serve(l)
  PROVE  /\ UNCHANGED <<server, tables>>
         /\ \A k \in Listeners \ {l} : listener'[k] = listener[k]
         /\ listener[l].pc # "unborn" /\ listener'[l].pc # "unborn"
         /\ \/ /\ listener'[l].subs = listener[l].subs /\ listener'[l].stop = listener[l].stop
               /\ listener'[l].pc # "gone"
            \/ listener[l].stop /\ listener'[l].subs = {}
<1>.USE DEF tables
<1>1. listener \in [Listeners -> ListenerRecords]
  BY DEF TypeOK
<1>2. UNCHANGED <<server, tables>> /\ listener[l].pc # "unborn"
  BY DEF Serve, Begin, Select, Reconcile, Reset, Read, Fetch, Fanout, Advance, SaveFails,
     IdleReturns, SessionBreaks, Backoff
<1>3. PICK r : Become(l, r)
  BY DEF Serve, Begin, Select, Reconcile, Reset, Read, Fetch, Fanout, Advance, SaveFails,
     IdleReturns, SessionBreaks, Backoff, Goto, Continue, HangUp
<1>4. \A k \in Listeners \ {l} : listener'[k] = listener[k]
  BY <1>1, <1>3 DEF Become
<1>5. ASSUME NEW pc \in Pcs \ {"unborn", "gone"}, Goto(l, pc) \/ Continue(l, pc) \/ HangUp(l)
      PROVE  /\ listener'[l].subs = listener[l].subs /\ listener'[l].stop = listener[l].stop
             /\ listener'[l].pc \notin {"unborn", "gone"}
  <2>1. CASE Goto(l, pc)
    BY <1>1, <2>1 DEF Goto, Become, ListenerRecords, Pcs
  <2>2. CASE Continue(l, pc)
    BY <1>1, <2>2 DEF Continue, Become, ListenerRecords, Pcs
  <2>3. CASE HangUp(l)
    BY <1>1, <2>3 DEF HangUp, Become, ListenerRecords
  <2>.QED
    BY <1>5, <2>1, <2>2, <2>3
<1>6. ASSUME listener[l].stop, Become(l, Gone)
      PROVE  listener'[l].pc # "unborn" /\ listener'[l].subs = {}
  BY <1>1, <1>6 DEF Become, Gone, Unborn
<1>7. \/ /\ listener'[l].subs = listener[l].subs /\ listener'[l].stop = listener[l].stop
         /\ listener'[l].pc \notin {"unborn", "gone"}
      \/ listener[l].stop /\ listener'[l].pc # "unborn" /\ listener'[l].subs = {}
  <2>.USE DEF Pcs
  <2>1. CASE Begin(l)
    BY <2>1, <1>5, <1>6 DEF Begin
  <2>2. CASE Select(l)
    BY <2>2, <1>1 DEF Select, Become, ListenerRecords
  <2>3. CASE Reconcile(l) \/ Reset(l)
    BY <2>3, <1>5 DEF Reconcile, Reset
  <2>4. CASE Read(l)
    BY <2>4, <1>1, <1>5 DEF Read, Become, ListenerRecords
  <2>5. CASE Fetch(l)
    BY <2>5, <1>1 DEF Fetch, Become, ListenerRecords
  <2>6. CASE Fanout(l) \/ Advance(l) \/ SaveFails(l) \/ SessionBreaks(l)
    BY <2>6, <1>5 DEF Fanout, Advance, SaveFails, SessionBreaks
  <2>7. CASE IdleReturns(l)
    BY <2>7, <1>1 DEF IdleReturns, Become, ListenerRecords
  <2>8. CASE Backoff(l)
    BY <2>8, <1>5, <1>6 DEF Backoff
  <2>.QED
    BY <2>1, <2>2, <2>3, <2>4, <2>5, <2>6, <2>7, <2>8 DEF Serve
<1>.QED
  BY <1>2, <1>4, <1>7

\* A listener that has not begun has not been stopped.
FreshRuns == \A l \in Listeners : listener[l].pc = "unborn" => ~listener[l].stop

\* Who is registered changes only in the manager's methods.
LEMMA ServeRegistered ==
  ASSUME TypeOK, RegisteredIsWanted, FreshRuns, NEW l \in Listeners, Serve(l)
  PROVE  RegisteredIsWanted' /\ FreshRuns'
<1>1. UNCHANGED <<registered, channel>>
  BY ServeFrame DEF tables
<1>2. registered # None => registered \in Listeners
  BY DEF TypeOK
<1>3. \A k \in Listeners : listener'[k].subs = listener[k].subs \/ listener'[k].subs = {}
  BY ServeFrame
<1>4. registered # None => /\ listener'[registered].subs = listener[registered].subs
                           /\ listener'[registered].stop = listener[registered].stop
                           /\ listener'[registered].pc \notin {"unborn", "gone"}
  BY <1>2, ServeFrame DEF RegisteredIsWanted
<1>5. RegisteredIsWanted'
  BY <1>1, <1>3, <1>4 DEF RegisteredIsWanted, Attached
<1>6. FreshRuns'
  BY ServeFrame DEF FreshRuns
<1>.QED
  BY <1>5, <1>6

\* Listen joins the registered listener, or registers one that has not begun.
LEMMA ListenRegistered ==
  ASSUME TypeOK, RegisteredIsWanted, FreshRuns, NEW s \in Subs, Listen(s)
  PROVE  RegisteredIsWanted' /\ FreshRuns'
<1>1. listener \in [Listeners -> ListenerRecords] /\ channel \in [Subs -> {"unborn", "open", "closed"}]
  BY DEF TypeOK
<1>2. channel' = [channel EXCEPT ![s] = "open"] /\ channel[s] = "unborn"
  BY DEF Listen
<1>3. PICK l \in Listeners :
        /\ registered' = l
        /\ registered # None => registered = l
        /\ listener'[l].subs = (IF registered # None THEN listener[l].subs ELSE {}) \cup {s}
        /\ listener'[l].pc \notin {"unborn", "gone"} /\ ~listener'[l].stop
        /\ \A k \in Listeners \ {l} : listener'[k] = listener[k]
  <2>1. CASE registered # None
    <3>1. registered \in Listeners
      BY <2>1 DEF TypeOK
    <3>2. Become(registered, [listener[registered] EXCEPT !.subs = @ \cup {s}])
      BY <2>1 DEF Listen
    <3>3. listener[registered] \in ListenerRecords
      BY <1>1, <3>1
    <3>4. /\ listener'[registered].subs = listener[registered].subs \cup {s}
          /\ listener'[registered].pc = listener[registered].pc
          /\ listener'[registered].stop = listener[registered].stop
      BY <1>1, <3>1, <3>2, <3>3 DEF Become, ListenerRecords
    <3>5. registered' = registered
      BY <2>1 DEF Listen
    <3>.QED
      BY <1>1, <2>1, <3>1, <3>2, <3>4, <3>5 DEF RegisteredIsWanted, Become
  <2>2. CASE registered = None
    <3>1. PICK l \in Listeners :
            /\ listener[l].pc = "unborn"
            /\ registered' = l
            /\ Become(l, [listener[l] EXCEPT !.pc = "top", !.subs = {s}])
      <4>1. PICK l \in Listeners :
              /\ \A k \in Listeners : listener[k].pc = "unborn" <=> k >= l
              /\ registered' = l
              /\ Become(l, [listener[l] EXCEPT !.pc = "top", !.subs = {s}])
        BY <2>2 DEF Listen
      <4>2. l >= l
        BY DEF Listeners
      <4>.QED
        BY <4>1, <4>2
    <3>2. listener[l] \in ListenerRecords
      BY <1>1
    <3>3. /\ listener'[l].subs = {s} /\ listener'[l].pc = "top"
          /\ listener'[l].stop = listener[l].stop
      BY <1>1, <3>1, <3>2 DEF Become, ListenerRecords
    <3>.QED
      BY <1>1, <2>2, <3>1, <3>3 DEF FreshRuns, Become
  <2>.QED
    BY <2>1, <2>2
<1>4. l # None /\ None \notin Listeners
  BY NoneAssumption DEF Listeners
<1>5. \A t \in Subs : Attached(t)' <=> Attached(t) \/ t = s
  BY <1>3, <1>4 DEF Attached
<1>6. \A t \in Subs : channel'[t] = "open" <=> Attached(t)'
  BY <1>1, <1>2, <1>5 DEF RegisteredIsWanted
<1>7. \A k \in Listeners : k # registered' => listener'[k].subs = {}
  <2>1. \A k \in Listeners \ {l} : k # registered /\ listener'[k] = listener[k]
    BY <1>3, <1>4
  <2>.QED
    BY <1>3, <2>1 DEF RegisteredIsWanted
<1>8. RegisteredIsWanted'
  BY <1>3, <1>6, <1>7 DEF RegisteredIsWanted, Attached
<1>9. FreshRuns'
  BY <1>3 DEF FreshRuns
<1>.QED
  BY <1>8, <1>9

\* Close of a subscription takes it from the registered listener, and takes
\* the registration from a listener that it leaves with nobody.
LEMMA UnsubscribeRegistered ==
  ASSUME TypeOK, RegisteredIsWanted, FreshRuns, NEW s \in Subs, Unsubscribe(s)
  PROVE  RegisteredIsWanted' /\ FreshRuns'
<1>1. listener \in [Listeners -> ListenerRecords] /\ channel \in [Subs -> {"unborn", "open", "closed"}]
  BY DEF TypeOK
<1>2. \A t \in Subs : channel'[t] = "open" <=> channel[t] = "open" /\ t # s
  BY <1>1 DEF Unsubscribe, Retire
<1>3. CASE registered = None
  <2>1. UNCHANGED <<listener, registered>>
    BY <1>3 DEF Unsubscribe
  <2>.QED
    BY <1>2, <1>3, <2>1 DEF RegisteredIsWanted, Attached, FreshRuns
<1>4. CASE registered # None
  <2>1. registered \in Listeners /\ listener[registered] \in ListenerRecords
    BY <1>1, <1>4 DEF TypeOK
  <2>2. /\ Become(registered, [listener[registered] EXCEPT !.subs = @ \ {s},
                                                          !.stop = @ \/ IsLast(s)])
        /\ registered' = IF IsLast(s) THEN None ELSE registered
    BY <1>4 DEF Unsubscribe, Detach
  <2>3. /\ listener'[registered].subs = listener[registered].subs \ {s}
        /\ listener'[registered].stop = (listener[registered].stop \/ IsLast(s))
        /\ listener'[registered].pc = listener[registered].pc
        /\ \A k \in Listeners \ {registered} : listener'[k] = listener[k]
    BY <1>1, <2>1, <2>2 DEF Become, ListenerRecords
  <2>4. listener'[registered].subs = {} <=> IsLast(s)
    BY <2>3 DEF IsLast
  <2>5. \A t \in Subs : Attached(t)' <=> Attached(t) /\ t # s
    BY <1>4, <2>2, <2>3, <2>4 DEF Attached
  <2>6. \A k \in Listeners : k # registered' => listener'[k].subs = {}
    BY <1>4, <2>2, <2>3, <2>4 DEF RegisteredIsWanted
  <2>7. registered' # None => /\ registered' = registered
                              /\ listener'[registered].subs # {} /\ ~listener'[registered].stop
                              /\ listener'[registered].pc \notin {"unborn", "gone"}
    BY <1>4, <2>2, <2>3, <2>4 DEF RegisteredIsWanted
  <2>8. RegisteredIsWanted'
    BY <1>2, <2>5, <2>6, <2>7 DEF RegisteredIsWanted
  <2>9. FreshRuns'
    BY <1>4, <2>3 DEF FreshRuns, RegisteredIsWanted
  <2>.QED
    BY <2>8, <2>9
<1>.QED
  BY <1>3, <1>4

\* Close of the manager takes everything from the registered listener.
LEMMA CloseRegistered ==
  ASSUME TypeOK, RegisteredIsWanted, FreshRuns, Close
  PROVE  RegisteredIsWanted' /\ FreshRuns'
<1>1. listener \in [Listeners -> ListenerRecords] /\ channel \in [Subs -> {"unborn", "open", "closed"}]
  BY DEF TypeOK
<1>2. CASE registered = None
  BY <1>2 DEF Close, RegisteredIsWanted, FreshRuns, Attached
<1>3. CASE registered # None
  <2>1. registered \in Listeners /\ listener[registered] \in ListenerRecords
    BY <1>1, <1>3 DEF TypeOK
  <2>2. /\ Become(registered, [listener[registered] EXCEPT !.stop = TRUE, !.subs = {}])
        /\ Retire(listener[registered].subs) /\ registered' = None
    BY <1>3 DEF Close
  <2>3. /\ listener'[registered].subs = {} /\ listener'[registered].pc = listener[registered].pc
        /\ \A k \in Listeners \ {registered} : listener'[k] = listener[k]
    BY <1>1, <2>1, <2>2 DEF Become, ListenerRecords
  <2>4. \A t \in Subs : channel'[t] # "open"
    BY <1>1, <1>3, <2>2 DEF RegisteredIsWanted, Attached, Retire
  <2>5. \A k \in Listeners : listener'[k].subs = {}
    BY <2>3 DEF RegisteredIsWanted
  <2>6. RegisteredIsWanted'
    BY <2>2, <2>4, <2>5 DEF RegisteredIsWanted, Attached
  <2>7. FreshRuns'
    BY <1>3, <2>3 DEF FreshRuns, RegisteredIsWanted
  <2>.QED
    BY <2>6, <2>7
<1>.QED
  BY <1>2, <1>3

\* The remaining steps leave registrations and channels alone, or end them all.
LEMMA WorldRegistered ==
  ASSUME TypeOK, RegisteredIsWanted, FreshRuns,
         \/ \E s \in Subs : BackfillFetch(s) \/ BackfillOffer(s) \/ BackfillFails(s)
         \/ Add \/ Delete \/ CloseReturns \/ Arrive \/ Renumber \/ Restart
  PROVE  RegisteredIsWanted' /\ FreshRuns'
<1>1. listener \in [Listeners -> ListenerRecords] /\ channel \in [Subs -> {"unborn", "open", "closed"}]
  BY DEF TypeOK
<1>2. CASE UNCHANGED <<registered, listener, channel>>
  BY <1>2 DEF RegisteredIsWanted, Attached, FreshRuns
<1>3. CASE Arrive
  <2>1. \A l \in Listeners : /\ listener'[l].subs = listener[l].subs
                             /\ listener'[l].stop = listener[l].stop
                             /\ listener'[l].pc = listener[l].pc
    BY <1>1, <1>3 DEF Arrive, ListenerRecords
  <2>2. UNCHANGED <<registered, channel>> /\ (registered # None => registered \in Listeners)
    BY <1>3 DEF Arrive, tables, TypeOK
  <2>.QED
    BY <2>1, <2>2 DEF RegisteredIsWanted, Attached, FreshRuns
<1>4. CASE Restart
  <2>1. registered' = None /\ \A s \in Subs : channel'[s] # "open"
    BY <1>1, <1>4 DEF Restart, Retire
  <2>2. \A l \in Listeners : /\ listener'[l].subs = {}
                             /\ listener'[l].pc = "unborn" => ~listener'[l].stop
    BY <1>4 DEF Restart, Unborn, Gone
  <2>.QED
    BY <2>1, <2>2 DEF RegisteredIsWanted, Attached, FreshRuns
<1>5. Arrive \/ Restart \/ UNCHANGED <<registered, listener, channel>>
  BY DEF BackfillFetch, BackfillOffer, BackfillFails, Add, Delete, CloseReturns, Renumber, tables
<1>.QED
  BY <1>2, <1>3, <1>4, <1>5

\* A listener that is registered runs, and is wanted.
THEOREM RegisteredRuns == Spec => [](RegisteredIsWanted /\ FreshRuns)
<1>1. Init => RegisteredIsWanted /\ FreshRuns
  BY DEF Init, RegisteredIsWanted, FreshRuns, Attached, Unborn
<1>2. TypeOK /\ RegisteredIsWanted /\ FreshRuns /\ [Next]_vars => (RegisteredIsWanted /\ FreshRuns)'
  <2>1. CASE UNCHANGED vars
    BY <2>1 DEF vars, RegisteredIsWanted, FreshRuns, Attached
  <2>2. CASE Next
    BY <2>2, ServeRegistered, ListenRegistered, UnsubscribeRegistered, CloseRegistered,
       WorldRegistered DEF Next
  <2>.QED
    BY <2>1, <2>2
<1>.QED
  BY <1>1, <1>2, TypeCorrect, PTL DEF Spec
-----------------------------------------------------------------------------
(* The cursor.                                                             *)

\* Store and inventory agree; sessions and cursors are no newer than the mailbox.
Mirrored ==
  /\ row = inbox
  /\ registered # None => inbox # None
  /\ inbox # None => inbox.validity <= server.validity
  /\ \A l \in Listeners : listener[l].validity <= server.validity

InLoop == {"read", "fetch", "fanout", "advance", "idle"}

\* What a listener, r, found out about the cursor, c, is still so.
Informed(r, c) ==
  /\ r.pc \in {"reconcile", "reset"} => c.validity <= r.validity
  /\ r.pc = "reset" => c.validity # r.validity
  /\ r.pc \in InLoop => c.validity = r.validity
  /\ r.pc \in {"fetch", "fanout", "advance"} => c.uid = r.cursor
  /\ r.pc = "advance" => c.uid < r.upto

OneWriter == registered # None => Informed(listener[registered], inbox)

\* Before the cursor moves, all that it will pass has been offered.
HandedOver ==
  registered # None /\ listener[registered].pc = "advance" =>
    \A s \in listener[registered].subs : since[s].validity = inbox.validity =>
      \A u \in 1 .. MaxMail :
        since[s].uid < u /\ u <= listener[registered].upto => u \in offered[s]

Registered == TypeOK /\ RegisteredIsWanted /\ FreshRuns
Passing == OneWriter /\ HandedOver /\ NothingSkipped
EmailInv == Registered /\ Mirrored /\ Passing

\* The record that the moves leave a listener with.
LEMMA MovedTo ==
  ASSUME TypeOK, NEW l \in Listeners, NEW pc \in Pcs
  PROVE  /\ Goto(l, pc) =>
              /\ listener'[l].pc = pc /\ listener'[l].subs = listener[l].subs
              /\ listener'[l].validity = listener[l].validity
              /\ listener'[l].cursor = listener[l].cursor
              /\ listener'[l].upto = listener[l].upto
         /\ Continue(l, pc) =>
              /\ listener'[l].pc = pc /\ listener'[l].subs = listener[l].subs
              /\ listener'[l].validity = listener[l].validity
         /\ HangUp(l) => listener'[l].pc = "backoff" /\ listener'[l].validity = 0
<1>1. listener \in [Listeners -> ListenerRecords]
  BY DEF TypeOK
<1>2. ASSUME Goto(l, pc)
      PROVE  /\ listener'[l].pc = pc /\ listener'[l].subs = listener[l].subs
             /\ listener'[l].validity = listener[l].validity
             /\ listener'[l].cursor = listener[l].cursor
             /\ listener'[l].upto = listener[l].upto
  BY <1>1, <1>2 DEF Goto, Become, ListenerRecords
<1>3. ASSUME Continue(l, pc)
      PROVE  /\ listener'[l].pc = pc /\ listener'[l].subs = listener[l].subs
             /\ listener'[l].validity = listener[l].validity
  BY <1>1, <1>3 DEF Continue, Become, ListenerRecords
<1>4. ASSUME HangUp(l)
      PROVE  listener'[l].pc = "backoff" /\ listener'[l].validity = 0
  BY <1>1, <1>4 DEF HangUp, Become, ListenerRecords
<1>.QED
  BY <1>2, <1>3, <1>4

\* Nobody is registered: nothing is owed.
LEMMA NobodyPasses ==
  ASSUME registered' = None
  PROVE  Passing'
  BY DEF Passing, OneWriter, HandedOver, NothingSkipped, Attached

\* The cursor and what the registered listener knows of it stand, and nobody
\* that it still serves is offered less.
LEMMA PassingStands ==
  ASSUME EmailInv, registered # None, UNCHANGED <<registered, inbox>>,
         listener'[registered].pc = listener[registered].pc,
         listener'[registered].validity = listener[registered].validity,
         listener'[registered].cursor = listener[registered].cursor,
         listener'[registered].upto = listener[registered].upto,
         listener'[registered].subs \subseteq listener[registered].subs,
         \A s \in listener'[registered].subs :
           since'[s] = since[s] /\ offered[s] \subseteq offered'[s]
  PROVE  Passing'
<1>1. OneWriter'
  BY DEF EmailInv, Passing, OneWriter, Informed, InLoop
<1>2. HandedOver'
  BY DEF EmailInv, Passing, HandedOver
<1>3. NothingSkipped'
  BY DEF EmailInv, Passing, NothingSkipped, Attached
<1>.QED
  BY <1>1, <1>2, <1>3 DEF Passing

\* A listener that is not registered changes nothing but itself.
LEMMA SupersededFrame ==
  ASSUME EmailInv, NEW l \in Listeners, Serve(l), ~owns(l)
  PROVE  UNCHANGED <<row, inbox, since, offered>>
<1>1. ~MayWrite(l)
  BY DEF MayWrite
<1>2. since \in [Subs -> Cursors] /\ offered \in [Subs -> SUBSET (1 .. MaxMail)]
  BY DEF EmailInv, Registered, TypeOK
<1>3. CASE Reset(l)
  <2>1. /\ since' = [s \in Subs |-> since[s]] /\ offered' = [s \in Subs |-> offered[s]]
        /\ UNCHANGED <<row, inbox>>
    BY <1>1, <1>3 DEF Reset, advanceCursor
  <2>.QED
    BY <1>2, <2>1
<1>4. CASE Advance(l)
  BY <1>1, <1>4 DEF Advance, advanceCursor, history
<1>5. CASE Fanout(l)
  BY <1>5 DEF Fanout
<1>6. CASE ~Reset(l) /\ ~Advance(l) /\ ~Fanout(l)
  BY <1>6 DEF Serve, Begin, Select, Reconcile, Read, Fetch, SaveFails, IdleReturns,
     SessionBreaks, Backoff, history
<1>.QED
  BY <1>3, <1>4, <1>5, <1>6

\* What a listener writes, when it writes: it is what was fetched, or a new
\* mailbox's last mail.
LEMMA Written ==
  ASSUME EmailInv, NEW l \in Listeners, Serve(l)
  PROVE  \/ UNCHANGED <<row, inbox>>
         \/ /\ owns(l) /\ inbox # None /\ row' = inbox' /\ inbox' \in Cursors
            /\ inbox'.validity = listener[l].validity /\ inbox'.uid = listener[l].upto
            /\ \/ /\ listener[l].pc = "reset" /\ Reset(l)
                  /\ inbox.validity < inbox'.validity
               \/ /\ listener[l].pc = "advance" /\ Advance(l)
                  /\ inbox.validity = inbox'.validity /\ inbox.uid < inbox'.uid
<1>1. listener[l] \in ListenerRecords /\ TypeOK
  BY DEF EmailInv, Registered, TypeOK
<1>2. inbox # None => inbox.validity \in Nat /\ inbox.uid \in Nat
  BY <1>1 DEF TypeOK, Cursors
<1>3. listener[l].validity \in Nat /\ listener[l].upto \in Nat
  BY <1>1 DEF ListenerRecords
<1>4. owns(l) => Informed(listener[l], inbox)
  BY NoneAssumption DEF EmailInv, Passing, OneWriter, owns, Listeners
<1>5. CASE Reset(l)
  <2>1. CASE ~MayWrite(l)
    BY <1>5, <2>1 DEF Reset, advanceCursor
  <2>2. CASE MayWrite(l)
    <3>1. inbox' = Advanced(l, TRUE) /\ row' = Advanced(l, TRUE)
      BY <1>5, <2>2 DEF Reset, advanceCursor, Persist
    <3>2. inbox'.validity = listener[l].validity /\ inbox'.uid = listener[l].upto
      BY <3>1 DEF Advanced
    <3>3. inbox' \in Cursors
      BY <1>1, <1>5, <2>2, <3>1, CursorKept DEF Reset
    <3>4. listener[l].pc = "reset" /\ owns(l) /\ inbox # None
      BY <1>5, <2>2 DEF Reset, MayWrite
    <3>5. inbox.validity < inbox'.validity
      BY <1>2, <1>3, <1>4, <3>2, <3>4 DEF Informed
    <3>.QED
      BY <1>5, <3>1, <3>2, <3>3, <3>4, <3>5
  <2>.QED
    BY <2>1, <2>2
<1>6. CASE Advance(l)
  <2>1. CASE ~MayWrite(l)
    BY <1>6, <2>1 DEF Advance, advanceCursor
  <2>2. CASE MayWrite(l)
    <3>1. inbox' = Advanced(l, FALSE) /\ row' = Advanced(l, FALSE)
      BY <1>6, <2>2 DEF Advance, advanceCursor, Persist
    <3>2. listener[l].pc = "advance" /\ owns(l) /\ inbox # None
      BY <1>6, <2>2 DEF Advance, MayWrite
    <3>3. inbox.validity = listener[l].validity /\ inbox.uid < listener[l].upto
      BY <1>4, <3>2 DEF Informed, InLoop
    <3>4. inbox'.validity = listener[l].validity /\ inbox'.uid = listener[l].upto
      BY <3>1, <3>3 DEF Advanced
    <3>5. inbox' \in Cursors
      BY <1>1, <1>6, <2>2, <3>1, CursorKept DEF Advance
    <3>.QED
      BY <1>6, <3>1, <3>2, <3>3, <3>4, <3>5
  <2>.QED
    BY <2>1, <2>2
<1>7. CASE ~Reset(l) /\ ~Advance(l)
  BY <1>7 DEF Serve, Begin, Select, Reconcile, Read, Fetch, Fanout, SaveFails, IdleReturns,
     SessionBreaks, Backoff
<1>.QED
  BY <1>5, <1>6, <1>7

\* A session is no newer than the mailbox, and neither is what it writes.
LEMMA ServeMirrored ==
  ASSUME EmailInv, NEW l \in Listeners, Serve(l)
  PROVE  Mirrored'
<1>1. TypeOK /\ listener[l] \in ListenerRecords /\ listener \in [Listeners -> ListenerRecords]
  BY DEF EmailInv, Registered, TypeOK
<1>2. UNCHANGED <<server, registered>> /\ \A k \in Listeners \ {l} : listener'[k] = listener[k]
  BY <1>1, ServeFrame DEF tables
<1>3. None \notin Cursors
  BY NoneAssumption DEF Cursors
<1>4. server.validity \in Nat
  BY <1>1 DEF TypeOK
<1>5. listener'[l].validity \in {0, listener[l].validity, server.validity}
  <2>.USE DEF Pcs
  <2>1. CASE Begin(l) \/ Backoff(l)
    <3>1. CASE Become(l, Gone)
      BY <1>1, <3>1 DEF Become, Gone, Unborn
    <3>.QED
      BY <1>1, <2>1, <3>1, MovedTo DEF Begin, Backoff
  <2>2. CASE Select(l)
    BY <1>1, <2>2 DEF Select, Become, ListenerRecords
  <2>3. CASE Reconcile(l) \/ Reset(l) \/ Advance(l)
    BY <1>1, <2>3, MovedTo DEF Reconcile, Reset, Advance
  <2>7. CASE Fanout(l) \/ SaveFails(l) \/ SessionBreaks(l)
    BY <1>1, <2>7, MovedTo DEF Fanout, SaveFails, SessionBreaks
  <2>4. CASE Read(l)
    <3>1. CASE HangUp(l)
      BY <1>1, <3>1, MovedTo
    <3>2. CASE Become(l, [listener[l] EXCEPT !.pc = "fetch", !.cursor = inbox.uid])
      BY <1>1, <3>2 DEF Become, ListenerRecords
    <3>.QED
      BY <2>4, <3>1, <3>2 DEF Read
  <2>5. CASE Fetch(l)
    BY <1>1, <2>5 DEF Fetch, Become, ListenerRecords
  <2>6. CASE IdleReturns(l)
    BY <1>1, <2>6 DEF IdleReturns, Become, ListenerRecords
  <2>.QED
    BY <2>1, <2>2, <2>3, <2>4, <2>5, <2>6, <2>7 DEF Serve
<1>6. \A k \in Listeners : listener'[k].validity <= server.validity
  BY <1>2, <1>4, <1>5 DEF EmailInv, Mirrored
<1>7. \/ UNCHANGED <<row, inbox>>
      \/ /\ inbox # None /\ row' = inbox' /\ inbox' \in Cursors
         /\ inbox'.validity = listener[l].validity
  BY Written
<1>.QED
  BY <1>2, <1>3, <1>6, <1>7 DEF EmailInv, Mirrored

\* What the registered listener does keeps what it relies on.
LEMMA ServePassing ==
  ASSUME EmailInv, NEW l \in Listeners, Serve(l), owns(l)
  PROVE  Passing'
<1>.USE DEF Pcs
<1>1. /\ TypeOK /\ listener \in [Listeners -> ListenerRecords]
      /\ listener[l] \in ListenerRecords
      /\ registered = l /\ registered # None
  BY NoneAssumption DEF EmailInv, Registered, TypeOK, owns, Listeners
<1>2. /\ inbox # None /\ inbox.validity <= server.validity
      /\ Informed(listener[l], inbox) /\ ~listener[l].stop
  BY <1>1 DEF EmailInv, Registered, Mirrored, Passing, OneWriter, RegisteredIsWanted
<1>3. /\ inbox.uid \in Nat /\ server.validity \in Nat
      /\ listener[l].validity \in Nat /\ listener[l].upto \in Nat /\ listener[l].cursor \in Nat
  BY <1>1, <1>2 DEF TypeOK, Cursors, ListenerRecords
<1>4. registered' = l /\ registered' # None /\ listener'[l].subs = listener[l].subs
  BY <1>1, <1>2, ServeFrame DEF tables
<1>5. /\ since \in [Subs -> Cursors] /\ offered \in [Subs -> SUBSET (1 .. MaxMail)]
      /\ listener[l].subs \subseteq Subs
  BY <1>1 DEF TypeOK, ListenerRecords
<1>6. ASSUME UNCHANGED <<inbox, since>>, \A s \in Subs : offered[s] \subseteq offered'[s]
      PROVE  NothingSkipped'
  BY <1>1, <1>4, <1>6 DEF EmailInv, Passing, NothingSkipped, Attached
<1>7. ASSUME Informed(listener'[l], inbox') PROVE OneWriter'
  BY <1>4, <1>7 DEF OneWriter
<1>8. ASSUME listener'[l].pc # "advance" PROVE HandedOver'
  BY <1>4, <1>8 DEF HandedOver
<1>9. ASSUME UNCHANGED <<inbox, history>>, Informed(listener'[l], inbox),
             listener'[l].pc # "advance"
      PROVE  Passing'
  BY <1>6, <1>7, <1>8, <1>9 DEF Passing, history
<1>10. CASE Begin(l) \/ Backoff(l)
  <2>1. Goto(l, "select") \/ Goto(l, "top")
    BY <1>2, <1>10 DEF Begin, Backoff
  <2>2. listener'[l].pc \in {"select", "top"}
    BY <1>1, <2>1, MovedTo
  <2>.QED
    BY <1>9, <1>10, <2>2 DEF Begin, Backoff, Informed, InLoop
<1>11. CASE UNCHANGED <<inbox, history>> /\ HangUp(l)
  <2>1. listener'[l].pc = "backoff"
    BY <1>1, <1>11, MovedTo
  <2>.QED
    BY <1>9, <1>11, <2>1 DEF Informed, InLoop
<1>12. CASE Select(l)
  <2>1. listener'[l].pc = "reconcile" /\ listener'[l].validity = server.validity
    BY <1>1, <1>12 DEF Select, Become, ListenerRecords
  <2>.QED
    BY <1>2, <1>9, <1>12, <2>1 DEF Select, Informed, InLoop
<1>13. CASE Reconcile(l) /\ ~HangUp(l)
  <2>1. \/ Goto(l, "reset") /\ inbox.validity # listener[l].validity
        \/ Continue(l, "read") /\ inbox.validity = listener[l].validity
    BY <1>13 DEF Reconcile
  <2>2. /\ listener'[l].validity = listener[l].validity
        /\ \/ listener'[l].pc = "reset" /\ inbox.validity # listener[l].validity
           \/ listener'[l].pc = "read" /\ inbox.validity = listener[l].validity
    BY <1>1, <2>1, MovedTo
  <2>3. inbox.validity <= listener[l].validity
    BY <1>2, <1>13 DEF Reconcile, Informed
  <2>.QED
    BY <1>9, <1>13, <2>2, <2>3 DEF Reconcile, Informed, InLoop
<1>14. CASE Read(l) /\ ~HangUp(l)
  <2>1. /\ listener'[l].pc = "fetch" /\ listener'[l].validity = listener[l].validity
        /\ listener'[l].cursor = inbox.uid
    <3>1. Become(l, [listener[l] EXCEPT !.pc = "fetch", !.cursor = inbox.uid])
      BY <1>14 DEF Read
    <3>.QED
      BY <1>1, <3>1 DEF Become, ListenerRecords
  <2>.QED
    BY <1>2, <1>9, <1>14, <2>1 DEF Read, Informed, InLoop
<1>15. CASE Fetch(l)
  <2>1. /\ listener'[l].pc = "fanout" /\ listener'[l].validity = listener[l].validity
        /\ listener'[l].cursor = listener[l].cursor
    BY <1>1, <1>15 DEF Fetch, Become, ListenerRecords
  <2>.QED
    BY <1>2, <1>9, <1>15, <2>1 DEF Fetch, Informed, InLoop
<1>16. CASE IdleReturns(l)
  <2>1. listener'[l].pc = "read" /\ listener'[l].validity = listener[l].validity
    BY <1>1, <1>16 DEF IdleReturns, Become, ListenerRecords
  <2>.QED
    BY <1>2, <1>9, <1>16, <2>1 DEF IdleReturns, Informed, InLoop
<1>17. CASE Reset(l)
  <2>1. MayWrite(l)
    BY <1>1, <1>2 DEF MayWrite, owns
  <2>2. inbox' = Advanced(l, TRUE)
    BY <1>17, <2>1 DEF Reset, advanceCursor, Persist
  <2>3. /\ inbox'.validity = listener[l].validity
        /\ listener'[l].pc = "read" /\ listener'[l].validity = listener[l].validity
    BY <1>1, <1>17, <2>2, MovedTo DEF Reset, Advanced
  <2>4. \A s \in listener[l].subs : since'[s] = inbox'
    BY <1>5, <1>17, <2>1, <2>2 DEF Reset
  <2>5. inbox'.uid \in Nat
    BY <1>3, <2>2 DEF Advanced
  <2>6. NothingSkipped'
    BY <1>4, <2>4, <2>5 DEF NothingSkipped, Attached
  <2>.QED
    BY <1>7, <1>8, <2>3, <2>6 DEF Passing, Informed, InLoop
<1>18. CASE Advance(l)
  <2>1. listener[l].pc = "advance" /\ UNCHANGED <<since, offered>>
    BY <1>18 DEF Advance, history
  <2>2. MayWrite(l)
    BY <1>1, <1>2 DEF MayWrite, owns
  <2>3. inbox' = Advanced(l, FALSE)
    BY <1>18, <2>2 DEF Advance, advanceCursor, Persist
  <2>4. inbox.validity = listener[l].validity /\ inbox.uid < listener[l].upto
    BY <1>2, <2>1 DEF Informed, InLoop
  <2>5. inbox'.validity = inbox.validity /\ inbox'.uid = listener[l].upto
    BY <2>3, <2>4 DEF Advanced
  <2>6. listener'[l].pc = "idle" /\ listener'[l].validity = listener[l].validity
    BY <1>1, <1>18, MovedTo DEF Advance
  <2>7. NothingSkipped'
    BY <1>1, <1>4, <2>1, <2>5 DEF EmailInv, Passing, HandedOver, NothingSkipped, Attached
  <2>.QED
    BY <1>7, <1>8, <2>4, <2>5, <2>6, <2>7 DEF Passing, Informed, InLoop
<1>19. CASE Fanout(l)
  <2>1. UNCHANGED <<inbox, since>> /\ fanout(l) /\ listener[l].pc = "fanout"
    BY <1>1, <1>19 DEF Fanout, owns
  <2>2. inbox.validity = listener[l].validity /\ inbox.uid = listener[l].cursor
    BY <1>2, <2>1 DEF Informed, InLoop
  <2>3. \A s \in listener[l].subs : channel[s] = "open"
    BY <1>1, <1>5 DEF EmailInv, Registered, RegisteredIsWanted, Attached
  <2>4. \A s \in listener[l].subs : offered'[s] = offered[s] \cup Fetched(l)
    BY <1>2, <1>5, <2>1, <2>2, <2>3 DEF fanout, offer
  <2>5. \A s \in Subs : offered[s] \subseteq offered'[s]
    BY <1>5, <2>1 DEF fanout, offer
  <2>6. NothingSkipped'
    BY <1>6, <2>1, <2>5
  <2>7. CASE Fetched(l) = {}
    <3>1. listener'[l].pc = "idle" /\ listener'[l].validity = listener[l].validity
      BY <1>1, <1>19, <2>7, MovedTo DEF Fanout, owns
    <3>.QED
      BY <1>7, <1>8, <2>1, <2>2, <2>6, <3>1 DEF Passing, Informed, InLoop
  <2>8. CASE Fetched(l) # {}
    <3>1. /\ listener'[l].pc = "advance" /\ listener'[l].validity = listener[l].validity
          /\ listener'[l].cursor = listener[l].cursor /\ listener'[l].upto = listener[l].upto
      BY <1>1, <1>19, <2>8, MovedTo DEF Fanout, owns
    <3>2. inbox.uid < listener[l].upto
      BY <1>3, <2>2, <2>8, BoundsAssumption DEF Fetched
    <3>3. HandedOver'
      <4>1. SUFFICES ASSUME NEW s \in listener[l].subs, since[s].validity = inbox.validity,
                            NEW u \in 1 .. MaxMail, since[s].uid < u, u <= listener[l].upto
                     PROVE  u \in offered'[s]
        BY <1>4, <2>1, <3>1 DEF HandedOver
      <4>2. CASE u <= inbox.uid
        BY <1>1, <1>2, <1>5, <2>5, <4>1, <4>2 DEF EmailInv, Passing, NothingSkipped, Attached
      <4>3. CASE ~(u <= inbox.uid)
        <5>1. listener[l].cursor < u
          BY <1>3, <2>2, <4>3, BoundsAssumption
        <5>.QED
          BY <2>4, <4>1, <5>1 DEF Fetched
      <4>.QED
        BY <4>2, <4>3
    <3>.QED
      BY <1>7, <2>1, <2>2, <2>6, <3>1, <3>2, <3>3 DEF Passing, Informed, InLoop
  <2>.QED
    BY <2>7, <2>8
<1>20. CASE SaveFails(l) \/ SessionBreaks(l)
  BY <1>11, <1>20 DEF SaveFails, SessionBreaks
<1>21. CASE (Reconcile(l) \/ Read(l)) /\ HangUp(l)
  BY <1>11, <1>21 DEF Reconcile, Read
<1>.QED
  BY <1>10, <1>12, <1>13, <1>14, <1>15, <1>16, <1>17, <1>18, <1>19, <1>20, <1>21 DEF Serve

\* Who joins is owed what the cursor has still to pass.
LEMMA ListenPassing ==
  ASSUME EmailInv, NEW s \in Subs, Listen(s)
  PROVE  Passing'
<1>1. /\ TypeOK /\ listener \in [Listeners -> ListenerRecords]
      /\ since \in [Subs -> Cursors] /\ inbox \in Cursors
      /\ inbox.uid \in Nat
  <2>1. TypeOK /\ inbox # None
    BY DEF EmailInv, Registered, Listen
  <2>2. inbox \in Cursors
    BY <2>1 DEF TypeOK
  <2>3. inbox.uid \in Nat
    BY <2>2 DEF Cursors
  <2>.QED
    BY <2>1, <2>2, <2>3 DEF TypeOK
<1>2. UNCHANGED <<inbox, offered>> /\ since' = [since EXCEPT ![s] = Owed]
  BY DEF Listen
<1>3. CASE registered # None
  <2>1. registered \in Listeners /\ listener[registered] \in ListenerRecords
    BY <1>1, <1>3 DEF TypeOK
  <2>2. registered' = registered /\ Become(registered, [listener[registered] EXCEPT !.subs = @ \cup {s}])
    BY <1>3 DEF Listen
  <2>3. /\ listener'[registered].pc = listener[registered].pc
        /\ listener'[registered].validity = listener[registered].validity
        /\ listener'[registered].cursor = listener[registered].cursor
        /\ listener'[registered].upto = listener[registered].upto
        /\ listener'[registered].subs = listener[registered].subs \cup {s}
    BY <1>1, <2>1, <2>2 DEF Become, ListenerRecords
  <2>4. OneWriter'
    BY <1>2, <2>2, <2>3 DEF EmailInv, Passing, OneWriter, Informed, InLoop
  <2>5. listener[registered].upto \in Nat /\ listener[registered].subs \subseteq Subs
    BY <2>1 DEF ListenerRecords
  <2>6. /\ inbox.uid <= Owed.uid /\ Owed.uid \in Nat
        /\ listener[registered].pc = "advance" => Owed.uid = listener[registered].upto
    <3>1. CASE listener[registered].pc = "advance"
      <4>1. Owed = [inbox EXCEPT !.uid = listener[registered].upto]
        BY <1>3, <3>1 DEF Owed
      <4>2. Owed.uid = listener[registered].upto
        BY <1>1, <4>1 DEF Cursors
      <4>3. inbox.uid < listener[registered].upto
        BY <1>3, <3>1 DEF EmailInv, Passing, OneWriter, Informed
      <4>.QED
        BY <1>1, <2>5, <4>2, <4>3
    <3>2. CASE listener[registered].pc # "advance"
      BY <1>1, <3>2 DEF Owed
    <3>.QED
      BY <3>1, <3>2
  <2>7. since'[s] = Owed /\ \A t \in Subs \ {s} : since'[t] = since[t]
    BY <1>1, <1>2
  <2>8. HandedOver'
    <3>1. SUFFICES ASSUME listener[registered].pc = "advance",
                          NEW t \in listener[registered].subs \cup {s},
                          since'[t].validity = inbox.validity, NEW u \in 1 .. MaxMail,
                          since'[t].uid < u, u <= listener[registered].upto
                   PROVE  u \in offered[t]
      BY <1>2, <2>2, <2>3 DEF HandedOver
    <3>2. t # s
      BY <2>5, <2>6, <2>7, <3>1, BoundsAssumption
    <3>3. since'[t] = since[t] /\ t \in listener[registered].subs
      BY <2>5, <2>7, <3>1, <3>2
    <3>.QED
      BY <1>3, <3>1, <3>3 DEF EmailInv, Passing, HandedOver
  <2>9. NothingSkipped'
    <3>1. SUFFICES ASSUME NEW t \in Subs, t \in listener[registered].subs \cup {s},
                          since'[t].validity = inbox.validity, NEW u \in 1 .. MaxMail,
                          since'[t].uid < u, u <= inbox.uid
                   PROVE  u \in offered[t]
      BY <1>2, <2>2, <2>3 DEF NothingSkipped, Attached
    <3>2. t # s
      BY <1>1, <2>6, <2>7, <3>1, BoundsAssumption
    <3>3. since'[t] = since[t] /\ Attached(t) /\ inbox # None
      BY <1>3, <2>7, <3>1, <3>2 DEF Attached, Listen
    <3>.QED
      BY <3>1, <3>3 DEF EmailInv, Passing, NothingSkipped
  <2>.QED
    BY <2>4, <2>8, <2>9 DEF Passing
<1>4. CASE registered = None
  <2>1. PICK l \in Listeners : /\ registered' = l
                              /\ Become(l, [listener[l] EXCEPT !.pc = "top", !.subs = {s}])
    BY <1>4 DEF Listen
  <2>2. listener'[l].pc = "top" /\ listener'[l].subs = {s}
    BY <1>1, <2>1 DEF Become, ListenerRecords
  <2>3. OneWriter' /\ HandedOver'
    BY <2>1, <2>2 DEF OneWriter, HandedOver, Informed, InLoop
  <2>4. since'[s] = inbox
    BY <1>1, <1>2, <1>4 DEF Owed
  <2>5. NothingSkipped'
    <3>1. SUFFICES ASSUME NEW u \in 1 .. MaxMail, inbox.uid < u, u <= inbox.uid
                   PROVE  FALSE
      BY <1>2, <2>1, <2>2, <2>4 DEF NothingSkipped, Attached
    <3>.QED
      BY <1>1, <3>1
  <2>.QED
    BY <2>3, <2>5 DEF Passing
<1>.QED
  BY <1>3, <1>4

\* Who leaves takes its debt along.
LEMMA UnsubscribePassing ==
  ASSUME EmailInv, NEW s \in Subs, Unsubscribe(s)
  PROVE  Passing'
<1>1. /\ TypeOK /\ listener \in [Listeners -> ListenerRecords]
      /\ UNCHANGED inbox /\ Retire({s})
  BY DEF EmailInv, Registered, TypeOK, Unsubscribe
<1>2. CASE registered' = None
  BY <1>2, NobodyPasses
<1>3. CASE registered' # None
  <2>1. registered # None /\ registered' = registered
    BY <1>3 DEF Unsubscribe, Detach
  <2>2. registered \in Listeners /\ listener[registered] \in ListenerRecords
    BY <1>1, <2>1 DEF TypeOK
  <2>3. Become(registered, [listener[registered] EXCEPT !.subs = @ \ {s}, !.stop = @ \/ IsLast(s)])
    BY <2>1 DEF Unsubscribe, Detach
  <2>4. /\ listener'[registered].pc = listener[registered].pc
        /\ listener'[registered].validity = listener[registered].validity
        /\ listener'[registered].cursor = listener[registered].cursor
        /\ listener'[registered].upto = listener[registered].upto
        /\ listener'[registered].subs = listener[registered].subs \ {s}
    BY <1>1, <2>2, <2>3 DEF Become, ListenerRecords
  <2>5. \A t \in listener'[registered].subs : since'[t] = since[t] /\ offered'[t] = offered[t]
    BY <1>1, <2>2, <2>4 DEF Retire, ListenerRecords
  <2>.QED
    BY <1>1, <2>1, <2>4, <2>5, PassingStands
<1>.QED
  BY <1>2, <1>3

\* Everything else stands still, or ends.
LEMMA WorldPassing ==
  ASSUME EmailInv,
         \/ \E s \in Subs : BackfillFetch(s) \/ BackfillOffer(s) \/ BackfillFails(s)
         \/ Add \/ Delete \/ Close \/ CloseReturns \/ Arrive \/ Renumber \/ Restart
  PROVE  Passing'
<1>1. /\ TypeOK /\ listener \in [Listeners -> ListenerRecords]
      /\ offered \in [Subs -> SUBSET (1 .. MaxMail)]
      /\ registered # None => registered \in Listeners
  BY DEF EmailInv, Registered, TypeOK
<1>2. CASE registered' = None
  BY <1>2, NobodyPasses
<1>3. CASE registered' # None
  <2>1. UNCHANGED <<registered, inbox, since>>
    BY <1>3 DEF BackfillFetch, BackfillOffer, BackfillFails, Add, Delete, Close, CloseReturns,
       Arrive, Renumber, Restart, tables, history, EmailInv, Registered, RegisteredIsWanted,
       Mirrored
  <2>2. listener[registered] \in ListenerRecords
    BY <1>1, <1>3, <2>1
  <2>3. /\ listener'[registered].pc = listener[registered].pc
        /\ listener'[registered].validity = listener[registered].validity
        /\ listener'[registered].cursor = listener[registered].cursor
        /\ listener'[registered].upto = listener[registered].upto
        /\ listener'[registered].subs = listener[registered].subs
    <3>1. CASE Arrive
      BY <1>1, <1>3, <2>1, <2>2, <3>1 DEF Arrive, ListenerRecords
    <3>2. CASE UNCHANGED listener
      BY <3>2
    <3>.QED
      BY <1>3, <2>1, <3>1, <3>2 DEF BackfillFetch, BackfillOffer, BackfillFails, Add, Delete,
         Close, CloseReturns, Renumber, Restart
  <2>4. \A s \in Subs : offered[s] \subseteq offered'[s]
    <3>1. ASSUME NEW s \in Subs, BackfillOffer(s)
          PROVE  \A t \in Subs : offered[t] \subseteq offered'[t]
      BY <1>1, <3>1 DEF BackfillOffer, offer
    <3>2. CASE UNCHANGED offered
      BY <3>2
    <3>.QED
      BY <1>3, <3>1, <3>2 DEF BackfillFetch, BackfillFails, Add, Delete, Close, CloseReturns,
         Arrive, Renumber, Restart, tables, history
  <2>5. listener[registered].subs \subseteq Subs
    BY <2>2 DEF ListenerRecords
  <2>.QED
    BY <1>3, <2>1, <2>3, <2>4, <2>5, PassingStands
<1>.QED
  BY <1>2, <1>3

\* The manager's methods and the world keep store and inventory together; the
\* mailbox is only ever renumbered upwards.
LEMMA OthersMirrored ==
  ASSUME EmailInv,
         \/ \E s \in Subs : \/ Listen(s) \/ Unsubscribe(s)
                           \/ BackfillFetch(s) \/ BackfillOffer(s) \/ BackfillFails(s)
         \/ Add \/ Delete \/ Close \/ CloseReturns \/ Arrive \/ Renumber \/ Restart
  PROVE  Mirrored'
<1>1. /\ TypeOK /\ listener \in [Listeners -> ListenerRecords]
      /\ server \in [validity: 1 .. MaxValidity, last: 0 .. MaxMail]
      /\ registered # None => registered \in Listeners
  BY DEF EmailInv, Registered, TypeOK
<1>2. \A l \in Listeners : listener'[l].validity \in {0, listener[l].validity}
  <2>1. ASSUME NEW r \in Listeners, NEW q, Become(r, q), q.validity = listener[r].validity
        PROVE  \A l \in Listeners : listener'[l].validity = listener[l].validity
    BY <1>1, <2>1 DEF Become
  <2>2. ASSUME NEW s \in Subs, NEW r \in Listeners, NEW ss, NEW b
        PROVE  /\ [listener[r] EXCEPT !.subs = ss].validity = listener[r].validity
               /\ [listener[r] EXCEPT !.pc = "top", !.subs = ss].validity = listener[r].validity
               /\ [listener[r] EXCEPT !.subs = ss, !.stop = b].validity = listener[r].validity
               /\ [listener[r] EXCEPT !.stop = b, !.subs = ss].validity = listener[r].validity
    BY <1>1 DEF ListenerRecords
  <2>3. ASSUME NEW s \in Subs, Listen(s)
        PROVE  \A l \in Listeners : listener'[l].validity = listener[l].validity
    <3>1. CASE registered # None
      BY <1>1, <2>1, <2>2, <2>3, <3>1 DEF Listen
    <3>2. CASE registered = None
      BY <2>1, <2>2, <2>3, <3>2 DEF Listen
    <3>.QED
      BY <3>1, <3>2
  <2>4. ASSUME NEW s \in Subs, Unsubscribe(s)
        PROVE  \A l \in Listeners : listener'[l].validity = listener[l].validity
    <3>1. CASE registered # None
      <4>1. Become(registered, [listener[registered] EXCEPT !.subs = @ \ {s},
                                                           !.stop = @ \/ IsLast(s)])
        BY <2>4, <3>1 DEF Unsubscribe, Detach
      <4>2. listener[registered] \in ListenerRecords
        BY <1>1, <3>1
      <4>.QED
        BY <1>1, <3>1, <4>1, <4>2 DEF Become, ListenerRecords
    <3>2. CASE registered = None
      BY <2>4, <3>2 DEF Unsubscribe
    <3>.QED
      BY <3>1, <3>2
  <2>5. CASE Close
    <3>1. CASE registered # None
      <4>1. Become(registered, [listener[registered] EXCEPT !.stop = TRUE, !.subs = {}])
        BY <2>5, <3>1 DEF Close
      <4>2. listener[registered] \in ListenerRecords
        BY <1>1, <3>1
      <4>.QED
        BY <1>1, <3>1, <4>1, <4>2 DEF Become, ListenerRecords
    <3>2. CASE registered = None
      BY <2>5, <3>2 DEF Close
    <3>.QED
      BY <3>1, <3>2
  <2>6. CASE Arrive
    BY <1>1, <2>6 DEF Arrive, ListenerRecords
  <2>7. CASE Restart
    BY <2>7 DEF Restart, Unborn, Gone
  <2>8. CASE UNCHANGED listener
    BY <2>8
  <2>.QED
    BY <2>3, <2>4, <2>5, <2>6, <2>7, <2>8 DEF BackfillFetch, BackfillOffer, BackfillFails, Add,
       Delete, CloseReturns, Renumber
<1>3. /\ server.validity <= server'.validity /\ 1 <= server.validity
      /\ server.validity \in Nat /\ server'.validity \in Nat
  <2>1. CASE UNCHANGED server
    BY <1>1, <2>1
  <2>2. CASE Arrive \/ Renumber
    BY <1>1, <2>2 DEF Arrive, Renumber
  <2>.QED
    BY <2>1, <2>2 DEF Listen, Unsubscribe, BackfillFetch, BackfillOffer, BackfillFails, Add,
       Delete, Close, CloseReturns, Restart
<1>4. \/ UNCHANGED <<row, inbox>>
      \/ Add /\ row' = NoCursor /\ inbox' = NoCursor
      \/ Delete /\ row' = None /\ inbox' = None
  <2>1. CASE Add \/ Delete
    BY <2>1 DEF Add, Delete, Persist
  <2>2. CASE Restart
    BY <2>2 DEF Restart, EmailInv, Mirrored
  <2>.QED
    BY <2>1, <2>2 DEF Listen, Unsubscribe, BackfillFetch, BackfillOffer, BackfillFails, Close,
       CloseReturns, Arrive, Renumber
<1>5. registered' # None => inbox' # None
  <2>1. CASE Delete
    BY <2>1 DEF Delete, EmailInv, Registered, RegisteredIsWanted
  <2>2. CASE Add
    BY <2>2 DEF Add, EmailInv, Mirrored
  <2>3. CASE UNCHANGED inbox
    <3>1. registered' # None => registered # None \/ inbox # None
      BY <1>4 DEF Listen, Unsubscribe, Detach, BackfillFetch, BackfillOffer, BackfillFails, Add,
         Delete, Close, CloseReturns, Arrive, Renumber, Restart, tables
    <3>.QED
      BY <2>3, <3>1 DEF EmailInv, Mirrored
  <2>.QED
    BY <1>4, <2>1, <2>2, <2>3
<1>6. inbox' # None => inbox'.validity <= server'.validity
  <2>1. inbox # None => inbox.validity \in Nat /\ inbox.validity <= server.validity
    BY <1>1 DEF TypeOK, Cursors, EmailInv, Mirrored
  <2>.QED
    BY <1>3, <1>4, <2>1 DEF NoCursor
<1>7. \A l \in Listeners : listener'[l].validity <= server'.validity
  <2>1. \A l \in Listeners : listener[l].validity \in Nat
    BY <1>1 DEF ListenerRecords
  <2>.QED
    BY <1>2, <1>3, <2>1 DEF EmailInv, Mirrored
<1>8. row' = inbox'
  BY <1>4 DEF EmailInv, Mirrored
<1>.QED
  BY <1>5, <1>6, <1>7, <1>8 DEF Mirrored

\* The invariant holds.
LEMMA InvHolds == Spec => []EmailInv
<1>1. Init => EmailInv
  <2>1. Init => Registered
    BY InitTyped DEF Init, Registered, RegisteredIsWanted, FreshRuns, Attached, Unborn
  <2>2. Init => Mirrored
    BY DEF Init, Mirrored, Unborn, NoCursor
  <2>3. Init => Passing
    BY DEF Init, Passing, OneWriter, HandedOver, NothingSkipped, Attached
  <2>.QED
    BY <2>1, <2>2, <2>3 DEF EmailInv
<1>2. EmailInv /\ [Next]_vars => EmailInv'
  <2>1. CASE EmailInv /\ UNCHANGED vars
    BY <2>1 DEF vars, EmailInv, Registered, TypeOK, RegisteredIsWanted, FreshRuns, Mirrored,
       Passing, OneWriter, Informed, HandedOver, NothingSkipped, Attached
  <2>2. CASE EmailInv /\ Next
    <3>1. Registered'
      BY <2>2, ServeTypes, MethodTypes, WorldTypes, ServeRegistered, ListenRegistered,
         UnsubscribeRegistered, CloseRegistered, WorldRegistered DEF Next, EmailInv, Registered
    <3>2. ASSUME NEW l \in Listeners, Serve(l)
          PROVE  Mirrored' /\ Passing'
      <4>1. CASE owns(l)
        BY <2>2, <3>2, <4>1, ServeMirrored, ServePassing
      <4>2. CASE ~owns(l)
        <5>1. UNCHANGED <<inbox, since, offered>>
          BY <2>2, <3>2, <4>2, SupersededFrame
        <5>2. UNCHANGED registered /\ \A k \in Listeners \ {l} : listener'[k] = listener[k]
          BY <2>2, <3>2, ServeFrame DEF EmailInv, Registered, tables
        <5>3. CASE registered = None
          BY <2>2, <3>2, <5>2, <5>3, ServeMirrored, NobodyPasses
        <5>4. CASE registered # None
          <6>1. listener'[registered] = listener[registered]
            BY <2>2, <4>2, <5>2, <5>4 DEF EmailInv, Registered, TypeOK, owns
          <6>.QED
            BY <2>2, <3>2, <5>1, <5>2, <5>4, <6>1, ServeMirrored, PassingStands
        <5>.QED
          BY <5>3, <5>4
      <4>.QED
        BY <4>1, <4>2
    <3>3. ASSUME ~ \E l \in Listeners : Serve(l)
          PROVE  Mirrored' /\ Passing'
      BY <2>2, <3>3, OthersMirrored, ListenPassing, UnsubscribePassing, WorldPassing DEF Next
    <3>.QED
      BY <3>1, <3>2, <3>3 DEF EmailInv
  <2>.QED
    BY <2>1, <2>2
<1>.QED
  BY <1>1, <1>2, PTL DEF Spec

\* The cursor passes no mail that somebody attached was owed and not offered.
THEOREM SkipsNothing == Spec => []NothingSkipped
<1>1. EmailInv => NothingSkipped
  BY DEF EmailInv, Passing
<1>.QED
  BY <1>1, InvHolds, PTL

\* The cursors only advance, and a deleted one stays away.
THEOREM CursorAdvances == Spec => CursorStands
<1>1. ASSUME EmailInv, [Next]_vars
      PROVE  \/ UNCHANGED <<row, inbox>>
             \/ row = inbox /\ inbox # None /\ row' = inbox' /\ NotBefore(inbox', inbox)
             \/ row = None /\ inbox = None /\ row' = NoCursor
             \/ row' = None /\ inbox' = None
  <2>1. row = inbox
    BY <1>1 DEF EmailInv, Mirrored
  <2>2. CASE UNCHANGED vars
    BY <2>2 DEF vars
  <2>3. ASSUME NEW l \in Listeners, Serve(l)
        PROVE  \/ UNCHANGED <<row, inbox>>
               \/ row = inbox /\ inbox # None /\ row' = inbox' /\ NotBefore(inbox', inbox)
    <3>1. inbox # None => inbox.validity \in Nat /\ inbox.uid \in Nat
      BY <1>1 DEF EmailInv, Registered, TypeOK, Cursors
    <3>2. inbox' \in Cursors => inbox'.validity \in Nat /\ inbox'.uid \in Nat
      BY DEF Cursors
    <3>.QED
      BY <1>1, <2>1, <2>3, <3>1, <3>2, Written DEF NotBefore
  <2>4. CASE Add \/ Delete
    BY <2>1, <2>4 DEF Add, Delete, Persist
  <2>5. CASE Restart
    BY <2>1, <2>5 DEF Restart
  <2>.QED
    BY <1>1, <2>2, <2>3, <2>4, <2>5 DEF Next, Listen, Unsubscribe, BackfillFetch, BackfillOffer,
       BackfillFails, Close, CloseReturns, Arrive, Renumber
<1>2. ASSUME EmailInv, [Next]_vars
      PROVE  /\ row # None /\ row' # None => row' = row \/ NotBefore(row', row)
             /\ inbox # None /\ inbox' # None => inbox' = inbox \/ NotBefore(inbox', inbox)
             /\ row = None /\ row' # None => row' = NoCursor
  BY <1>1, <1>2
<1>3. ASSUME NEW c \in Cursors
      PROVE  NotBefore(c, c)
  <2>1. c.validity \in Nat /\ c.uid \in Nat
    BY DEF Cursors
  <2>.QED
    BY <2>1 DEF NotBefore
<1>4. EmailInv /\ [Next]_vars =>
        [/\ row # None /\ row' # None => NotBefore(row', row)
         /\ inbox # None /\ inbox' # None => NotBefore(inbox', inbox)
         /\ row = None /\ row' # None => row' = NoCursor]_vars
  <2>1. EmailInv => row \in Cursors \cup {None} /\ inbox \in Cursors \cup {None}
    BY DEF EmailInv, Registered, TypeOK
  <2>.QED
    BY <1>2, <1>3, <2>1
<1>.QED
  BY <1>4, InvHolds, PTL DEF Spec, CursorStands

=============================================================================
