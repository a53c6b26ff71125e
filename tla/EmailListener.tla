---------------------------- MODULE EmailListener ----------------------------
(***************************************************************************)
(* One inbox of the email manager (email/manager.go, email/listener.go):   *)
(* the subscriptions on it, the listener that serves them, the durable     *)
(* cursor that says which mail has been handed on, and the mail server.    *)
(*                                                                         *)
(* A listener is established by the first Listen and stopped by the last   *)
(* Close of a subscription; its goroutine ends later, when it notices.  So *)
(* several listeners of one inbox may run at a time, of which at most one  *)
(* is registered and speaks for the inbox.  Sections under the manager's   *)
(* mutex and calls to the server are one step each.                        *)
(*                                                                         *)
(* Mail is its UID.  Whom it is from, and whether the channel it is        *)
(* offered to is full, are not told apart: offered is what a subscription  *)
(* was offered, whatever its filter or its buffer made of it.  Neither     *)
(* ever blocks the offer.                                                  *)
(***************************************************************************)
EXTENDS Naturals, FiniteSets

CONSTANTS
  Subs,          \* subscriptions, each the result of one Listen
  MaxListeners,  \* bound: listeners ever established
  MaxMail,       \* bound: messages in the mailbox
  MaxValidity,   \* bound: times the mailbox is renumbered, plus one
  MaxFaults,     \* bound: failures of the server and of the repository
  CanBackfill,   \* subscriptions may ask for a backfill
  CanCrash,      \* the process may crash
  Interval,      \* Idle also returns when idleInterval has passed
  None           \* no email, no listener

ASSUME BoundsAssumption ==
  /\ MaxListeners \in Nat /\ MaxFaults \in Nat
  /\ MaxMail \in Nat \ {0} /\ MaxValidity \in Nat \ {0}
ASSUME FlagsAssumption ==
  CanBackfill \in BOOLEAN /\ CanCrash \in BOOLEAN /\ Interval \in BOOLEAN
ASSUME NoneAssumption == None \notin 1 .. MaxListeners /\ None \notin [validity: Nat, uid: Nat]

Listeners == 1 .. MaxListeners

\* A mailbox numbers its mail by UID, anew with each UIDVALIDITY.
Cursors == [validity: 0 .. MaxValidity, uid: 0 .. MaxMail]
NoCursor == [validity |-> 0, uid |-> 0]

\* pc is the next thing the goroutine does.  A session is open from "select"
\* on: validity is what Select said, cursor the UID last read off the
\* inventory, upto the highest UID that Select or the last fetch saw, wake
\* whether an update is kept for Idle.
ListenerRecords ==
  [pc: {"unborn", "top", "select", "reconcile", "reset", "read", "fetch", "fanout",
        "advance", "idle", "backoff", "gone"},
   stop: BOOLEAN, subs: SUBSET Subs, validity: 0 .. MaxValidity,
   cursor: 0 .. MaxMail, upto: 0 .. MaxMail, wake: BOOLEAN]

Unborn == [pc |-> "unborn", stop |-> FALSE, subs |-> {}, validity |-> 0,
           cursor |-> 0, upto |-> 0, wake |-> FALSE]
Gone == [Unborn EXCEPT !.pc = "gone", !.stop = TRUE]

BackfillRecords ==
  [pc: {"none", "fetch", "offer"}, validity: 0 .. MaxValidity, upto: 0 .. MaxMail]
NoBackfill == [pc |-> "none", validity |-> 0, upto |-> 0]

VARIABLES
  server,     \* the mailbox: its UIDVALIDITY and its last UID
  row,        \* the cursor in the repository's row of the email, or None
  inbox,      \* the cursor in the inventory's entry of the email, or None
  registered, \* m.listeners: the inbox's listener, or None
  listener,   \* every listener ever established
  channel,    \* the state of each subscription's channel
  backfill,   \* the backfill of each subscription
  closing,    \* the manager's Close: how far it is, the listener it waits for
  faults,     \* failures still to come
  offered,    \* history: the mail, numbered as the cursor is, offered to an open channel
  since       \* history: the mail an open channel is owed comes after this

vars == <<server, row, inbox, registered, listener, channel, backfill,
          closing, faults, offered, since>>
\* What only the manager's own methods touch.
tables == <<registered, channel, backfill, closing>>
history == <<offered, since>>

TypeOK ==
  /\ server \in [validity: 1 .. MaxValidity, last: 0 .. MaxMail]
  /\ row \in Cursors \cup {None}
  /\ inbox \in Cursors \cup {None}
  /\ registered \in Listeners \cup {None}
  /\ listener \in [Listeners -> ListenerRecords]
  /\ channel \in [Subs -> {"unborn", "open", "closed"}]
  /\ backfill \in [Subs -> BackfillRecords]
  /\ closing \in [pc: {"idle", "waiting", "returned"}, wait: Listeners \cup {None}]
  /\ faults \in 0 .. MaxFaults
  /\ offered \in [Subs -> SUBSET (1 .. MaxMail)]
  /\ since \in [Subs -> Cursors]

\* The inbox was just added, the mailbox may already hold mail.
Init ==
  /\ server \in [validity: {1}, last: 0 .. 1]
  /\ row = NoCursor
  /\ inbox = NoCursor
  /\ registered = None
  /\ listener = [l \in Listeners |-> Unborn]
  /\ channel = [s \in Subs |-> "unborn"]
  /\ backfill = [s \in Subs |-> NoBackfill]
  /\ closing = [pc |-> "idle", wait |-> None]
  /\ faults = MaxFaults
  /\ offered = [s \in Subs |-> {}]
  /\ since = [s \in Subs |-> NoCursor]

-----------------------------------------------------------------------------
(* The listener's goroutine: run and serveOnce.                            *)

owns(l) == registered = l

\* What cursor finds: ok is this.
Readable(l) == inbox # None /\ owns(l)

\* l is left with the record r.
Become(l, r) == listener' = [listener EXCEPT ![l] = r]

Goto(l, pc) == Become(l, [listener[l] EXCEPT !.pc = pc])

\* serveOnce returns; the session is closed.
HangUp(l) ==
  Become(l, [listener[l] EXCEPT !.pc = "backoff", !.validity = 0, !.cursor = 0,
                                !.upto = 0, !.wake = FALSE])

\* The loop goes on without what the last fetch saw.
Continue(l, pc) == Become(l, [listener[l] EXCEPT !.pc = pc, !.cursor = 0, !.upto = 0])

\* Why a call to the server fails: stopping cancelled its context, the mailbox
\* was renumbered under the session, or something broke.
CallFails(l, spent) ==
  \/ /\ listener[l].stop \/ (spent /\ listener[l].validity # server.validity)
     /\ UNCHANGED faults
  \/ /\ faults > 0
     /\ faults' = faults - 1

\* The top of the loop: check stop, then dial.
Begin(l) ==
  /\ listener[l].pc = "top"
  /\ IF listener[l].stop THEN Become(l, Gone) ELSE Goto(l, "select")
  /\ UNCHANGED <<server, row, inbox, tables, faults, history>>

\* What Select reports, one below UIDNEXT.
LastUID == server.last

Select(l) ==
  /\ listener[l].pc = "select"
  /\ Become(l, [listener[l] EXCEPT !.pc = "reconcile", !.validity = server.validity,
                                   !.upto = LastUID])
  /\ UNCHANGED <<server, row, inbox, tables, faults, history>>

\* Read the cursor and compare its validity with the session's.
Reconcile(l) ==
  /\ listener[l].pc = "reconcile"
  /\ \/ ~Readable(l) /\ HangUp(l)
     \/ Readable(l) /\ inbox.validity # listener[l].validity /\ Goto(l, "reset")
     \/ Readable(l) /\ inbox.validity = listener[l].validity /\ Continue(l, "read")
  /\ UNCHANGED <<server, row, inbox, tables, faults, history>>

\* What advanceCursor writes.
Advanced(l, reset) ==
  [validity |-> listener[l].validity,
   uid |-> IF reset \/ listener[l].upto > inbox.uid THEN listener[l].upto ELSE inbox.uid]

\* Slip: the listener writes the cursor whether or not it owns the inbox.
StaleWriter(l) == inbox # None

\* Whether advanceCursor writes at all.
MayWrite(l) == inbox # None /\ owns(l)

\* The repository's statements: an upsert of the row, and its deletion.
SaveEmail(c) == row' = c
DropEmail == row' = None

\* Slip: the inventory is updated and the row is not.
InstallOnly(c) == inbox' = c /\ UNCHANGED row

\* Store first; what is stored is installed.
Persist(c) == SaveEmail(c) /\ inbox' = c

advanceCursor(l, reset) ==
  IF MayWrite(l) THEN Persist(Advanced(l, reset)) ELSE UNCHANGED <<row, inbox>>

\* Jump to the present of a renumbered mailbox: older mail is owed to nobody.
Reset(l) ==
  /\ listener[l].pc = "reset"
  /\ advanceCursor(l, TRUE)
  /\ since' = [s \in Subs |->
                 IF MayWrite(l) /\ s \in listener[l].subs THEN Advanced(l, TRUE) ELSE since[s]]
  /\ offered' = [s \in Subs |-> IF MayWrite(l) THEN {} ELSE offered[s]]
  /\ Continue(l, "read")
  /\ UNCHANGED <<server, tables, faults>>

\* The loop: read the cursor, fetch past it, hand over, advance, idle.
Read(l) ==
  /\ listener[l].pc = "read"
  /\ \/ ~Readable(l) /\ HangUp(l)
     \/ Readable(l) /\ Become(l, [listener[l] EXCEPT !.pc = "fetch", !.cursor = inbox.uid])
  /\ UNCHANGED <<server, row, inbox, tables, faults, history>>

\* FetchSince: the mail numbered above the cursor that was read.
Fetch(l) ==
  /\ listener[l].pc = "fetch"
  /\ listener[l].validity = server.validity
  /\ Become(l, [listener[l] EXCEPT !.pc = "fanout", !.upto = server.last])
  /\ UNCHANGED <<server, row, inbox, tables, faults, history>>

Fetched(l) ==
  {u \in 1 .. MaxMail : listener[l].cursor < u /\ u <= listener[l].upto}

\* Mail for an open channel; nothing reaches a closed one.
offer(s, validity, uids) ==
  IF channel[s] = "open" /\ inbox # None /\ inbox.validity = validity
  THEN offered[s] \cup uids
  ELSE offered[s]

fanout(l) ==
  offered' = [s \in Subs |->
                IF s \in listener[l].subs THEN offer(s, listener[l].validity, Fetched(l))
                ELSE offered[s]]

Fanout(l) ==
  /\ listener[l].pc = "fanout"
  /\ \/ ~owns(l) /\ HangUp(l) /\ UNCHANGED offered
     \/ /\ owns(l)
        /\ fanout(l)
        /\ IF Fetched(l) # {} THEN Goto(l, "advance") ELSE Continue(l, "idle")
  /\ UNCHANGED <<server, row, inbox, tables, faults, since>>

Advance(l) ==
  /\ listener[l].pc = "advance"
  /\ advanceCursor(l, FALSE)
  /\ Continue(l, "idle")
  /\ UNCHANGED <<server, tables, faults, history>>

\* The repository refuses the cursor: nothing is installed, the session ends.
SaveFails(l) ==
  /\ listener[l].pc \in {"reset", "advance"}
  /\ MayWrite(l)
  /\ faults > 0
  /\ faults' = faults - 1
  /\ HangUp(l)
  /\ UNCHANGED <<server, row, inbox, tables, history>>

\* Idle returns: for an update that is kept, or because the interval passed.
IdleReturns(l) ==
  /\ listener[l].pc = "idle"
  /\ listener[l].wake \/ Interval
  /\ Become(l, [listener[l] EXCEPT !.pc = "read", !.wake = FALSE])
  /\ UNCHANGED <<server, row, inbox, tables, faults, history>>

SessionBreaks(l) ==
  /\ \/ listener[l].pc \in {"select", "fetch", "idle"}
     \/ listener[l].pc = "top" /\ ~listener[l].stop
  /\ CallFails(l, listener[l].pc \in {"fetch", "idle"})
  /\ HangUp(l)
  /\ UNCHANGED <<server, row, inbox, tables, history>>

\* The pause between sessions, cut short by stop.
Backoff(l) ==
  /\ listener[l].pc = "backoff"
  /\ \/ listener[l].stop /\ Become(l, Gone)
     \/ Goto(l, "top")
  /\ UNCHANGED <<server, row, inbox, tables, faults, history>>

Serve(l) ==
  \/ Begin(l) \/ Select(l) \/ Reconcile(l) \/ Reset(l) \/ Read(l) \/ Fetch(l)
  \/ Fanout(l) \/ Advance(l) \/ SaveFails(l) \/ IdleReturns(l) \/ SessionBreaks(l) \/ Backoff(l)

-----------------------------------------------------------------------------
(* The manager's methods, each under its mutex.                            *)

\* Mail above this is owed to a subscription that starts now: all that the
\* cursor has not passed, less what the listener has just handed over.
Owed ==
  IF registered # None /\ listener[registered].pc = "advance"
  THEN [inbox EXCEPT !.uid = listener[registered].upto]
  ELSE inbox

Listen(s) ==
  /\ channel[s] = "unborn"
  /\ closing.pc = "idle"
  /\ inbox # None
  /\ channel' = [channel EXCEPT ![s] = "open"]
  /\ since' = [since EXCEPT ![s] = Owed]
  /\ \/ /\ registered # None
        /\ Become(registered, [listener[registered] EXCEPT !.subs = @ \cup {s}])
        /\ UNCHANGED registered
     \/ /\ registered = None
        /\ \E l \in Listeners :
             /\ \A k \in Listeners : listener[k].pc = "unborn" <=> k >= l
             /\ registered' = l
             /\ Become(l, [listener[l] EXCEPT !.pc = "top", !.subs = {s}])
  /\ \E wanted \in {FALSE, CanBackfill} :
       backfill' = IF wanted THEN [backfill EXCEPT ![s].pc = "fetch"] ELSE backfill
  /\ UNCHANGED <<server, row, inbox, closing, faults, offered>>

\* Whether a listener that loses s has lost its last subscription.
IsLast(s) == listener[registered].subs \subseteq {s}

\* Slip: the listener is stopped and stays registered.
StaysRegistered(s) ==
  /\ Become(registered, [listener[registered] EXCEPT !.subs = @ \ {s}, !.stop = @ \/ IsLast(s)])
  /\ UNCHANGED registered

\* s leaves the registered listener, which ends with its last subscription.
Detach(s) ==
  /\ Become(registered, [listener[registered] EXCEPT !.subs = @ \ {s}, !.stop = @ \/ IsLast(s)])
  /\ registered' = IF IsLast(s) THEN None ELSE registered

\* The channels of ss are closed; what they were offered is history.
Retire(ss) ==
  /\ channel' = [s \in Subs |-> IF s \in ss THEN "closed" ELSE channel[s]]
  /\ offered' = [s \in Subs |-> IF s \in ss THEN {} ELSE offered[s]]
  /\ since' = [s \in Subs |-> IF s \in ss THEN NoCursor ELSE since[s]]

\* Close of a subscription, which may come twice or after the manager's.
Unsubscribe(s) ==
  /\ channel[s] # "unborn"
  /\ IF registered # None THEN Detach(s) ELSE UNCHANGED <<listener, registered>>
  /\ Retire({s})
  /\ UNCHANGED <<server, row, inbox, backfill, closing, faults>>

Add ==
  /\ inbox = None
  /\ Persist(NoCursor)
  /\ UNCHANGED <<server, registered, listener, channel, backfill, closing, faults, history>>

\* Delete refuses while somebody listens.  (It also refuses while an account
\* that forwards to the inbox is leased, and it may be closed.)
Delete ==
  /\ inbox # None
  /\ registered # None => listener[registered].subs = {}
  /\ DropEmail /\ inbox' = None
  /\ UNCHANGED <<server, registered, listener, channel, backfill, closing, faults, history>>

\* Close of the manager stops and forgets the listener and then waits for it.
Close ==
  /\ closing.pc = "idle"
  /\ closing' = [pc |-> "waiting", wait |-> registered]
  /\ IF registered # None
     THEN /\ Become(registered, [listener[registered] EXCEPT !.stop = TRUE, !.subs = {}])
          /\ Retire(listener[registered].subs)
          /\ registered' = None
     ELSE UNCHANGED <<listener, registered, channel, history>>
  /\ UNCHANGED <<server, row, inbox, backfill, faults>>

CloseReturns ==
  /\ closing.pc = "waiting"
  /\ closing.wait # None => listener[closing.wait].pc = "gone"
  /\ \A s \in Subs : backfill[s].pc = "none"
  /\ closing' = [pc |-> "returned", wait |-> None]
  /\ UNCHANGED <<server, row, inbox, registered, listener, channel, backfill, faults, history>>

-----------------------------------------------------------------------------
(* Backfills, each a goroutine and a session of its own.                   *)

BackfillFetch(s) ==
  /\ backfill[s].pc = "fetch"
  /\ backfill' = [backfill EXCEPT ![s] = [pc |-> "offer", validity |-> server.validity,
                                          upto |-> server.last]]
  /\ UNCHANGED <<server, row, inbox, registered, listener, channel, closing, faults, history>>

BackfillOffer(s) ==
  /\ backfill[s].pc = "offer"
  /\ offered' = [offered EXCEPT ![s] =
                   offer(s, backfill[s].validity, 1 .. backfill[s].upto)]
  /\ backfill' = [backfill EXCEPT ![s] = NoBackfill]
  /\ UNCHANGED <<server, row, inbox, registered, listener, channel, closing, faults, since>>

\* Slip: the manager's Close does not reach the backfill.
NeverCancelled(s) == FALSE

\* Close has closed m.closing, which the backfill's watcher waits for.
Cancelled(s) == closing.pc # "idle"

\* Cancelled, or failed: the end of the context given to Listen is one failure.
BackfillFails(s) ==
  /\ backfill[s].pc = "fetch"
  /\ \/ Cancelled(s) /\ UNCHANGED faults
     \/ faults > 0 /\ faults' = faults - 1
  /\ backfill' = [backfill EXCEPT ![s] = NoBackfill]
  /\ UNCHANGED <<server, row, inbox, registered, listener, channel, closing, history>>

-----------------------------------------------------------------------------
(* The world.                                                              *)

Selected == {"reconcile", "reset", "read", "fetch", "fanout", "advance", "idle"}

\* Slip: an update that comes outside Idle is lost.
HeardIdling(l) == listener[l].pc = "idle" /\ listener[l].validity = server.validity

\* An update reaches every session of the mailbox, and is kept.
Hears(l) == listener[l].pc \in Selected /\ listener[l].validity = server.validity

Arrive ==
  /\ server.last < MaxMail
  /\ server' = [server EXCEPT !.last = @ + 1]
  /\ listener' = [l \in Listeners |->
                    [listener[l] EXCEPT !.wake = @ \/ Hears(l)]]
  /\ UNCHANGED <<row, inbox, tables, faults, history>>

\* The server numbers the mail that is left anew, and drops its sessions.
Renumber ==
  /\ server.validity < MaxValidity
  /\ \E last \in 0 .. server.last :
       server' = [validity |-> server.validity + 1, last |-> last]
  /\ UNCHANGED <<row, inbox, tables, listener, faults, history>>

\* The process ends; a new one loads the inventory.
Restart ==
  /\ CanCrash
  /\ inbox' = row
  /\ registered' = None
  /\ listener' = [l \in Listeners |-> IF listener[l].pc = "unborn" THEN Unborn ELSE Gone]
  /\ backfill' = [s \in Subs |-> NoBackfill]
  /\ closing' = [pc |-> "idle", wait |-> None]
  /\ Retire({s \in Subs : channel[s] # "unborn"})
  /\ UNCHANGED <<server, row, faults>>

Next ==
  \/ \E l \in Listeners : Serve(l)
  \/ \E s \in Subs :
       Listen(s) \/ Unsubscribe(s) \/ BackfillFetch(s) \/ BackfillOffer(s) \/ BackfillFails(s)
  \/ Add \/ Delete \/ Close \/ CloseReturns
  \/ Arrive \/ Renumber \/ Restart

\* A listener's goroutine runs and the server answers it; a backfill's runs
\* when it need not wait for the server: nothing says that its calls return.
Fairness ==
  /\ \A l \in Listeners : WF_vars(Serve(l))
  /\ \A s \in Subs : WF_vars(BackfillOffer(s) \/ BackfillFails(s))
  /\ WF_vars(CloseReturns)

Spec == Init /\ [][Next]_vars
FairSpec == Spec /\ Fairness

-----------------------------------------------------------------------------
(* Properties.                                                             *)

Attached(s) == registered # None /\ s \in listener[registered].subs

(* The registered listener has not been stopped and somebody wants it, and a  *)
(* channel is open exactly while it is in that listener's set: else a Close   *)
(* would close a channel or a stop twice, which panics, a subscription would  *)
(* wait on a listener that has ended, or mail be sent on a closed channel.    *)
RegisteredIsWanted ==
  /\ registered # None =>
       /\ listener[registered].pc \notin {"unborn", "gone"}
       /\ ~listener[registered].stop
       /\ listener[registered].subs # {}
  /\ \A s \in Subs : channel[s] = "open" <=> Attached(s)
  /\ \A l \in Listeners : l # registered => listener[l].subs = {}

(* The cursor passes no mail that an attached subscription was owed and has    *)
(* not been offered: across a superseded listener's last writes, failures to  *)
(* save, subscriptions that join between the fan-out and the advance, deleted *)
(* and added again.                                                            *)
NothingSkipped ==
  \A s \in Subs : Attached(s) /\ inbox # None /\ since[s].validity = inbox.validity =>
    \A u \in 1 .. MaxMail :
      since[s].uid < u /\ u <= inbox.uid => u \in offered[s]

(* Neither the stored cursor nor the manager's goes back, a restart included,  *)
(* although listeners that have been replaced still hold older ones; and a     *)
(* deleted row is not written back by a listener that is dying.                *)
NotBefore(new, old) ==
  \/ new.validity > old.validity
  \/ new.validity = old.validity /\ new.uid >= old.uid

CursorStands ==
  [][/\ row # None /\ row' # None => NotBefore(row', row)
     /\ inbox # None /\ inbox' # None => NotBefore(inbox', inbox)
     /\ row = None /\ row' # None => row' = NoCursor]_vars

\* Something of the mailbox's current mail is still to be offered to s.
Behind(s) ==
  /\ Attached(s)
  /\ \/ inbox.validity # server.validity
     \/ \E u \in 1 .. server.last :
          /\ since[s].validity = inbox.validity => since[s].uid < u
          /\ u \notin offered[s]

(* A subscription that stays is offered everything it is owed, when the server *)
(* and the repository fail finitely often: no update is lost between a fetch   *)
(* and the next Idle, and every way a session can end leads to a new one.      *)
MailArrives == \A s \in Subs : Behind(s) ~> ~Behind(s)

(* A stopped listener hangs up, and the manager's Close returns, even though a *)
(* backfill may be waiting for a server that never answers.                     *)
GoroutinesEnd ==
  /\ \A l \in Listeners : listener[l].stop ~> listener[l].pc = "gone"
  /\ closing.pc = "waiting" ~> closing.pc # "waiting"
=============================================================================
