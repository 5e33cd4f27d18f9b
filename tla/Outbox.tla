------------------------------- MODULE Outbox -------------------------------
(***************************************************************************)
(* The transactional outbox (shared/outbox) and the notifications it       *)
(* causes (modules/notification).  A business transaction leaves an event  *)
(* in outbox_events; pollers of the API and of the worker process read the *)
(* pending events under one advisory lock, hand each to its listener and   *)
(* mark it.  The listener writes notification rows in a transaction of its *)
(* own and then delivers them one by one.  The event library (external,    *)
(* set up in app.module.ts with its defaults) catches and logs what a      *)
(* listener throws: the poller does not see it.                            *)
(*                                                                         *)
(* The marks of a poll are written in its transaction: until it commits    *)
(* nobody else sees them, and they are lost if it dies or times out.       *)
(* Events are numbered in the order of their ids (UUID v7).                *)
(*                                                                         *)
(* Of two definitions of one thing the first is a plausible mistake: the   *)
(* second is the code's, and the specification uses no other.              *)
(***************************************************************************)
EXTENDS Integers, Sequences, FiniteSets

CONSTANTS
  NumEvents,    \* bound: events of the aggregate
  Pollers,      \* poll() callbacks that may run, of every instance
  Recipients,   \* (user, channel) pairs an event is addressed to
  None,
  BatchSize,    \* BATCH_SIZE
  MaxFaults,    \* bound: database errors met by listeners and polls
  MaxCrashes,   \* bound: pollers killed half-way
  MaxExpiries   \* bound: poll transactions that outlive the transaction timeout

ASSUME EventsAssumption == NumEvents \in Nat
ASSUME NoneAssumption == None \notin Pollers
ASSUME SizesAssumption == BatchSize \in Nat \ {0}

Events == 1..NumEvents

VARIABLES
  status,    \* of each event: "NONE" before it exists, then the column
  lock,      \* the poller that holds the advisory lock, or None
  pc,        \* where each poller is
  loc,       \* its batch, its transaction and its current delivery
  notes,     \* of each event: the batches of notification rows written for it
  thrown,    \* history: the events whose listener has thrown
  faults, crashes, expiries

bounds == <<faults, crashes, expiries>>
vars   == <<status, lock, pc, loc, notes, thrown, bounds>>

Pending == {e \in Events : status[e] = "PENDING"}

\* `batch' is what is left of it and `event' the one at its listener; `pub' are
\* the marks made so far in the transaction, `open' while it lives; `nth' and
\* `todo' are the rows being delivered.
Blank == [batch |-> {}, event |-> 0, open |-> FALSE, pub |-> {}, nth |-> 0, todo |-> {}]

Current(i) == loc[i].event

Goto(i, label, l) ==
  /\ pc' = [pc EXCEPT ![i] = label]
  /\ loc' = [loc EXCEPT ![i] = l]

Init ==
  /\ status = [e \in Events |-> "NONE"]
  /\ lock = None
  /\ pc = [i \in Pollers |-> "idle"]
  /\ loc = [i \in Pollers |-> Blank]
  /\ notes = [e \in Events |-> <<>>] /\ thrown = {}
  /\ faults = 0 /\ crashes = 0 /\ expiries = 0

\* A business transaction commits with its event (OutboxService.enqueue).  The
\* events of one aggregate follow each other.
Enqueue(e) ==
  /\ status[e] = "NONE"
  /\ \A d \in Events : d < e => status[d] # "NONE"
  /\ status' = [status EXCEPT ![e] = "PENDING"]
  /\ UNCHANGED <<lock, pc, loc, notes, thrown, bounds>>

-----------------------------------------------------------------------------
(* poll *)

\* The events read, in the order of their ids.  All that are pending are due:
\* nothing moves availableAt into the future (Catch).
FirstPending == {e \in Pending : Cardinality({d \in Pending : d < e}) < BatchSize}

Latest(e, batch) == e \in batch /\ \A d \in batch : d <= e
Earliest(e, batch) == e \in batch /\ \A d \in batch : e <= d

\* pg_try_advisory_xact_lock: free, so this poll goes on.
LockIsFree == lock = None

\* A poll that finds nothing to publish changes nothing and is not a step.
Poll(i) ==
  /\ pc[i] = "idle"
  /\ LockIsFree
  /\ FirstPending # {}
  /\ lock' = i
  /\ Goto(i, "next", [Blank EXCEPT !.batch = FirstPending, !.open = TRUE])
  /\ UNCHANGED <<status, notes, thrown, bounds>>

\* The lock ends with the transaction, not with the session.
HeldBySession(i) == lock
Released(i) == IF loc[i].open THEN None ELSE lock

\* emitAsync: the listener of the event's type runs.
Emit(i) ==
  /\ pc[i] = "next"
  /\ \E e \in loc[i].batch :
       /\ Earliest(e, loc[i].batch)
       /\ Goto(i, "lookup", [loc[i] EXCEPT !.batch = @ \ {e}, !.event = e])
  /\ UNCHANGED <<status, lock, notes, thrown, bounds>>

\* The update to PUBLISHED is in the poll's transaction.  It throws if that has
\* timed out or the database fails.
MarkPublished(i) ==
  /\ pc[i] = "resolved"
  /\ \/ /\ loc[i].open
        /\ Goto(i, "next", [loc[i] EXCEPT !.pub = @ \cup {Current(i)}, !.event = 0, !.nth = 0, !.todo = {}])
        /\ UNCHANGED faults
     \/ /\ loc[i].open => faults < MaxFaults
        /\ faults' = IF loc[i].open THEN faults + 1 ELSE faults
        /\ Goto(i, "catch", loc[i])
  /\ UNCHANGED <<status, lock, notes, thrown, crashes, expiries>>

\* The catch block is reached by an update that threw, never by a listener: its own
\* update (attempts, availableAt, FAILED) is in the same transaction, which is gone
\* or aborted, and throws too.  The poll is over and leaves no trace.
Catch(i) ==
  /\ pc[i] = "catch"
  /\ lock' = Released(i)
  /\ Goto(i, "idle", Blank)
  /\ UNCHANGED <<status, notes, thrown, bounds>>

\* The table once a poll's marks are committed.
CommittedStatus(l) == [e \in Events |-> IF e \in l.pub THEN "PUBLISHED" ELSE status[e]]

CommitLost(i) == TRUE
CommitHolds(i) == loc[i].open

Commit(i) ==
  LET l == loc[i] IN
  /\ pc[i] = "next"
  /\ l.batch = {}
  /\ status' = IF CommitHolds(i) THEN CommittedStatus(l) ELSE status
  /\ lock' = Released(i)
  /\ Goto(i, "idle", Blank)
  /\ UNCHANGED <<notes, thrown, bounds>>

\* The nightly cleanup of events published long ago.
Cleanup ==
  \E old \in SUBSET {e \in Events : status[e] = "PUBLISHED"} :
    /\ old # {}
    /\ status' = [e \in Events |-> IF e \in old THEN "DELETED" ELSE status[e]]
    /\ UNCHANGED <<lock, pc, loc, notes, thrown, bounds>>

-----------------------------------------------------------------------------
(* notifyUsers *)

\* The rows of this event for these users exist.
AlreadyNotified(e) == notes[e] # <<>>

\* createBatchIdempotent, first query.
Lookup(i) ==
  /\ pc[i] = "lookup"
  /\ Goto(i, IF AlreadyNotified(Current(i)) THEN "resolved" ELSE "insert", loc[i])
  /\ UNCHANGED <<status, lock, notes, thrown, bounds>>

\* createBatchIdempotent, second query and commit.
Insert(i) ==
  LET e == Current(i) IN
  /\ pc[i] = "insert"
  /\ notes' = [notes EXCEPT ![e] = Append(@, [r \in Recipients |-> "new"])]
  /\ Goto(i, "dispatch", [loc[i] EXCEPT !.nth = Len(notes[e]) + 1, !.todo = Recipients])
  /\ UNCHANGED <<status, lock, thrown, bounds>>

\* A database error: the listener throws, on purpose, for the poller to retry; the
\* library takes the exception and emitAsync resolves.
ListenerFails(i) ==
  /\ pc[i] \in {"lookup", "insert"}
  /\ faults < MaxFaults
  /\ faults' = faults + 1
  /\ thrown' = thrown \cup {Current(i)}
  /\ Goto(i, "resolved", loc[i])
  /\ UNCHANGED <<status, lock, notes, crashes, expiries>>

\* dispatch: one row is sent or marked failed; a failed delivery is swallowed.
\* If even the mark fails the row stays as it is.
DispatchRest(i, r) == loc[i].todo \ {r}

Dispatch(i) ==
  /\ pc[i] = "dispatch"
  /\ \E r \in loc[i].todo, mark \in {"sent", "failed", "new"} :
       /\ mark = "new" => faults < MaxFaults
       /\ faults' = IF mark = "new" THEN faults + 1 ELSE faults
       /\ notes' = [notes EXCEPT ![Current(i)][loc[i].nth][r] = mark]
       /\ Goto(i, "dispatch", [loc[i] EXCEPT !.todo = DispatchRest(i, r)])
  /\ UNCHANGED <<status, lock, thrown, crashes, expiries>>

DispatchEnds(i) ==
  /\ pc[i] = "dispatch"
  /\ loc[i].todo = {}
  /\ Goto(i, "resolved", loc[i])
  /\ UNCHANGED <<status, lock, notes, thrown, bounds>>

-----------------------------------------------------------------------------
(* The environment. *)

\* The process of a poller is killed: its transaction rolls back.
Crash(i) ==
  /\ pc[i] # "idle"
  /\ crashes < MaxCrashes
  /\ crashes' = crashes + 1
  /\ lock' = Released(i)
  /\ Goto(i, "idle", Blank)
  /\ UNCHANGED <<status, notes, thrown, faults, expiries>>

\* The transaction outlives its timeout and is rolled back under the callback,
\* which goes on with the listener it is awaiting.
Expire(i) ==
  /\ pc[i] # "idle" /\ loc[i].open
  /\ expiries < MaxExpiries
  /\ expiries' = expiries + 1
  /\ lock' = Released(i)
  /\ loc' = [loc EXCEPT ![i].open = FALSE]
  /\ UNCHANGED <<status, pc, notes, thrown, faults, crashes>>

Advance(i) ==
  \/ Emit(i) \/ MarkPublished(i) \/ Catch(i) \/ Commit(i)
  \/ Lookup(i) \/ Insert(i) \/ Dispatch(i) \/ DispatchEnds(i)

Next ==
  \/ \E e \in Events : Enqueue(e)
  \/ \E i \in Pollers : Poll(i) \/ Advance(i) \/ ListenerFails(i) \/ Crash(i) \/ Expire(i)
  \/ Cleanup

Spec == Init /\ [][Next]_vars

\* Every instance polls every 500 ms and an await returns.
Fairness == \A i \in Pollers : WF_vars(Poll(i)) /\ WF_vars(Advance(i))

FairSpec == Spec /\ Fairness

-----------------------------------------------------------------------------
(* Properties. *)

Statuses == {"NONE", "PENDING", "PUBLISHED", "DELETED"}
Labels == {"idle", "next", "lookup", "insert", "dispatch", "resolved", "catch"}
NoteRows == [Recipients -> {"new", "sent", "failed"}]
Locals == [batch : SUBSET Events, event : 0..NumEvents, open : BOOLEAN,
           pub : SUBSET Events, nth : Nat, todo : SUBSET Recipients]

\* The table, the pollers and the notification rows are well formed.
TypeOK ==
  /\ status \in [Events -> Statuses]
  /\ lock \in Pollers \cup {None}
  /\ pc \in [Pollers -> Labels]
  /\ loc \in [Pollers -> Locals]
  /\ notes \in [Events -> Seq(NoteRows)]
  /\ thrown \subseteq Events
  /\ faults \in Nat /\ crashes \in Nat /\ expiries \in Nat

\* However often an event is delivered, its recipients are notified once
\* (createBatchIdempotent).
NotifiedOnce == \A e \in Events : Len(notes[e]) <= 1

\* The advisory lock makes the check before the insert safe, as long as no poll
\* outlives its transaction.
OnceUnderOneLock == expiries = 0 => NotifiedOnce

Closed(e) == status[e] \in {"PUBLISHED", "DELETED"}

\* An event is published only after its listener did its work: a listener that
\* failed leaves the event pending (OutboxPublisher.poll, notifyUsers).
PublishedWasHandled == \A e \in Events : Closed(e) => notes[e] # <<>>

\* That is what the code gives: the only way to lose an event is an exception of
\* its own listener.  No process that dies, transaction that expires or is aborted,
\* overlapping poll or failure at another event does.
LostOnlyByThrowing == \A e \in Events : Closed(e) => notes[e] # <<>> \/ e \in thrown

\* The rows of a published event were all sent or marked failed (dispatch).
PublishedIsDelivered ==
  \A e \in Events : Closed(e) =>
    \A n \in 1..Len(notes[e]), r \in Recipients : notes[e][n][r] # "new"

\* A later event of an aggregate is not acted on before an earlier one (ORDER BY id,
\* one publisher).
NoticesInOrder ==
  \A d, e \in Events : d < e /\ notes[e] # <<>> => notes[d] # <<>>

\* That is what the code gives: only an exception of the earlier one's listener lets
\* a later event overtake, neither a killed process nor a lost transaction.
InOrderUnlessThrown ==
  \A d, e \in Events : d < e /\ notes[e] # <<>> => notes[d] # <<>> \/ d \in thrown

\* A recipient hears of an event once, unless a poll outlived its transaction; of the
\* events of an aggregate in their order and of every published one, but for those
\* whose own listener threw.
OnceAndInOrder == TypeOK /\ OnceUnderOneLock /\ InOrderUnlessThrown /\ LostOnlyByThrowing

\* An event is settled once: a poll whose transaction is gone cannot bring back an
\* event that another poll published and the cleanup deleted, nor reopen one.
SettledOnce ==
  [][\A e \in Events : /\ Closed(e) => Closed(e)'
                       /\ status[e] = "DELETED" => status'[e] = "DELETED"]_vars

\* No event stays pending for ever: it is published in the end.
EveryEventSettles == \A e \in Events : status[e] = "PENDING" ~> Closed(e)
=============================================================================
