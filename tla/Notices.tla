------------------------------ MODULE Notices ------------------------------
(***************************************************************************)
(* Who is told of what, and what he reads of it (modules/notification).    *)
(* An event reaches its listener through the outbox, which may bring it    *)
(* again, even while the first delivery is under way, if the transaction   *)
(* of the poll times out (Outbox), or, the end of a game, by the emitter,  *)
(* once.                                                                   *)
(* The listener asks whom the event concerns, then which of their          *)
(* addresses are confirmed, writes one row for each channel and sends them *)
(* one after the other.  The rows of the channel IN_APP are the inbox: a   *)
(* user reads it page by page while more arrive.                           *)
(*                                                                         *)
(* Ids (UUID v7) are given when a transaction writes and seen when it      *)
(* commits.  Templates and languages are left out, as is an aborted game,  *)
(* of which nobody is told; mail is set up, SMS is not.                    *)
(***************************************************************************)
EXTENDS Integers, Sequences, FiniteSets, SequencesExt, FiniteSetsExt

CONSTANTS
  Users, me, accused, \* he who reads his inbox; he whose case is opened
  Tasks,      \* listeners under way
  Null,
  PageSize,   \* `first' of a list
  MaxEvents,  \* bound: events
  MaxChanges, \* bound: withdrawals, roles given and taken, addresses confirmed
  MaxFaults   \* bound: failed queries and letters, deaths, polls that time out

VARIABLES
  seated, admins, verified, \* players confirmed in the section, SUPER_ADMINs, confirmed addresses
  events, notes, created,   \* rows by id; how many ids were given
  mails,     \* history: letters sent, by event and user
  pc, loc,
  walk, marking, \* the pages he has read; the notice he marks as read
  changes, faults

people == <<seated, admins, verified, changes>>
task   == <<pc, loc>>
rows   == <<notes, created>>
inbox  == <<walk, marking>>
vars   == <<people, events, rows, mails, task, inbox, faults>>

Outboxed == {"round", "payment", "case"}
Kinds    == Outboxed \cup {"game"}
Channels(kind) == IF kind \in {"round", "payment"} THEN {"IN_APP", "EMAIL"} ELSE {"IN_APP"}

\* A round is for its players, a payment for the owner of the invoice, a case for the
\* administrators only, a game for both players.
Concerned(kind, players, administrators) ==
  CASE kind = "round" -> players [] kind = "payment" -> {me}
    [] kind = "case" -> administrators [] kind = "game" -> Users
Audience(kind) == Concerned(kind, seated, admins)

\* `late': the poll that runs the listener has timed out.
Idle == [event |-> 0, users |-> {}, rows |-> {}, late |-> FALSE]

Init ==
  /\ seated \in {Users, {me}} /\ admins \in {{u} : u \in Users} /\ verified \in {{}, {me}}
  /\ events = <<>> /\ notes = <<>> /\ created = 0 /\ mails = <<>>
  /\ pc = [t \in Tasks |-> "idle"] /\ loc = [t \in Tasks |-> Idle]
  /\ walk = Null /\ marking = Null /\ changes = 0 /\ faults = 0

-----------------------------------------------------------------------------
(* What happens elsewhere. *)

\* `stayed' and `ever': whom it has concerned all the time since, and at some time;
\* `raced': two transactions that write its rows were open at once.
Happen(kind) ==
  /\ Len(events) < MaxEvents
  /\ events' = Append(events, [kind |-> kind, open |-> TRUE, broken |-> FALSE, raced |-> FALSE,
                               stayed |-> Audience(kind), ever |-> Audience(kind)])
  /\ mails' = Append(mails, [u \in Users |-> 0])
  /\ UNCHANGED <<people, rows, task, inbox, faults>>

Change ==
  /\ changes < MaxChanges /\ changes' = changes + 1
  /\ \E u \in Users :
       \/ seated' \in {seated \ {u}, seated \cup {u}} \ {seated} /\ UNCHANGED <<admins, verified>>
       \/ admins' \in {admins \ {u}, admins \cup {u}} \ {admins} /\ UNCHANGED <<seated, verified>>
       \/ u \notin verified /\ verified' = verified \cup {u} /\ UNCHANGED <<seated, admins>>
  /\ events' = [i \in DOMAIN events |->
                  LET now == Concerned(events[i].kind, seated', admins')
                  IN [events[i] EXCEPT !.stayed = @ \cap now, !.ever = @ \cup now]]
  /\ UNCHANGED <<rows, mails, task, inbox, faults>>

-----------------------------------------------------------------------------
(* The listener. *)

Goto(t, label, l) == pc' = [pc EXCEPT ![t] = label] /\ loc' = [loc EXCEPT ![t] = l]
Now(t) == events[loc[t].event]

\* The listeners a poll waits for: it hands out one event at a time, and the lock is
\* its own while its transaction lives.
Polled == {t \in Tasks : pc[t] # "idle" /\ Now(t).kind \in Outboxed /\ ~loc[t].late}

Hear(t) ==
  /\ pc[t] = "idle"
  /\ \E i \in DOMAIN events :
       /\ events[i].open
       /\ events[i].kind \in Outboxed => Polled = {}
       /\ Goto(t, "users", [Idle EXCEPT !.event = i, !.users = Audience(events[i].kind)])
       /\ events' = [events EXCEPT ![i].open = (events[i].kind \in Outboxed)]
  /\ UNCHANGED <<people, rows, mails, inbox, faults>>

\* The transaction times out under its listener, which goes on: the next poll finds the
\* lock free and the event pending.
Expire(t) ==
  /\ t \in Polled /\ faults < MaxFaults
  /\ faults' = faults + 1
  /\ loc' = [loc EXCEPT ![t].late = TRUE]
  /\ UNCHANGED <<people, events, rows, mails, pc, inbox>>

\* recipientsByIds and eligibleChannels: a letter goes to a confirmed address only.
Eligible(u, kind) == {c \in Channels(kind) : c = "EMAIL" => u \in verified}

FindRecipients(t) ==
  /\ pc[t] = "users"
  /\ Goto(t, IF loc[t].users = {} THEN "done" ELSE "write",
          [loc[t] EXCEPT !.rows = UNION {{[user |-> u, channel |-> c] : c \in Eligible(u, Now(t).kind)} : u \in loc[t].users}])
  /\ UNCHANGED <<people, events, rows, mails, inbox, faults>>

\* createBatchIdempotent: who has a row of this event gets no other.  The rows another
\* transaction has not committed are not seen, and no index refuses their like.
Told(i) == {notes[n].user : n \in {n \in DOMAIN notes : notes[n].event = i}}
Fresh(t) == {r \in loc[t].rows : r.user \notin Told(loc[t].event)}

Write(t) ==
  /\ pc[t] = "write"
  /\ LET fresh == SetToSeq(Fresh(t)) IN
     /\ created' = created + Len(fresh)
     /\ Goto(t, IF fresh = <<>> THEN "done" ELSE "commit",
             [loc[t] EXCEPT !.rows = {[id |-> created + k, user |-> fresh[k].user, channel |-> fresh[k].channel] :
                                        k \in DOMAIN fresh}])
  /\ events' = [events EXCEPT ![loc[t].event].raced =
                  @ \/ \E s \in Tasks : pc[s] = "commit" /\ loc[s].event = loc[t].event]
  /\ UNCHANGED <<people, notes, mails, inbox, faults>>

Commit(t) ==
  /\ pc[t] = "commit"
  /\ notes' = [n \in DOMAIN notes \cup {r.id : r \in loc[t].rows} |->
                 IF n \in DOMAIN notes THEN notes[n]
                 ELSE LET r == CHOOSE r \in loc[t].rows : r.id = n
                      IN [user |-> r.user, channel |-> r.channel, event |-> loc[t].event,
                          mark |-> "none", reads |-> 0]]
  /\ Goto(t, "send", loc[t])
  /\ UNCHANGED <<people, events, created, mails, inbox, faults>>

\* dispatch, a row at a time; a failed letter is marked, not thrown.
Send(t) ==
  /\ pc[t] = "send"
  /\ IF loc[t].rows = {}
     THEN Goto(t, "done", loc[t]) /\ UNCHANGED <<mails, faults>>
     ELSE LET r == CHOOSE r \in loc[t].rows : \A s \in loc[t].rows : r.id <= s.id IN
          \/ /\ mails' = IF r.channel = "EMAIL" THEN [mails EXCEPT ![loc[t].event][r.user] = @ + 1] ELSE mails
             /\ Goto(t, "sent", loc[t]) /\ UNCHANGED faults
          \/ /\ r.channel = "EMAIL" /\ faults < MaxFaults /\ faults' = faults + 1
             /\ Goto(t, "failed", loc[t]) /\ UNCHANGED mails
  /\ UNCHANGED <<people, events, rows, inbox>>

\* If the row cannot be marked as sent it is marked as failed, or left as it is.
Mark(t) ==
  /\ pc[t] \in {"sent", "failed"}
  /\ LET r == CHOOSE r \in loc[t].rows : \A s \in loc[t].rows : r.id <= s.id
         rest == [loc[t] EXCEPT !.rows = @ \ {r}] IN
     \/ notes' = [notes EXCEPT ![r.id].mark = pc[t]] /\ Goto(t, "send", rest) /\ UNCHANGED faults
     \/ /\ faults < MaxFaults /\ faults' = faults + 1 /\ UNCHANGED notes
        /\ IF pc[t] = "sent" THEN Goto(t, "failed", loc[t]) ELSE Goto(t, "send", rest)
  /\ UNCHANGED <<people, events, created, mails, inbox>>

\* A query of the listener fails: its error is lost (Outbox) or logged.
Fail(t) ==
  /\ pc[t] \in {"users", "write", "commit"} /\ faults < MaxFaults
  /\ faults' = faults + 1
  /\ events' = [events EXCEPT ![loc[t].event].broken = TRUE]
  /\ Goto(t, "done", loc[t])
  /\ UNCHANGED <<people, rows, mails, inbox>>

\* The event is published; a poll that has timed out can mark nothing.
Finish(t) ==
  /\ pc[t] = "done"
  /\ events' = IF loc[t].late THEN events ELSE [events EXCEPT ![loc[t].event].open = FALSE]
  /\ Goto(t, "idle", Idle)
  /\ UNCHANGED <<people, rows, mails, inbox, faults>>

\* Nothing brings the end of a game again.
Die(t) ==
  /\ pc[t] \notin {"idle", "done"} /\ faults < MaxFaults
  /\ faults' = faults + 1
  /\ events' = [events EXCEPT ![loc[t].event].broken = @ \/ Now(t).kind = "game"]
  /\ Goto(t, "idle", Idle)
  /\ UNCHANGED <<people, rows, mails, inbox>>

Listen(t) ==
  \/ Hear(t) \/ FindRecipients(t) \/ Write(t) \/ Commit(t) \/ Send(t) \/ Mark(t) \/ Finish(t)
  \/ Expire(t) \/ Fail(t) \/ Die(t)

-----------------------------------------------------------------------------
(* The inbox of `me'. *)

Mine == {n \in DOMAIN notes : notes[n].user = me /\ notes[n].channel = "IN_APP"}
Unread == {n \in Mine : notes[n].reads = 0}

\* listForUser and toPage: one row more is read than shown, to know whether there are more.
Below(cursor, unread) ==
  SetToSortSeq({n \in IF unread THEN Unread ELSE Mine : cursor = Null \/ n < cursor}, >)
Shown(found) == IF Len(found) > PageSize THEN SubSeq(found, 1, PageSize) ELSE found
EndCursorOfRead(found) == IF Len(found) > PageSize THEN found[PageSize + 1] ELSE Last(found)
EndCursor(found) == Last(Shown(found))

Turn(cursor, unread, got, there) ==
  LET found == Below(cursor, unread) IN
  walk' = [unread |-> unread, more |-> Len(found) > PageSize, got |-> got \o Shown(found), there |-> there,
           cursor |-> IF found = <<>> THEN Null ELSE EndCursor(found)]

Reading == IF walk = Null THEN FALSE ELSE walk.more

OpenInbox ==
  /\ ~Reading
  /\ \E unread \in BOOLEAN : Turn(Null, unread, <<>>, IF unread THEN Unread ELSE Mine)
  /\ UNCHANGED <<people, events, rows, mails, task, marking, faults>>

NextPage ==
  /\ Reading
  /\ Turn(walk.cursor, walk.unread, walk.got, walk.there)
  /\ UNCHANGED <<people, events, rows, mails, task, marking, faults>>

\* markRead finds the row, and updates it unless it is read already.
BeginMark ==
  /\ walk # Null /\ marking = Null
  /\ \E n \in ToSet(walk.got) \cap Unread : marking' = n
  /\ UNCHANGED <<people, events, rows, mails, task, walk, faults>>

EndMark ==
  /\ marking # Null /\ marking' = Null
  /\ notes' = [notes EXCEPT ![marking].reads = @ + 1]
  /\ UNCHANGED <<people, events, created, mails, task, walk, faults>>

MarkAllRead ==
  /\ Unread # {}
  /\ notes' = [n \in DOMAIN notes |-> IF n \in Unread THEN [notes[n] EXCEPT !.reads = 1] ELSE notes[n]]
  /\ UNCHANGED <<people, events, created, mails, task, inbox, faults>>

Reader == OpenInbox \/ NextPage \/ BeginMark \/ EndMark \/ MarkAllRead

-----------------------------------------------------------------------------
Next == (\E kind \in Kinds : Happen(kind)) \/ Change \/ (\E t \in Tasks : Listen(t)) \/ Reader

Spec == Init /\ [][Next]_vars

-----------------------------------------------------------------------------
(* Properties. *)

TypeOK ==
  /\ DOMAIN notes \subseteq 1..created
  /\ \A n \in DOMAIN notes : notes[n].mark \in {"none", "sent", "failed"} /\ notes[n].reads \in 0..2

\* An event that comes again, during its first delivery or after it, gives nobody a second
\* notice on one channel or a second letter, unless the two transactions of
\* createBatchIdempotent were open at once.  In parallel polls they may be
\* (notification.repository.ts says never): ToldOnceEver.
ToldOnce ==
  /\ \A m, n \in DOMAIN notes :
       m # n /\ <<notes[m].event, notes[m].user, notes[m].channel>> = <<notes[n].event, notes[n].user, notes[n].channel>>
         => events[notes[m].event].raced
  /\ \A i \in DOMAIN events, u \in Users : mails[i][u] > 1 => events[i].raced

\* An event that was handled has told everyone whom it concerned from then on, in his
\* inbox; and nobody whom it did not concern at any time.
ToldWhoItConcerns ==
  /\ \A i \in DOMAIN events :
       ~events[i].open /\ ~events[i].broken /\ (\A t \in Tasks : loc[t].event # i)
         => \A u \in events[i].stayed : \E n \in DOMAIN notes :
              notes[n].user = u /\ notes[n].event = i /\ notes[n].channel = "IN_APP"
  /\ \A n \in DOMAIN notes : notes[n].user \in events[notes[n].event].ever

\* A letter marked as sent was sent, to a confirmed address, and none is about a case.
LettersAreRight ==
  \A n \in DOMAIN notes : notes[n].channel = "EMAIL" =>
    /\ notes[n].mark = "sent" => mails[notes[n].event][notes[n].user] > 0
    /\ notes[n].user \in verified /\ events[notes[n].event].kind # "case"

\* Who has turned all pages has seen everything that was there when he began, but what
\* he has read meanwhile, and nothing twice (cursor.ts: "pages shift" with OFFSET only).
PagesAreWhole ==
  walk # Null =>
    /\ ~walk.more => \A n \in walk.there : n \in ToSet(walk.got) \/ (walk.unread /\ n \notin Unread)
    /\ \A j, k \in DOMAIN walk.got : j < k => walk.got[j] > walk.got[k]

\* None of these holds, AroundDivergences: an event delivered by two polls at once is told
\* twice; a letter that was sent is marked as failed when the first mark fails; the accused
\* who is an administrator is told of his case; and a notice that is read is marked again.
ToldOnceEver ==
  \A m, n \in DOMAIN notes :
    m # n => <<notes[m].event, notes[m].user, notes[m].channel>> # <<notes[n].event, notes[n].user, notes[n].channel>>
FailedWasNotSent ==
  \A n \in DOMAIN notes : notes[n].mark = "failed" => mails[notes[n].event][notes[n].user] = 0
AccusedIsNotTold ==
  \A n \in DOMAIN notes : events[notes[n].event].kind = "case" => notes[n].user # accused
ReadOnce == \A n \in DOMAIN notes : notes[n].reads <= 1
=============================================================================
