---------------------------- MODULE FriendsPage -----------------------------
(***************************************************************************)
(* The page of a player's friends (web/app/(site)/oyin/dostlar): the lists *)
(* of friends, of requests and of blocked players with their buttons, and  *)
(* the box in which he looks for somebody to ask.  There is one other      *)
(* player, who acts meanwhile.                                             *)
(*                                                                         *)
(* The server answers at once here, by the rules of Friendship; what its   *)
(* requests do to each other is there.  Nothing is ever shown before the   *)
(* server has it: after an action the page reads its three lists again,    *)
(* one after the other.                                                    *)
(***************************************************************************)
EXTENDS Naturals, Sequences, FiniteSets

CONSTANTS
  me, other,
  Calls,       \* slots for chains of requests under way
  Null,
  Unread,      \* a list that has not arrived yet
  MaxRows,     \* bound: rows of the pair
  MaxLosses,   \* bound: requests that fail, or whose answers are lost
  MaxRenewals  \* bound: new access tokens

VARIABLES
  row, created, last, \* as in Friendship
  lists,     \* friends, requests and blocked, as shown
  busy,      \* busyId: the row whose action is under way, or 0
  calls,
  query, timer, lookups, results, searching, \* the search box
  asked,     \* what it says of the request sent to the other
  losses, renewals,
  orderly,   \* history: no chain began while another was under way
  missed,    \* history: the server has changed since the page last began to read
  hasty      \* history: he typed on while an answer was under way

server == <<row, created, last>>
box    == <<query, timer, lookups, results, searching, hasty>>
bounds == <<losses, renewals>>
vars == <<server, lists, busy, calls, box, asked, bounds, orderly, missed>>

Rules == INSTANCE Friendship WITH
  Players <- {me, other}, Requests <- Calls, pc <- calls, loc <- calls

Queries == {"", "his name", "no name"}
LongEnough(q) == q # ""

Free == [kind |-> "none", at |-> "sent", id |-> 0, step |-> 0, got |-> <<>>, ok |-> TRUE]
LoadCall == [Free EXCEPT !.kind = "load", !.step = 1]
AllRead == Unread \notin {lists[k] : k \in 1..3}

Init ==
  /\ row = Null /\ created = 0 /\ last = [p \in {me, other} |-> "nothing"]
  /\ lists = <<Unread, Unread, Unread>> /\ busy = 0
  /\ \E c \in Calls : calls = [d \in Calls |-> IF d = c THEN LoadCall ELSE Free]
  /\ query = "" /\ timer = FALSE /\ lookups = [q \in Queries |-> 0] /\ results = Null /\ searching = FALSE
  /\ asked = "no" /\ losses = 0 /\ renewals = 0
  /\ orderly = TRUE /\ missed = FALSE /\ hasty = FALSE

-----------------------------------------------------------------------------
(* The buttons of the three lists. *)

Start(c, call) ==
  /\ calls[c] = Free
  /\ calls' = [calls EXCEPT ![c] = call]
  /\ orderly' = (orderly /\ \A d \in Calls : calls[d] = Free)

Buttons ==
  LET Of(k, kinds) ==
        IF lists[k] \in {Unread, Null} THEN {} ELSE {[kind |-> kind, id |-> lists[k].id] : kind \in kinds}
  IN Of(1, {"end", "block"})
     \cup Of(2, IF lists[2] \in {Unread, Null} \/ lists[2].outgoing THEN {"end"} ELSE {"accept", "end"})
     \cup Of(3, {"unblock"})

\* Those of a row are disabled while it is busy.
Act(c) ==
  /\ \E button \in Buttons :
       /\ button.id # busy
       /\ Start(c, [Free EXCEPT !.kind = button.kind, !.id = button.id])
       /\ busy' = button.id
  /\ UNCHANGED <<server, lists, box, asked, bounds, missed>>

-----------------------------------------------------------------------------
(* The search box. *)

Unsettled == timer \/ \E q \in Queries : lookups[q] > 0

\* The effect of the query: no earlier timer survives, an earlier request does.
Typed(q) ==
  /\ timer' = LongEnough(q)
  /\ searching' = LongEnough(q)
  /\ results' = IF LongEnough(q) THEN results ELSE Null

Type ==
  /\ \E q \in Queries \ {query} : query' = q /\ Typed(q)
  /\ hasty' = (hasty \/ \E q \in Queries : lookups[q] > 0)
  /\ UNCHANGED <<server, lists, busy, calls, lookups, asked, bounds, orderly, missed>>

\* After 300 ms without a key.
Look ==
  /\ timer /\ lookups[query] = 0
  /\ timer' = FALSE
  /\ lookups' = [lookups EXCEPT ![query] = 1]
  /\ UNCHANGED <<server, lists, busy, calls, query, results, searching, hasty, asked, bounds, orderly, missed>>

\* The players found, or none because the request failed.
Found ==
  /\ \E q \in Queries :
       /\ lookups[q] > 0
       /\ lookups' = [lookups EXCEPT ![q] = 0]
       /\ \/ results' = q /\ UNCHANGED losses
          \/ losses < MaxLosses /\ losses' = losses + 1 /\ results' = "no name"
  /\ searching' = FALSE
  /\ UNCHANGED <<server, lists, busy, calls, query, timer, hasty, asked, renewals, orderly, missed>>

\* The button beside the other's name.
Send(c) ==
  /\ results = "his name" /\ asked # "sent"
  /\ Start(c, [Free EXCEPT !.kind = "request"])
  /\ UNCHANGED <<server, lists, busy, box, asked, bounds, missed>>

\* Another access token runs the effect of the lists again, not that of the query:
\* authFetch stays the same function.
Renew(c) ==
  /\ renewals < MaxRenewals
  /\ renewals' = renewals + 1
  /\ Start(c, LoadCall)
  /\ UNCHANGED <<server, lists, busy, box, asked, losses, missed>>

-----------------------------------------------------------------------------
(* The server. *)

New(p, status, blocker) ==
  [id |-> created + 1, requester |-> p, addressee |-> Rules!Other(p), status |-> status, blockedBy |-> blocker]

\* What p does about the row of that id; a request or a block is about the pair.
Does(p, kind, id) ==
  LET view == IF kind \in {"request", "block"} \/ (row # Null /\ row.id = id) THEN row ELSE Null IN
  /\ kind = "block" \/ Rules!Allowed(kind, p, view)
  /\ CASE kind = "request" -> row' = New(p, "PENDING", Null)
       [] kind = "accept" -> row' = [row EXCEPT !.status = "ACCEPTED"]
       [] kind = "block" -> row' = IF row = Null THEN New(p, "BLOCKED", p)
                                   ELSE [row EXCEPT !.status = "BLOCKED", !.blockedBy = p]
       [] OTHER -> row' = Null
  /\ created' = IF row = Null THEN created + 1 ELSE created
  /\ created' <= MaxRows
  /\ last' = [last EXCEPT ![p] = kind]

Answer(c, ok, got) == calls' = [calls EXCEPT ![c] = [@ EXCEPT !.at = "answered", !.ok = ok, !.got = got]]
Asked(c) == calls[c].at = "sent" /\ calls[c].kind \notin {"none", "load"}
Kept == UNCHANGED <<lists, busy, box, asked, bounds, orderly>>

Obey(c) ==
  /\ Asked(c)
  /\ Does(me, calls[c].kind, calls[c].id)
  /\ Answer(c, TRUE, <<>>)
  /\ UNCHANGED missed /\ Kept

Permitted(p, kind, id) ==
  kind = "block" \/ Rules!Allowed(kind, p, IF kind = "request" \/ (row # Null /\ row.id = id) THEN row ELSE Null)

Refuse(c) ==
  /\ Asked(c) /\ ~Permitted(me, calls[c].kind, calls[c].id)
  /\ Answer(c, FALSE, <<>>)
  /\ UNCHANGED <<server, missed>> /\ Kept

\* FRIENDS.list, .requests and .blocks.
Listed(k) ==
  LET there == /\ row # Null
               /\ \/ k = 1 /\ row.status = "ACCEPTED"
                  \/ k = 2 /\ row.status = "PENDING"
                  \/ k = 3 /\ row.status = "BLOCKED" /\ row.blockedBy = me
  IN IF there THEN [id |-> row.id, outgoing |-> row.requester = me] ELSE Null

\* The next list of a load is asked for when this one is here.
Read(l) == [l EXCEPT !.got = Append(l.got, Listed(l.step)), !.step = l.step + 1,
                     !.at = IF l.step = 3 THEN "answered" ELSE "sent"]

ReadList(c) ==
  /\ calls[c].kind = "load" /\ calls[c].at = "sent"
  /\ calls' = [calls EXCEPT ![c] = Read(calls[c])]
  /\ missed' = IF calls[c].step = 1 THEN FALSE ELSE missed
  /\ UNCHANGED server /\ Kept

Lose(c) ==
  /\ calls[c] # Free /\ losses < MaxLosses
  /\ losses' = losses + 1
  /\ Answer(c, FALSE, <<>>)
  /\ missed' = TRUE
  /\ UNCHANGED <<server, lists, busy, box, asked, renewals, orderly>>

\* The other player.
Elsewhere ==
  /\ \E kind \in {"request", "accept", "end", "block", "unblock"}, id \in 1..created \cup {0} : Does(other, kind, id)
  /\ missed' = TRUE
  /\ UNCHANGED calls /\ Kept

-----------------------------------------------------------------------------
(* What the page does with an answer. *)

Answered(c, kinds) == calls[c].kind \in kinds /\ calls[c].at = "answered"
Actions == {"accept", "end", "block", "unblock"}

\* act: the lists are read again, and the row stays busy meanwhile, unless it was refused.
AfterAct(c) ==
  /\ Answered(c, Actions)
  /\ IF calls[c].ok
     THEN calls' = [calls EXCEPT ![c] = [LoadCall EXCEPT !.id = calls[c].id]] /\ UNCHANGED busy
     ELSE calls' = [calls EXCEPT ![c] = Free] /\ busy' = 0
  /\ UNCHANGED <<server, lists, box, asked, bounds, orderly, missed>>

\* send: marks the row of the result, and onDone reads the lists.
AfterSend(c) ==
  /\ Answered(c, {"request"})
  /\ asked' = IF calls[c].ok THEN "sent" ELSE "error"
  /\ calls' = [calls EXCEPT ![c] = IF calls[c].ok THEN LoadCall ELSE Free]
  /\ UNCHANGED <<server, lists, busy, box, bounds, orderly, missed>>

\* All three are shown together, or none; finally, the row is no longer busy.
AfterLoad(c) ==
  /\ Answered(c, {"load"})
  /\ lists' = IF calls[c].ok THEN calls[c].got ELSE lists
  /\ busy' = IF calls[c].id # 0 THEN 0 ELSE busy
  /\ calls' = [calls EXCEPT ![c] = Free]
  /\ UNCHANGED <<server, box, asked, bounds, orderly, missed>>

-----------------------------------------------------------------------------

Player(c) == Act(c) \/ Send(c) \/ Renew(c)
Server(c) == Obey(c) \/ Refuse(c) \/ ReadList(c) \/ Lose(c)
Page(c) == AfterAct(c) \/ AfterSend(c) \/ AfterLoad(c)

Next == Type \/ Look \/ Found \/ Elsewhere \/ \E c \in Calls : Player(c) \/ Server(c) \/ Page(c)

Spec == Init /\ [][Next]_vars

-----------------------------------------------------------------------------
(* Properties. *)

Quiet == \A c \in Calls : calls[c] = Free

TypeOK ==
  /\ created <= MaxRows /\ query \in Queries
  /\ \A k \in 1..3 : lists[k] \notin {Unread, Null} => lists[k].id \in 1..created

\* Nobody is a friend on the page whom he did not ask or accept ("optimistic UI lies").
FriendWasAgreed ==
  lists[1] \notin {Unread, Null} => "nothing" \notin {last[me], last[other]}

\* A player who waits for his answers on a good line, while the other rests, sees how
\* things stand.
QuietPageIsCurrent ==
  Quiet /\ orderly /\ ~missed /\ AllRead => \A k \in 1..3 : lists[k] = Listed(k)

\* No button stays disabled, and no search runs for ever; one who waits for its answer has
\* the players he asked for (act, AddFriend).
PageSettles ==
  /\ Quiet => busy = 0
  /\ ~Unsettled => ~searching
  /\ ~Unsettled /\ ~hasty /\ losses = 0 => results = IF LongEnough(query) THEN query ELSE Null

\* None of these holds, PeopleDivergences: one who does not wait is left with older lists;
\* the two ends of a change are shown at once; and the players of an earlier query are
\* shown for a later one.
PageIsCurrent ==
  Quiet /\ ~missed /\ AllRead => \A k \in 1..3 : lists[k] = Listed(k)
OneListEach == Cardinality({k \in 1..3 : lists[k] \notin {Unread, Null}}) <= 1
ResultsAreOfQuery == ~Unsettled => results \in {IF LongEnough(query) THEN query ELSE Null, "no name"}
=============================================================================
