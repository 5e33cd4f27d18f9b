----------------------------- MODULE Friendship -----------------------------
(***************************************************************************)
(* Friends and blocks of one pair of players (modules/friend).  Every      *)
(* request reads the row of the pair, or a row by its id, decides by       *)
(* friendship.rules on what it read, and writes in a later transaction.    *)
(* The table's own constraints are the last word: one row for a pair       *)
(* whichever way it points, and a blocker exactly on a blocked row.        *)
(***************************************************************************)
EXTENDS Integers, FiniteSets

CONSTANTS
  Players,  \* the two of them
  Requests, \* slots for requests in flight
  Null,
  MaxRows   \* bound: no further row is created

VARIABLES
  row,     \* the row of the pair, or Null
  created, \* rows created so far
  last,    \* history: what each did last about the other
  pc, loc

vars == <<row, created, last, pc, loc>>

Blank == [kind |-> "none", me |-> Null, id |-> 0, seen |-> Null]
Other(p) == CHOOSE q \in Players : q # p

Goto(r, label, l) ==
  /\ pc' = [pc EXCEPT ![r] = label]
  /\ loc' = [loc EXCEPT ![r] = l]

Reply(r) == Goto(r, "idle", Blank)

Init ==
  /\ row = Null /\ created = 0
  /\ last = [p \in Players |-> "nothing"]
  /\ pc = [r \in Requests |-> "idle"]
  /\ loc = [r \in Requests |-> Blank]

-----------------------------------------------------------------------------
(* friendship.rules; both players of this pair are members of every row. *)

CanRequest(existing) == existing = Null

CanAcceptAny(me, view) == view.status = "PENDING"
CanAccept(me, view) == view.status = "PENDING" /\ view.addressee = me
\* canDecline of a request that waits, canRemove of a friendship
CanEnd(me, view) == view.status \in {"PENDING", "ACCEPTED"}
CanUnblock(me, view) == view.status = "BLOCKED" /\ view.blockedBy = me

Allowed(kind, me, view) ==
  IF kind = "request" THEN CanRequest(view)
  ELSE /\ view # Null \* not found
       /\ CASE kind = "accept" -> CanAccept(me, view)
            [] kind = "end" -> CanEnd(me, view)
            [] OTHER -> CanUnblock(me, view)

-----------------------------------------------------------------------------

\* A request names the other player; the rest name a row by its id.
BeginRequest(r) ==
  /\ pc[r] = "idle"
  /\ \E me \in Players, kind \in {"request", "block"} :
       Goto(r, IF kind = "block" THEN "upsert" ELSE "read", [Blank EXCEPT !.kind = kind, !.me = me])
  /\ UNCHANGED <<row, created, last>>

BeginOnRow(r) ==
  /\ pc[r] = "idle"
  /\ \E me \in Players, kind \in {"accept", "end", "unblock"}, id \in 1..created :
       Goto(r, "read", [Blank EXCEPT !.kind = kind, !.me = me, !.id = id])
  /\ UNCHANGED <<row, created, last>>

\* findPair; load, which finds by id; block, which finds inside its transaction.
FindRow(r) ==
  LET l == loc[r]
      view == IF row # Null /\ l.kind \notin {"request", "block"} /\ row.id # l.id THEN Null ELSE row
  IN
  /\ pc[r] \in {"read", "upsert"}
  /\ IF l.kind = "block" \/ Allowed(l.kind, l.me, view)
     THEN Goto(r, "write", [l EXCEPT !.seen = view])
     ELSE Reply(r)
  /\ UNCHANGED <<row, created, last>>

AnyRow(new) == TRUE
\* friendships_blocked_by_consistent
Consistent(new) == (new.status = "BLOCKED") <=> (new.blockedBy # Null)

Said(r, word) == last' = [last EXCEPT ![loc[r].me] = word]

Fails(r) == UNCHANGED <<row, created, last>>

Create(r, status, blockedBy) ==
  /\ created < MaxRows
  /\ IF row # Null
     THEN Fails(r) \* friendships_pair_unique
     ELSE /\ created' = created + 1
          /\ row' = [id |-> created', requester |-> loc[r].me, addressee |-> Other(loc[r].me),
                     status |-> status, blockedBy |-> blockedBy]
          /\ Said(r, loc[r].kind)

\* An UPDATE sets the columns it names, and fails on a row that is gone.
Update(r, id, new) ==
  IF row = Null \/ row.id # id \/ ~Consistent(new)
  THEN Fails(r)
  ELSE row' = new /\ Said(r, loc[r].kind) /\ UNCHANGED created

Remove(r) ==
  IF row = Null \/ row.id # loc[r].id
  THEN Fails(r)
  ELSE row' = Null /\ Said(r, loc[r].kind) /\ UNCHANGED created

Write(r) ==
  LET l == loc[r] IN
  /\ pc[r] = "write"
  /\ Reply(r)
  /\ CASE l.kind = "request" -> Create(r, "PENDING", Null)
       [] l.kind = "accept" -> Update(r, l.id, [row EXCEPT !.status = "ACCEPTED"])
       [] l.kind = "block" /\ l.seen = Null -> Create(r, "BLOCKED", l.me)
       [] l.kind = "block" /\ l.seen # Null ->
            Update(r, l.seen.id, [row EXCEPT !.status = "BLOCKED", !.blockedBy = l.me])
       [] OTHER -> Remove(r)

\* The process dies, or an await throws.
Crash(r) ==
  /\ pc[r] # "idle"
  /\ Reply(r)
  /\ UNCHANGED <<row, created, last>>

Step(r) == BeginRequest(r) \/ BeginOnRow(r) \/ FindRow(r) \/ Write(r) \/ Crash(r)

Next == \E r \in Requests : Step(r)

Spec == Init /\ [][Next]_vars

-----------------------------------------------------------------------------
(* Properties. *)

TypeOK ==
  row # Null =>
    /\ row.id \in 1..created
    /\ {row.requester, row.addressee} = Players
    /\ row.status \in {"PENDING", "ACCEPTED", "BLOCKED"}

\* Whatever two requests interleave - both ask at once, one accepts while the
\* other withdraws or blocks - friends are two players of whom one last asked
\* and the other, to whom that was addressed, last accepted it.
FriendsAgreed ==
  row # Null /\ row.status = "ACCEPTED" =>
    /\ last[row.requester] = "request"
    /\ last[row.addressee] = "accept"

\* Only the player who blocked lifts the block (friend.repository:162-163).  It
\* does not hold: the other may block too, which makes the block his to lift.
BlockStands ==
  \A p \in Players : last[p] = "block" => row # Null /\ row.status = "BLOCKED"
=============================================================================
