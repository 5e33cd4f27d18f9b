---------------------------- MODULE Pages_proofs ----------------------------
(***************************************************************************)
(* What MCPeople checks of friends and of three pages of the browser - the *)
(* friends, the queue and the sign-in -, for any number of requests, rows, *)
(* accounts, failures and renewals of a token.  A page sends requests and  *)
(* shows what they bring; the invariants say, for every request under way, *)
(* what its answer can still be by the time it arrives.                    *)
(***************************************************************************)
EXTENDS MCPeople, FiniteSetTheorems, SequenceTheorems, TLAPS

(* Friends have both agreed, for any number of requests at once and of rows.  A  *)
(* request decides on a row it read an await ago; what it may still rely on is   *)
(* that a row keeps its number, its requester and its addressee for as long as   *)
(* it is there, and that a later row has another number (PairRequestSound).      *)
(* Status and blocker change under it: there the constraint of the table is what *)
(* counts (PairRowSound).                                                        *)

LEMMA PairIsTwo == Pair = {a, b} /\ a # b /\ Null \notin Pair
  BY PlayersAssumption DEF Pair

PairRows == [id : Nat, requester : Pair, addressee : Pair,
         status : {"PENDING", "ACCEPTED", "BLOCKED"}, blockedBy : Pair \cup {Null}]

PairLocals == [kind : {"none", "request", "accept", "end", "block", "unblock"},
           me : Pair \cup {Null}, id : Nat, seen : PairRows \cup {Null}]

PairData ==
  /\ created \in Nat
  /\ last \in [Pair -> {"nothing", "request", "accept", "end", "block", "unblock"}]
  /\ pc \in [Requests -> {"idle", "read", "upsert", "write"}]
  /\ loc \in [Requests -> PairLocals]

\* The row is of two players, numbered by the last creation or an earlier one, and
\* whoever it waits for or joins, its requester asked and did nothing since.
PairRowSound ==
  row # Null =>
    /\ row \in PairRows /\ row.id \in 1..created
    /\ row.requester # row.addressee
    /\ Friend!Consistent(row)
    /\ row.status \in {"PENDING", "ACCEPTED"} => last[row.requester] = "request"

\* A request under way is somebody's, about a row that was created; one that passed
\* the check of an acceptance is the addressee's for as long as that row is there.
PairRequestSound(r) ==
  pc[r] # "idle" =>
    /\ loc[r].me \in Pair /\ loc[r].id \leq created
    /\ loc[r].kind # "none"
    /\ pc[r] = "write" /\ loc[r].kind = "accept" /\ row # Null /\ row.id = loc[r].id =>
         row.addressee = loc[r].me

PairInv ==
  /\ PairData
  /\ PairRowSound
  /\ \A r \in Requests : PairRequestSound(r)
  /\ Friend!FriendsAgreed

LEMMA OtherOfTheTwo ==
  ASSUME NEW p \in Pair
  PROVE  Friend!Other(p) \in Pair /\ Friend!Other(p) # p
BY PairIsTwo DEF Friend!Other

LEMMA PairBlank == Friend!Blank \in PairLocals /\ Friend!Blank.id = 0 /\ Friend!Blank.me = Null
BY DEF Friend!Blank, PairLocals

LEMMA PairStart == Friend!Init => PairInv
BY PairBlank DEF Friend!Init, PairIsTwo, PairInv, PairData, PairRowSound, PairRequestSound, Friend!FriendsAgreed

\* Whatever a request does to its own locals, the others' requests stand if the row does.
LEMMA OthersOfPairStand ==
  ASSUME PairInv, NEW r \in Requests, NEW label \in {"idle", "read", "upsert", "write"},
         NEW l \in PairLocals,
         Friend!Goto(r, label, l), UNCHANGED <<row, created, last>>,
         PairRequestSound(r)'
  PROVE  PairInv'
<1>1. PairData'
  BY DEF PairInv, PairData, Friend!Goto
<1>2. PairRowSound' /\ Friend!FriendsAgreed'
  BY DEF PairInv, PairRowSound, Friend!FriendsAgreed, Friend!Consistent, PairRows
<1>3. ASSUME NEW q \in Requests PROVE PairRequestSound(q)'
  <2>1. CASE q = r BY <2>1
  <2>2. CASE q # r
    <3>1. pc'[q] = pc[q] /\ loc'[q] = loc[q]
      BY <2>2 DEF PairInv, PairData, Friend!Goto
    <3> QED BY <3>1 DEF PairInv, PairRequestSound
  <2> QED BY <2>1, <2>2
<1> QED BY <1>1, <1>2, <1>3 DEF PairInv

\* A write is judged by the row it leaves: the others' requests stand if a row with an
\* old number is still addressed as it was, and a new row has a new number.
LEMMA WriteKeeps ==
  ASSUME PairInv, NEW r \in Requests, Friend!Reply(r), pc[r] = "write",
         PairData', PairRowSound', Friend!FriendsAgreed',
         created' >= created,
         row' # Null /\ row # Null /\ row'.id = row.id => row'.addressee = row.addressee,
         row' # Null /\ (row = Null \/ row'.id # row.id) => row'.id > created
  PROVE  PairInv'
<1>1. ASSUME NEW q \in Requests PROVE PairRequestSound(q)'
  <2>1. CASE q = r BY <2>1 DEF PairInv, PairData, Friend!Reply, Friend!Goto, PairRequestSound
  <2>2. CASE q # r
    <3>1. pc'[q] = pc[q] /\ loc'[q] = loc[q] /\ loc[q].id \in Nat
      BY <2>2 DEF PairInv, PairData, Friend!Reply, Friend!Goto, PairLocals
    <3> QED BY <3>1 DEF PairInv, PairRequestSound, PairData, PairRowSound, PairRows
  <2> QED BY <2>1, <2>2
<1> QED BY <1>1 DEF PairInv

LEMMA BeginKeeps ==
  ASSUME PairInv, NEW r \in Requests, Friend!BeginRequest(r) \/ Friend!BeginOnRow(r)
  PROVE  PairInv'
<1>1. SUFFICES ASSUME NEW l \in PairLocals, NEW label \in {"read", "upsert"},
                      l.me \in Pair, l.id <= created, l.kind # "none",
                      Friend!Goto(r, label, l), UNCHANGED <<row, created, last>>
               PROVE  PairInv'
  <2>1. CASE Friend!BeginRequest(r)
    <3>1. PICK me \in Pair, kind \in {"request", "block"} :
            Friend!Goto(r, IF kind = "block" THEN "upsert" ELSE "read", [Friend!Blank EXCEPT !.kind = kind, !.me = me])
      BY <2>1 DEF Friend!BeginRequest
    <3>2. LET l == [Friend!Blank EXCEPT !.kind = kind, !.me = me]
          IN  l \in PairLocals /\ l.kind = kind /\ l.me = me /\ l.id = 0
      BY PairBlank DEF PairLocals
    <3>3. 0 <= created
      BY DEF PairInv, PairData
    <3> QED BY <2>1, <3>1, <3>2, <3>3, <1>1 DEF Friend!BeginRequest
  <2>2. CASE Friend!BeginOnRow(r)
    <3>1. PICK me \in Pair, kind \in {"accept", "end", "unblock"}, id \in 1..created :
            Friend!Goto(r, "read", [Friend!Blank EXCEPT !.kind = kind, !.me = me, !.id = id])
      BY <2>2 DEF Friend!BeginOnRow
    <3>2. id \in Nat /\ id <= created
      BY DEF PairInv, PairData
    <3>3. LET l == [Friend!Blank EXCEPT !.kind = kind, !.me = me, !.id = id]
          IN  l \in PairLocals /\ l.kind = kind /\ l.me = me /\ l.id = id
      BY <3>2, PairBlank DEF PairLocals
    <3> QED BY <2>2, <3>1, <3>2, <3>3, <1>1 DEF Friend!BeginOnRow
  <2> QED BY <2>1, <2>2
<1>2. loc'[r] = l /\ pc'[r] = label
  BY <1>1 DEF Friend!Goto, PairInv, PairData
<1>3. PairRequestSound(r)'
  BY <1>1, <1>2 DEF PairRequestSound
<1> QED BY <1>1, <1>3, OthersOfPairStand

LEMMA ReplyKeeps ==
  ASSUME PairInv, NEW r \in Requests, Friend!Reply(r), UNCHANGED <<row, created, last>>
  PROVE  PairInv'
<1>1. PairRequestSound(r)'
  BY DEF Friend!Reply, Friend!Goto, PairInv, PairData, PairRequestSound
<1> QED BY <1>1, PairBlank, OthersOfPairStand DEF Friend!Reply

LEMMA PairSeenFits ==
  ASSUME NEW l \in PairLocals, NEW v \in PairRows \cup {Null}
  PROVE  LET m == [l EXCEPT !.seen = v]
         IN  m \in PairLocals /\ m.kind = l.kind /\ m.me = l.me /\ m.id = l.id
BY DEF PairLocals

LEMMA FindKeeps ==
  ASSUME PairInv, NEW r \in Requests, Friend!FindRow(r)
  PROVE  PairInv'
<1> DEFINE l == loc[r]
           view == IF row # Null /\ l.kind \notin {"request", "block"} /\ row.id # l.id THEN Null ELSE row
<1>1. CASE Friend!Reply(r)
  BY <1>1, ReplyKeeps DEF Friend!FindRow
<1>2. CASE /\ l.kind = "block" \/ Friend!Allowed(l.kind, l.me, view)
           /\ Friend!Goto(r, "write", [l EXCEPT !.seen = view])
  <2>1. l \in PairLocals
    BY DEF PairInv, PairData
  <2>2. view \in PairRows \cup {Null}
    BY DEF PairInv, PairRowSound
  <2>3. LET m == [l EXCEPT !.seen = view]
        IN  m \in PairLocals /\ m.kind = l.kind /\ m.me = l.me /\ m.id = l.id
    BY <2>1, <2>2, PairSeenFits
  <2>4. pc'[r] = "write" /\ loc'[r] = [l EXCEPT !.seen = view]
    BY <1>2 DEF Friend!Goto, PairInv, PairData
  <2>5. pc[r] # "idle" /\ UNCHANGED <<row, created, last>>
    BY DEF Friend!FindRow
  <2>6. l.kind = "accept" /\ row # Null /\ row.id = l.id => row.addressee = l.me
    BY <1>2 DEF Friend!Allowed, Friend!CanAccept
  <2>7. PairRequestSound(r)'
    BY <2>3, <2>4, <2>5, <2>6 DEF PairRequestSound, PairInv
  <2> QED BY <1>2, <2>3, <2>5, <2>7, OthersOfPairStand
<1> QED BY <1>1, <1>2 DEF Friend!FindRow

LEMMA CreateKeeps ==
  ASSUME PairInv, NEW r \in Requests, Friend!Reply(r), pc[r] = "write",
         \/ loc[r].kind = "request" /\ Friend!Create(r, "PENDING", Null)
         \/ loc[r].kind = "block" /\ Friend!Create(r, "BLOCKED", loc[r].me)
  PROVE  PairInv'
<1>1. CASE row # Null
  BY <1>1, ReplyKeeps DEF Friend!Create, Friend!Fails
<1>2. CASE row = Null
  <2> DEFINE me == loc[r].me
  <2>1. me \in Pair /\ me # Null /\ Friend!Other(me) \in Pair /\ Friend!Other(me) # me
    BY OtherOfTheTwo, PairIsTwo DEF PairInv, PairRequestSound
  <2>2. created \in Nat /\ created' = created + 1
    BY <1>2 DEF PairInv, PairData, Friend!Create
  <2>3. PICK word \in {"PENDING", "BLOCKED"}, by \in Pair \cup {Null} :
          /\ row' = [id |-> created', requester |-> me, addressee |-> Friend!Other(me),
                     status |-> word, blockedBy |-> by]
          /\ word = "BLOCKED" <=> by # Null
          /\ word = "PENDING" => loc[r].kind = "request"
    BY <1>2, <2>1 DEF Friend!Create
  <2>4. /\ row' \in PairRows /\ row'.id = created' /\ row'.requester = me /\ row'.addressee = Friend!Other(me)
        /\ row'.status = word /\ row'.blockedBy = by
    BY <2>1, <2>2, <2>3 DEF PairRows
  <2>5. last' = [last EXCEPT ![me] = loc[r].kind]
    BY <1>2 DEF Friend!Create, Friend!Said
  <2>6. PairData'
    BY <2>1, <2>2, <2>5, PairBlank DEF PairInv, PairData, Friend!Reply, Friend!Goto
  <2>7. PairRowSound' /\ Friend!FriendsAgreed'
    BY <2>1, <2>2, <2>3, <2>4, <2>5 DEF PairInv, PairData, PairRowSound, Friend!Consistent, Friend!FriendsAgreed
  <2> QED BY <1>2, <2>2, <2>4, <2>6, <2>7, WriteKeeps
<1> QED BY <1>1, <1>2

LEMMA AcceptKeeps ==
  ASSUME PairInv, NEW r \in Requests, Friend!Reply(r), pc[r] = "write",
         loc[r].kind = "accept",
         Friend!Update(r, loc[r].id, [row EXCEPT !.status = "ACCEPTED"])
  PROVE  PairInv'
<1> DEFINE new == [row EXCEPT !.status = "ACCEPTED"]
<1>1. CASE row = Null \/ row.id # loc[r].id \/ ~Friend!Consistent(new)
  BY <1>1, ReplyKeeps DEF Friend!Update, Friend!Fails
<1>2. CASE row # Null /\ row.id = loc[r].id /\ Friend!Consistent(new)
  <2>1. row \in PairRows
    BY <1>2 DEF PairInv, PairRowSound
  <2>2. /\ row' \in PairRows /\ row'.id = row.id /\ row'.requester = row.requester
        /\ row'.addressee = row.addressee /\ row'.status = "ACCEPTED" /\ row'.blockedBy = row.blockedBy
    BY <1>2, <2>1 DEF Friend!Update, PairRows
  <2>3. row.addressee = loc[r].me
    BY <1>2 DEF PairInv, PairRequestSound
  <2>4. last' = [last EXCEPT ![row.addressee] = "accept"] /\ created' = created
    BY <1>2, <2>3 DEF Friend!Update, Friend!Said
  \* the row was not blocked, so its requester had asked
  <2>5. row.status \in {"PENDING", "ACCEPTED"} /\ row'.blockedBy = Null
    <3>1. row'.blockedBy = Null
      BY <1>2, <2>2 DEF Friend!Consistent, Friend!Update
    <3> QED BY <1>2, <2>1, <2>2, <3>1 DEF PairInv, PairRowSound, Friend!Consistent, PairRows
  <2>6. last[row.requester] = "request" /\ row.requester # row.addressee
    BY <1>2, <2>5 DEF PairInv, PairRowSound
  <2>7. row.requester \in Pair /\ row.addressee \in Pair
    BY <2>1 DEF PairRows
  <2>8. last'[row.requester] = "request" /\ last'[row.addressee] = "accept"
    BY <2>4, <2>6, <2>7 DEF PairInv, PairData
  <2>9. PairData'
    BY <2>4, PairBlank DEF PairInv, PairData, Friend!Reply, Friend!Goto
  <2>10. PairRowSound' /\ Friend!FriendsAgreed'
    BY <1>2, <2>2, <2>4, <2>5, <2>6, <2>8 DEF PairInv, PairRowSound, Friend!Consistent, Friend!FriendsAgreed
  <2> QED BY <2>2, <2>4, <2>9, <2>10, <1>2, WriteKeeps DEF PairInv, PairData
<1> QED BY <1>1, <1>2

LEMMA BlockKeeps ==
  ASSUME PairInv, NEW r \in Requests, Friend!Reply(r), pc[r] = "write",
         loc[r].kind = "block",
         Friend!Update(r, loc[r].seen.id, [row EXCEPT !.status = "BLOCKED", !.blockedBy = loc[r].me])
  PROVE  PairInv'
<1> DEFINE new == [row EXCEPT !.status = "BLOCKED", !.blockedBy = loc[r].me]
<1>1. CASE row = Null \/ row.id # loc[r].seen.id \/ ~Friend!Consistent(new)
  BY <1>1, ReplyKeeps DEF Friend!Update, Friend!Fails
<1>2. CASE row # Null /\ row.id = loc[r].seen.id /\ Friend!Consistent(new)
  <2>1. row \in PairRows
    BY <1>2 DEF PairInv, PairRowSound
  <2>2. loc[r].me \in Pair /\ loc[r].me # Null
    BY PairIsTwo DEF PairInv, PairRequestSound
  <2>3. /\ row' \in PairRows /\ row'.id = row.id /\ row'.requester = row.requester
        /\ row'.addressee = row.addressee /\ row'.status = "BLOCKED" /\ row'.blockedBy = loc[r].me
    BY <1>2, <2>1, <2>2 DEF Friend!Update, PairRows
  <2>4. last' = [last EXCEPT ![loc[r].me] = "block"] /\ created' = created
    BY <1>2 DEF Friend!Update, Friend!Said
  <2>5. PairData'
    BY <2>4, PairBlank DEF PairInv, PairData, Friend!Reply, Friend!Goto
  <2>6. PairRowSound' /\ Friend!FriendsAgreed'
    BY <1>2, <2>2, <2>3, <2>4 DEF PairInv, PairRowSound, Friend!Consistent, Friend!FriendsAgreed
  <2> QED BY <2>3, <2>4, <2>5, <2>6, <1>2, WriteKeeps DEF PairInv, PairData
<1> QED BY <1>1, <1>2

LEMMA RemoveKeeps ==
  ASSUME PairInv, NEW r \in Requests, Friend!Reply(r), pc[r] = "write",
         loc[r].kind \in {"end", "unblock"}, Friend!Remove(r)
  PROVE  PairInv'
<1>1. CASE row = Null \/ row.id # loc[r].id
  BY <1>1, ReplyKeeps DEF Friend!Remove, Friend!Fails
<1>2. CASE row # Null /\ row.id = loc[r].id
  <2>1. row' = Null /\ created' = created /\ last' = [last EXCEPT ![loc[r].me] = loc[r].kind]
    BY <1>2 DEF Friend!Remove, Friend!Said
  <2>2. PairData'
    BY <2>1, PairBlank DEF PairInv, PairData, Friend!Reply, Friend!Goto
  <2> QED BY <2>1, <2>2, WriteKeeps DEF PairInv, PairData, PairRowSound, Friend!FriendsAgreed
<1> QED BY <1>1, <1>2

LEMMA PairStep == PairInv /\ [Friend!Next]_(Friend!vars) => PairInv'
<1> SUFFICES ASSUME PairInv, [Friend!Next]_(Friend!vars) PROVE PairInv'
  OBVIOUS
<1>1. ASSUME NEW r \in Requests, Friend!BeginRequest(r) PROVE PairInv'
  BY <1>1, BeginKeeps
<1>2. ASSUME NEW r \in Requests, Friend!BeginOnRow(r) PROVE PairInv'
  BY <1>2, BeginKeeps
<1>3. ASSUME NEW r \in Requests, Friend!FindRow(r) PROVE PairInv'
  BY <1>3, FindKeeps
<1>4. ASSUME NEW r \in Requests, Friend!Write(r) PROVE PairInv'
  <2>1. Friend!Reply(r) /\ pc[r] = "write" /\ loc[r].kind # "none" /\ loc[r] \in PairLocals
    BY <1>4 DEF Friend!Write, PairInv, PairData, PairRequestSound
  <2>2. CASE loc[r].kind = "request"
    BY <1>4, <2>1, <2>2, CreateKeeps DEF Friend!Write
  <2>3. CASE loc[r].kind = "accept"
    BY <1>4, <2>1, <2>3, AcceptKeeps DEF Friend!Write
  <2>4. CASE loc[r].kind = "block" /\ loc[r].seen = Null
    BY <1>4, <2>1, <2>4, CreateKeeps DEF Friend!Write
  <2>5. CASE loc[r].kind = "block" /\ loc[r].seen # Null
    BY <1>4, <2>1, <2>5, BlockKeeps DEF Friend!Write
  <2>6. CASE loc[r].kind \in {"end", "unblock"}
    BY <1>4, <2>1, <2>6, RemoveKeeps DEF Friend!Write
  <2> QED BY <2>1, <2>2, <2>3, <2>4, <2>5, <2>6 DEF PairLocals
<1>5. ASSUME NEW r \in Requests, Friend!Crash(r) PROVE PairInv'
  BY <1>5, ReplyKeeps DEF Friend!Crash
<1>6. CASE UNCHANGED Friend!vars
  BY <1>6 DEF Friend!vars, PairInv, PairData, PairRowSound, PairRequestSound, Friend!FriendsAgreed, Friend!Consistent
<1>7. ASSUME NEW r \in Requests, Friend!Step(r) PROVE PairInv'
  BY <1>1, <1>2, <1>3, <1>4, <1>5, <1>7 DEF Friend!Step
<1> QED BY <1>6, <1>7 DEF Friend!Next

LEMMA PairSound == PairInv => Friend!TypeOK /\ PairRowSound /\ Friend!FriendsAgreed
  BY PairIsTwo DEF PairInv, PairRowSound, Friend!TypeOK, PairRows

-----------------------------------------------------------------------------
USE PlayersAssumption

(* The page of friends, one chain of requests per slot.  What it shows is   *)
(* current once all is quiet because the only chain reads after the last   *)
(* change; nobody is shown as a friend who did not agree because a list    *)
(* brings a row as the server had it.                                      *)

PageItems == [id : Nat, outgoing : BOOLEAN]
PageKinds == {"none", "load", "request", "accept", "end", "block", "unblock"}
PageCalls == [kind : PageKinds, at : {"sent", "answered"}, id : Nat, step : Nat,
              got : Seq(PageItems \cup {Null}), ok : BOOLEAN]
PageRows == [id : Nat, requester : {a, b}, addressee : {a, b},
             status : {"PENDING", "ACCEPTED", "BLOCKED"}, blockedBy : {a, b, Null}]

ListTypes ==
  /\ created \in Nat /\ created <= MaxRows
  /\ last \in [{a, b} -> {"nothing"} \cup PageKinds]
  /\ lists \in [1..3 -> PageItems \cup {Null, Unread}]
  /\ busy \in Nat /\ calls \in [Requests -> PageCalls]
  /\ orderly \in BOOLEAN /\ missed \in BOOLEAN

Agreed == "nothing" \notin {last[a], last[b]}

\* The row is of these two; whoever it waits for was asked, and friends have both spoken.
PairRowOK ==
  row # Null =>
    /\ row \in PageRows /\ row.id \in 1..created /\ row.requester # row.addressee
    /\ row.status = "PENDING" => last[row.requester] # "nothing"
    /\ row.status = "ACCEPTED" => Agreed

\* What a list shows, or brings, is a row that was created.
ItemsOK(items) ==
  \A k \in DOMAIN items : items[k] \notin {Unread, Null} => items[k].id \in 1..created /\ (k = 1 => Agreed)

\* How far a load has come: its lists so far, or a loss.
LoadOK(l) ==
  /\ l.at = "sent" => l.ok
  /\ l.kind = "request" => l.id = 0
  /\ l.kind = "load" /\ l.ok => l.step = Len(l.got) + 1 /\ l.step <= IF l.at = "sent" THEN 3 ELSE 4
  /\ l.kind = "load" /\ l.ok /\ l.at = "answered" => l.step = 4

OneChain == orderly => \A c, d \in Requests : calls[c] # Friends!Free /\ calls[d] # Friends!Free => c = d

\* A chain that has not changed what the lists are of, or is done.
Harmless(l) == l = Friends!Free \/ (l.kind # "load" /\ (l.at = "sent" \/ ~l.ok))
Current == \A k \in 1..3 : lists[k] = Friends!Listed(k)
\* The lists a load has brought are current, but for what was missed.
Bringing(l) ==
  l.kind = "load" =>
    (l.at = "sent" /\ l.step = 1) \/ (l.ok /\ \A k \in 1..Len(l.got) : l.got[k] = Friends!Listed(k))
CurrentOK ==
  orderly /\ ~missed =>
    /\ Friends!AllRead /\ (\A c \in Requests : Harmless(calls[c])) => Current
    /\ \A c \in Requests : Bringing(calls[c])

BusyOK == busy # 0 => \E c \in Requests : calls[c].id = busy

ListInv ==
  /\ ListTypes /\ PairRowOK /\ ItemsOK(lists) /\ OneChain /\ CurrentOK /\ BusyOK
  /\ \A c \in Requests : ItemsOK(calls[c].got) /\ LoadOK(calls[c])

\* The box: a search is under way where it says so; one who waits for the answer has it.
BoxInv ==
  /\ query \in Friends!Queries /\ timer \in BOOLEAN /\ searching \in BOOLEAN /\ hasty \in BOOLEAN
  /\ lookups \in [Friends!Queries -> Nat] /\ losses \in Nat
  /\ searching => Friends!Unsettled
  /\ timer => Friends!LongEnough(query)
  /\ ~hasty => \A q \in Friends!Queries : lookups[q] > 0 => q = query /\ Friends!LongEnough(q)
  /\ ~Friends!Unsettled /\ ~hasty /\ losses = 0 =>
       results = IF Friends!LongEnough(query) THEN query ELSE Null


-----------------------------------------------------------------------------

LEMMA CallsFree ==
  /\ Friends!Free \in PageCalls
  /\ Friends!Free.kind = "none" /\ Friends!Free.at = "sent" /\ Friends!Free.id = 0 /\ Friends!Free.step = 0
  /\ Friends!Free.got = <<>> /\ Friends!Free.ok = TRUE
  BY DEF Friends!Free, PageCalls, PageKinds

LEMMA CallsLoad ==
  /\ Friends!LoadCall \in PageCalls
  /\ Friends!LoadCall.kind = "load" /\ Friends!LoadCall.at = "sent" /\ Friends!LoadCall.id = 0 /\ Friends!LoadCall.step = 1
  /\ Friends!LoadCall.got = <<>> /\ Friends!LoadCall.ok = TRUE
  BY CallsFree DEF Friends!LoadCall, PageCalls, PageKinds

\* A call that has brought nothing yet.
LEMMA NothingBrought == ASSUME NEW items, items = <<>> PROVE ItemsOK(items) /\ ItemsOK(items)'
  BY DEF ItemsOK

LEMMA NewCall ==
  ASSUME NEW m \in PageCalls, m.got = <<>>, m.at = "sent", m.ok, m.kind = "load" => m.step = 1,
         m.kind = "request" => m.id = 0
  PROVE  LoadOK(m)
  BY DEF LoadOK

\* What is shown stays a row that was created, of two who have spoken.
LEMMA ItemsStay ==
  ASSUME ListInv, created' \in Nat, created <= created', Agreed => Agreed', NEW items, ItemsOK(items)
  PROVE  \A k \in DOMAIN items : items[k] \notin {Unread, Null} => items[k].id \in 1..created' /\ (k = 1 => Agreed')
  BY DEF ItemsOK, ListInv, ListTypes

LEMMA OnlyChain ==
  ASSUME ListInv, NEW c \in Requests, orderly,
         calls[c] # Friends!Free \/ \A d \in Requests : calls[d] = Friends!Free
  PROVE  /\ \A d \in Requests \ {c} : calls[d] = Friends!Free
         /\ ~missed => (Friends!AllRead /\ Harmless(calls[c]) => Current) /\ Bringing(calls[c])
<1>1. \A d \in Requests \ {c} : calls[d] = Friends!Free
  BY DEF ListInv, OneChain
<1>2. \A d \in Requests : Harmless(calls[c]) => Harmless(calls[d])
  BY <1>1 DEF Harmless
<1> QED BY <1>1, <1>2 DEF ListInv, CurrentOK

\* A step of the chain c.
LEMMA ListMoves ==
  ASSUME ListInv, NEW c \in Requests, NEW m \in PageCalls, calls' = [calls EXCEPT ![c] = m],
         created' \in Nat, created' <= MaxRows, created <= created',
         last' \in [{a, b} -> {"nothing"} \cup PageKinds], Agreed => Agreed', PairRowOK',
         lists' \in [1..3 -> PageItems \cup {Null, Unread}], ItemsOK(lists)',
         busy' \in Nat, orderly' \in BOOLEAN, missed' \in BOOLEAN,
         LoadOK(m), ItemsOK(m.got)',
         orderly' => \A d \in Requests \ {c} : calls[d] = Friends!Free,
         busy' # 0 => busy' = m.id \/ (busy' = busy /\ calls[c].id # busy),
         orderly' /\ ~missed' => (Friends!AllRead' /\ Harmless(m) => Current') /\ Bringing(m)'
  PROVE  ListInv'
<1>1. calls' \in [Requests -> PageCalls] /\ calls'[c] = m /\ \A d \in Requests \ {c} : calls'[d] = calls[d]
  BY DEF ListInv, ListTypes
<1>2. ListTypes'
  BY <1>1 DEF ListTypes
<1>3. ASSUME NEW d \in Requests PROVE (ItemsOK(calls[d].got) /\ LoadOK(calls[d]))'
  <2>1. CASE d = c
    BY <2>1, <1>1 DEF ItemsOK, LoadOK
  <2>2. CASE d # c
    <3>1. ItemsOK(calls[d].got) /\ LoadOK(calls[d])
      BY DEF ListInv
    <3>2. calls'[d] = calls[d]
      BY <2>2, <1>1
    <3>3. \A k \in DOMAIN calls[d].got : calls[d].got[k] \notin {Unread, Null} =>
             calls[d].got[k].id \in 1..created' /\ (k = 1 => Agreed')
      BY <3>1, ItemsStay
    <3> QED BY <3>1, <3>2, <3>3 DEF ItemsOK, LoadOK
  <2> QED BY <2>1, <2>2
<1>4. OneChain'
  BY <1>1 DEF OneChain
<1>5. CurrentOK'
  <2> SUFFICES ASSUME orderly', ~missed'
               PROVE  /\ Friends!AllRead' /\ (\A d \in Requests : Harmless(calls'[d])) => Current'
                      /\ \A d \in Requests : Bringing(calls[d])'
    BY DEF CurrentOK, Harmless
  <2>1. Friends!AllRead' /\ (\A d \in Requests : Harmless(calls'[d])) => Current'
    BY <1>1
  <2>2. ASSUME NEW d \in Requests PROVE Bringing(calls[d])'
    <3>1. CASE d = c
      BY <3>1, <1>1 DEF Bringing, Friends!Listed
    <3>2. CASE d # c
      BY <3>2, <1>1, CallsFree DEF Bringing
    <3> QED BY <3>1, <3>2
  <2> QED BY <2>1, <2>2
<1>6. BusyOK'
  <2> SUFFICES ASSUME busy' # 0 PROVE \E d \in Requests : calls'[d].id = busy'
    BY DEF BusyOK
  <2>1. CASE busy' = m.id
    BY <2>1, <1>1
  <2>2. CASE busy' = busy /\ calls[c].id # busy
    <3>1. PICK d \in Requests : calls[d].id = busy
      BY <2>2 DEF ListInv, BusyOK
    <3> QED BY <3>1, <2>2, <1>1
  <2> QED BY <2>1, <2>2
<1> QED BY <1>2, <1>3, <1>4, <1>5, <1>6 DEF ListInv

-----------------------------------------------------------------------------

\* A step of a chain that finds and leaves the row as it was.
LEMMA ListMovesOnly ==
  ASSUME ListInv, NEW c \in Requests, NEW m \in PageCalls, calls' = [calls EXCEPT ![c] = m],
         UNCHANGED <<row, created, last>>,
         lists' \in [1..3 -> PageItems \cup {Null, Unread}], ItemsOK(lists),  ItemsOK(lists'),
         busy' \in Nat, orderly' \in BOOLEAN, missed' \in BOOLEAN,
         LoadOK(m), ItemsOK(m.got),
         orderly' => \A d \in Requests \ {c} : calls[d] = Friends!Free,
         busy' # 0 => busy' = m.id \/ (busy' = busy /\ calls[c].id # busy),
         orderly' /\ ~missed' =>
           /\ Friends!AllRead' /\ Harmless(m) => \A k \in 1..3 : lists'[k] = Friends!Listed(k)
           /\ Bringing(m)
  PROVE  ListInv'
<1>1. created' \in Nat /\ created' <= MaxRows /\ created <= created' /\ last' \in [{a, b} -> {"nothing"} \cup PageKinds]
  BY DEF ListInv, ListTypes
<1>2. PairRowOK' /\ (Agreed => Agreed')
  BY DEF ListInv, PairRowOK, Agreed
<1>3. ItemsOK(lists)' /\ ItemsOK(m.got)'
  BY DEF ItemsOK, Agreed
<1>4. orderly' /\ ~missed' => (Friends!AllRead' /\ Harmless(m) => Current') /\ Bringing(m)'
  BY DEF Current, Bringing, Friends!Listed
<1> QED BY <1>1, <1>2, <1>3, <1>4, ListMoves

\* The button of a row, or the one beside the other's name: nothing else was under way if
\* the chains are to be orderly.
LEMMA BeginCall ==
  ASSUME ListInv, NEW c \in Requests, NEW m \in PageCalls, Friends!Start(c, m),
         m.got = <<>>, m.at = "sent", m.ok, m.kind = "load" => m.step = 1, m.kind = "request" => m.id = 0,
         UNCHANGED <<row, created, last, lists, missed>>, busy' \in Nat, busy' = busy \/ busy' = m.id
  PROVE  ListInv'
<1>1. /\ calls[c] = Friends!Free /\ calls' = [calls EXCEPT ![c] = m]
      /\ orderly' \in BOOLEAN
      /\ orderly' => orderly /\ \A d \in Requests : calls[d] = Friends!Free
  BY DEF Friends!Start, ListInv, ListTypes
<1>2. LoadOK(m) /\ ItemsOK(m.got) /\ ItemsOK(lists) /\ ItemsOK(lists')
  BY NewCall, NothingBrought DEF ListInv
<1>3. busy' # 0 => busy' = m.id \/ (busy' = busy /\ calls[c].id # busy)
  BY <1>1, CallsFree
<1>4. orderly' /\ ~missed' =>
        /\ Friends!AllRead' /\ Harmless(m) => \A k \in 1..3 : lists'[k] = Friends!Listed(k)
        /\ Bringing(m)
  <2> HAVE orderly' /\ ~missed'
  <2>1. Friends!AllRead' => Friends!AllRead
    BY DEF Friends!AllRead
  <2>2. Friends!AllRead => Current
    BY <1>1, OnlyChain DEF Harmless
  <2> QED BY <2>1, <2>2 DEF Current, Bringing
<1>5. missed' \in BOOLEAN /\ lists' \in [1..3 -> PageItems \cup {Null, Unread}]
  BY DEF ListInv, ListTypes
<1>6. orderly' => \A d \in Requests \ {c} : calls[d] = Friends!Free
  BY <1>1
<1>7. calls' = [calls EXCEPT ![c] = m] /\ orderly' \in BOOLEAN
  BY <1>1
<1>8. UNCHANGED <<row, created, last>>
  OBVIOUS
<1> QED BY <1>2, <1>3, <1>4, <1>5, <1>6, <1>7, <1>8, ListMovesOnly

LEMMA ActStep ==
  ASSUME ListInv, NEW c \in Requests, Friends!Act(c)
  PROVE  ListInv'
<1> PICK button \in Friends!Buttons :
      /\ Friends!Start(c, [Friends!Free EXCEPT !.kind = button.kind, !.id = button.id])
      /\ busy' = button.id
  BY DEF Friends!Act
<1>1. button.kind \in {"accept", "end", "block", "unblock"} /\ button.id \in Nat
  BY DEF Friends!Buttons, ListInv, ListTypes, PageItems
<1>2. UNCHANGED <<row, created, last, lists, missed>>
  BY DEF Friends!Act, Friends!server
<1>3. ASSUME NEW m, m = [Friends!Free EXCEPT !.kind = button.kind, !.id = button.id]
      PROVE  /\ m \in PageCalls /\ m.got = <<>> /\ m.at = "sent" /\ m.ok /\ m.kind \notin {"load", "request"} /\ m.id = button.id
  BY <1>1, <1>3, CallsFree DEF PageCalls, PageKinds
<1> QED BY <1>1, <1>2, <1>3, BeginCall

LEMMA SendStep ==
  ASSUME ListInv, NEW c \in Requests, Friends!Send(c)
  PROVE  ListInv'
<1>1. /\ Friends!Start(c, [Friends!Free EXCEPT !.kind = "request"])
      /\ UNCHANGED <<row, created, last, lists, busy, missed>>
  BY DEF Friends!Send, Friends!server
<1>2. ASSUME NEW m, m = [Friends!Free EXCEPT !.kind = "request"]
      PROVE  m \in PageCalls /\ m.got = <<>> /\ m.at = "sent" /\ m.ok /\ m.kind # "load" /\ m.id = 0
  BY <1>2, CallsFree DEF PageCalls, PageKinds
<1>3. busy \in Nat
  BY DEF ListInv, ListTypes
<1> QED BY <1>1, <1>2, <1>3, BeginCall

LEMMA RenewStep ==
  ASSUME ListInv, NEW c \in Requests, Friends!Renew(c)
  PROVE  ListInv'
<1>1. Friends!Start(c, Friends!LoadCall) /\ UNCHANGED <<row, created, last, lists, busy, missed>>
  BY DEF Friends!Renew, Friends!server
<1>2. busy \in Nat
  BY DEF ListInv, ListTypes
<1> QED BY <1>1, <1>2, CallsLoad, BeginCall

\* A call that is answered, is lost, or goes on.
LEMMA AnswerIs ==
  ASSUME ListInv, NEW c \in Requests, NEW ok \in BOOLEAN, Friends!Answer(c, ok, <<>>)
  PROVE  \E m \in PageCalls :
           /\ calls' = [calls EXCEPT ![c] = m]
           /\ m.kind = calls[c].kind /\ m.at = "answered" /\ m.id = calls[c].id
           /\ m.step = calls[c].step /\ m.got = <<>> /\ m.ok = ok
<1>1. calls[c] \in PageCalls
  BY DEF ListInv, ListTypes
<1> DEFINE m == [calls[c] EXCEPT !.at = "answered", !.ok = ok, !.got = <<>>]
<1>2. /\ m.kind = calls[c].kind /\ m.at = "answered" /\ m.id = calls[c].id
      /\ m.step = calls[c].step /\ m.got = <<>> /\ m.ok = ok /\ m \in PageCalls
  <2>1. <<>> \in Seq(PageItems \cup {Null})
    OBVIOUS
  <2> QED BY <1>1, <2>1 DEF PageCalls
<1>3. calls' = [calls EXCEPT ![c] = m]
  BY DEF Friends!Answer
<1> HIDE DEF m
<1> QED BY <1>2, <1>3

-----------------------------------------------------------------------------
(* The server, and what the page does with its answers. *)

LEMMA OtherOfPair == \A p \in {a, b} : Friends!Rules!Other(p) \in {a, b} /\ Friends!Rules!Other(p) # p
  BY DEF Friends!Rules!Other

\* What either of them does about the other leaves a row that is sound.
LEMMA DoesKeeps ==
  ASSUME ListInv, NEW p \in {a, b}, NEW kind \in PageKinds \ {"none", "load"}, NEW id, Friends!Does(p, kind, id)
  PROVE  /\ created' \in Nat /\ created' <= MaxRows /\ created <= created'
         /\ last' \in [{a, b} -> {"nothing"} \cup PageKinds]
         /\ Agreed => Agreed'
         /\ PairRowOK'
<1>1. /\ created' = (IF row = Null THEN created + 1 ELSE created) /\ created' <= MaxRows
      /\ last' = [last EXCEPT ![p] = kind] /\ created \in Nat
      /\ last \in [{a, b} -> {"nothing"} \cup PageKinds]
  BY DEF Friends!Does, ListInv, ListTypes
<1>2. last' \in [{a, b} -> {"nothing"} \cup PageKinds] /\ last'[p] = kind /\ kind # "nothing"
      /\ \A q \in {a, b} \ {p} : last'[q] = last[q]
  BY <1>1 DEF PageKinds
<1>3. Agreed => Agreed'
  BY <1>2 DEF Agreed
<1>4. \A q \in {a, b} : last[q] # "nothing" => last'[q] # "nothing"
  BY <1>2
<1>5. PairRowOK'
  <2>1. CASE kind = "request"
    <3>1. row = Null
      BY <2>1 DEF Friends!Does, Friends!Rules!Allowed, Friends!Rules!CanRequest
    <3>2. row' = Friends!New(p, "PENDING", Null)
      BY <2>1 DEF Friends!Does
    <3>3. /\ row' \in PageRows /\ row'.id = created + 1 /\ row'.requester = p /\ row'.addressee # p
          /\ row'.status = "PENDING"
      BY <3>2, <1>1, OtherOfPair DEF Friends!New, PageRows
    <3> QED BY <3>1, <3>3, <1>1, <1>2 DEF PairRowOK
  <2>2. CASE kind = "accept"
    <3>1. row # Null /\ row.status = "PENDING" /\ row.addressee = p /\ row' = [row EXCEPT !.status = "ACCEPTED"]
      BY <2>2 DEF Friends!Does, Friends!Rules!Allowed, Friends!Rules!CanAccept
    <3>2. row \in PageRows /\ row.id \in 1..created /\ row.requester # row.addressee /\ last[row.requester] # "nothing"
      BY <3>1 DEF ListInv, PairRowOK
    <3>3. /\ row' \in PageRows /\ row'.id = row.id /\ row'.requester = row.requester /\ row'.addressee = row.addressee
          /\ row'.status = "ACCEPTED"
      BY <3>1, <3>2 DEF PageRows
    <3>4. Agreed'
      <4>1. {row.requester, p} = {a, b}
        BY <3>1, <3>2 DEF PageRows
      <4> QED BY <4>1, <3>1, <3>2, <1>2, <1>4 DEF Agreed, PageRows
    <3> QED BY <3>1, <3>2, <3>3, <3>4, <1>1 DEF PairRowOK
  <2>3. CASE kind = "block"
    <3>1. row' = IF row = Null THEN Friends!New(p, "BLOCKED", p) ELSE [row EXCEPT !.status = "BLOCKED", !.blockedBy = p]
      BY <2>3 DEF Friends!Does
    <3>2. CASE row = Null
      <4>1. /\ row' \in PageRows /\ row'.id = created + 1 /\ row'.requester = p /\ row'.addressee # p
            /\ row'.status = "BLOCKED"
        BY <3>1, <3>2, <1>1, OtherOfPair DEF Friends!New, PageRows
      <4> QED BY <4>1, <3>2, <1>1 DEF PairRowOK
    <3>3. CASE row # Null
      <4>1. row \in PageRows /\ row.id \in 1..created /\ row.requester # row.addressee
        BY <3>3 DEF ListInv, PairRowOK
      <4>2. /\ row' \in PageRows /\ row'.id = row.id /\ row'.requester = row.requester /\ row'.addressee = row.addressee
            /\ row'.status = "BLOCKED"
        BY <3>1, <3>3, <4>1 DEF PageRows
      <4> QED BY <4>1, <4>2, <3>3, <1>1 DEF PairRowOK
    <3> QED BY <3>2, <3>3
  <2>4. CASE kind \in {"end", "unblock"}
    <3>1. row' = Null
      BY <2>4 DEF Friends!Does
    <3> QED BY <3>1 DEF PairRowOK
  <2> QED BY <2>1, <2>2, <2>3, <2>4 DEF PageKinds
<1> QED BY <1>1, <1>2, <1>3, <1>5

LEMMA ObeyStep ==
  ASSUME ListInv, NEW c \in Requests, Friends!Obey(c)
  PROVE  ListInv'
<1>1. /\ calls[c].at = "sent" /\ calls[c].kind \notin {"none", "load"}
      /\ Friends!Does(a, calls[c].kind, calls[c].id)
      /\ Friends!Answer(c, TRUE, <<>>)
      /\ UNCHANGED <<missed, lists, busy, orderly>>
  BY DEF Friends!Obey, Friends!Asked, Friends!Kept
<1>2. PICK m \in PageCalls :
           /\ calls' = [calls EXCEPT ![c] = m]
           /\ m.kind = calls[c].kind /\ m.at = "answered" /\ m.id = calls[c].id
           /\ m.step = calls[c].step /\ m.got = <<>> /\ m.ok = TRUE
  BY <1>1, AnswerIs
<1>3. calls[c].kind \in PageKinds /\ calls[c] # Friends!Free /\ lists \in [1..3 -> PageItems \cup {Null, Unread}]
      /\ ItemsOK(lists) /\ busy \in Nat /\ orderly \in BOOLEAN /\ missed \in BOOLEAN
  BY <1>1, CallsFree DEF ListInv, ListTypes, PageCalls
<1>4. /\ created' \in Nat /\ created' <= MaxRows /\ created <= created'
      /\ last' \in [{a, b} -> {"nothing"} \cup PageKinds]
      /\ Agreed => Agreed'
      /\ PairRowOK'
  BY <1>1, <1>3, DoesKeeps
<1>5. ItemsOK(lists)' /\ ItemsOK(m.got)'
  BY <1>1, <1>2, <1>3, <1>4, ItemsStay, NothingBrought DEF ItemsOK
<1>6. orderly' => \A d \in Requests \ {c} : calls[d] = Friends!Free
  BY <1>1, <1>3, OnlyChain
<1>7. LoadOK(m) /\ ~Harmless(m) /\ Bringing(m)'
  BY <1>1, <1>2, CallsFree DEF ListInv, LoadOK, Harmless, Bringing
<1>8. busy' # 0 => busy' = m.id \/ (busy' = busy /\ calls[c].id # busy)
  BY <1>1, <1>2
<1> QED BY <1>1, <1>2, <1>3, <1>4, <1>5, <1>6, <1>7, <1>8, ListMoves

LEMMA RefuseStep ==
  ASSUME ListInv, NEW c \in Requests, Friends!Refuse(c)
  PROVE  ListInv'
<1>1. /\ calls[c].at = "sent" /\ calls[c].kind \notin {"none", "load"}
      /\ Friends!Answer(c, FALSE, <<>>)
      /\ UNCHANGED <<row, created, last, missed, lists, busy, orderly>>
  BY DEF Friends!Refuse, Friends!Asked, Friends!Kept, Friends!server
<1>2. PICK m \in PageCalls :
           /\ calls' = [calls EXCEPT ![c] = m]
           /\ m.kind = calls[c].kind /\ m.at = "answered" /\ m.id = calls[c].id
           /\ m.step = calls[c].step /\ m.got = <<>> /\ m.ok = FALSE
  BY <1>1, AnswerIs
<1>3. calls[c] # Friends!Free /\ lists \in [1..3 -> PageItems \cup {Null, Unread}]
      /\ ItemsOK(lists) /\ busy \in Nat /\ orderly \in BOOLEAN /\ missed \in BOOLEAN
  BY <1>1, CallsFree DEF ListInv, ListTypes
<1>4. LoadOK(m) /\ ItemsOK(m.got) /\ Bringing(m) /\ Harmless(calls[c])
  <2>1. LoadOK(calls[c])
    BY DEF ListInv
  <2> QED BY <2>1, <1>1, <1>2, NothingBrought DEF LoadOK, Bringing, Harmless
<1>5. orderly' => \A d \in Requests \ {c} : calls[d] = Friends!Free
  BY <1>1, <1>3, OnlyChain
<1>6. orderly' /\ ~missed' =>
        /\ Friends!AllRead' /\ Harmless(m) => \A k \in 1..3 : lists'[k] = Friends!Listed(k)
        /\ Bringing(m)
  <2>1. orderly /\ ~missed /\ Friends!AllRead => Current
    BY <1>3, <1>4, OnlyChain
  <2> QED BY <2>1, <1>1, <1>4 DEF Current, Friends!AllRead
<1>7. busy' # 0 => busy' = m.id \/ (busy' = busy /\ calls[c].id # busy)
  BY <1>1, <1>2
<1>8. ItemsOK(lists') /\ busy' \in Nat /\ orderly' \in BOOLEAN /\ missed' \in BOOLEAN
      /\ lists' \in [1..3 -> PageItems \cup {Null, Unread}] /\ UNCHANGED <<row, created, last>>
  BY <1>1, <1>3
<1> QED BY <1>2, <1>3, <1>4, <1>5, <1>6, <1>7, <1>8, ListMovesOnly

LEMMA ListedIs ==
  ASSUME ListInv, NEW k \in 1..3
  PROVE  /\ Friends!Listed(k) \in PageItems \cup {Null}
         /\ Friends!Listed(k) \notin {Unread, Null} => Friends!Listed(k).id \in 1..created /\ (k = 1 => Agreed)
<1> DEFINE there == /\ row # Null
                    /\ \/ k = 1 /\ row.status = "ACCEPTED"
                       \/ k = 2 /\ row.status = "PENDING"
                       \/ k = 3 /\ row.status = "BLOCKED" /\ row.blockedBy = a
<1>1. Friends!Listed(k) = IF there THEN [id |-> row.id, outgoing |-> row.requester = a] ELSE Null
  BY DEF Friends!Listed
<1>2. CASE there
  <2>1. row \in PageRows /\ row.id \in 1..created /\ (k = 1 => Agreed) /\ created \in Nat
    BY <1>2 DEF ListInv, PairRowOK, ListTypes
  <2>2. [id |-> row.id, outgoing |-> row.requester = a] \in PageItems
    BY <2>1 DEF PageItems, PageRows
  <2> HIDE DEF there
  <2> QED BY <1>1, <1>2, <2>1, <2>2
<1>3. CASE ~there
  BY <1>1, <1>3
<1> QED BY <1>2, <1>3

\* The next list of a load arrives, as the server has it now.
LEMMA ReadStep ==
  ASSUME ListInv, NEW c \in Requests, Friends!ReadList(c)
  PROVE  ListInv'
<1> DEFINE l == calls[c]
           m == Friends!Read(l)
<1>1. /\ l.kind = "load" /\ l.at = "sent" /\ calls' = [calls EXCEPT ![c] = m]
      /\ missed' = (IF l.step = 1 THEN FALSE ELSE missed)
      /\ UNCHANGED <<row, created, last, lists, busy, orderly>>
  BY DEF Friends!ReadList, Friends!Kept, Friends!server
<1>2. l \in PageCalls /\ l.ok /\ l.step = Len(l.got) + 1 /\ l.step <= 3 /\ l.got \in Seq(PageItems \cup {Null}) /\ l.step \in Nat
  BY <1>1 DEF ListInv, ListTypes, LoadOK, PageCalls
<1>3. l.step \in 1..3 /\ Len(l.got) = l.step - 1 /\ DOMAIN l.got = 1..(l.step - 1)
  BY <1>2
<1> DEFINE new == Friends!Listed(l.step)
<1>4. new \in PageItems \cup {Null} /\ (new \notin {Unread, Null} => new.id \in 1..created /\ (l.step = 1 => Agreed))
  BY <1>3, ListedIs
<1> DEFINE got == Append(l.got, new)
<1>5. /\ got \in Seq(PageItems \cup {Null}) /\ Len(got) = l.step /\ DOMAIN got = 1..l.step
      /\ got[l.step] = new /\ \A k \in 1..(l.step - 1) : got[k] = l.got[k]
  <2> HIDE DEF new
  <2> QED BY <1>2, <1>3, <1>4
<1>6. /\ m \in PageCalls /\ m.kind = "load" /\ m.ok /\ m.id = l.id /\ m.step = l.step + 1 /\ m.got = got
      /\ m.at = IF l.step = 3 THEN "answered" ELSE "sent"
  <2>1. m = [l EXCEPT !.got = got, !.step = l.step + 1, !.at = IF l.step = 3 THEN "answered" ELSE "sent"]
    BY DEF Friends!Read
  <2> DEFINE where == IF l.step = 3 THEN "answered" ELSE "sent"
  <2>3. where \in {"sent", "answered"} /\ l.step + 1 \in Nat
    BY <1>2
  <2>4. m = [l EXCEPT !.got = got, !.step = l.step + 1, !.at = where]
    BY <2>1
  <2> HIDE DEF m, got, l, where
  <2>5. /\ m \in PageCalls /\ m.kind = l.kind /\ m.ok = l.ok /\ m.id = l.id /\ m.step = l.step + 1
        /\ m.got = got /\ m.at = where
    BY <2>3, <2>4, <1>2, <1>5 DEF PageCalls
  <2> QED BY <2>5, <1>1, <1>2 DEF where
<1> HIDE DEF m, got
<1>7. l # Friends!Free
  BY <1>1, CallsFree
<1>8. orderly' => \A d \in Requests \ {c} : calls[d] = Friends!Free
  BY <1>1, <1>7, OnlyChain
<1>9. LoadOK(m) /\ ~Harmless(m)
  BY <1>3, <1>5, <1>6, CallsFree DEF LoadOK, Harmless
<1>10. ItemsOK(m.got)
  <2>1. ItemsOK(l.got)
    BY DEF ListInv
  <2>2. SUFFICES ASSUME NEW k \in DOMAIN got, got[k] \notin {Unread, Null}
                 PROVE  got[k].id \in 1..created /\ (k = 1 => Agreed)
    BY <1>6 DEF ItemsOK
  <2> HIDE DEF new
  <2>3. CASE k = l.step
    BY <2>2, <2>3, <1>4, <1>5
  <2>4. CASE k # l.step
    <3>1. k \in 1..(l.step - 1)
      BY <2>2, <2>4, <1>3, <1>5
    <3>2. got[k] = l.got[k] /\ k \in DOMAIN l.got
      BY <3>1, <1>3, <1>5
    <3> QED BY <3>2, <2>1, <2>2 DEF ItemsOK
  <2> QED BY <2>3, <2>4
<1>11. orderly' /\ ~missed' => Bringing(m)
  <2> HAVE orderly' /\ ~missed'
  <2>1. \A k \in 1..(l.step - 1) : l.got[k] = Friends!Listed(k)
    <3>1. CASE l.step = 1
      BY <3>1
    <3>2. CASE l.step # 1
      BY <3>2, <1>1, <1>2, <1>3, <1>7, OnlyChain DEF Bringing
    <3> QED BY <3>1, <3>2
  <2>2. got[l.step] = Friends!Listed(l.step)
    BY <1>5
  <2>3. \A k \in 1..l.step : k = l.step \/ k \in 1..(l.step - 1)
    BY <1>3
  <2>4. \A k \in 1..Len(m.got) : m.got[k] = Friends!Listed(k)
    <3> HIDE DEF new, l
    <3> QED BY <2>1, <2>2, <2>3, <1>5, <1>6
  <2> QED BY <2>4, <1>6 DEF Bringing
<1>12. /\ lists' \in [1..3 -> PageItems \cup {Null, Unread}] /\ ItemsOK(lists) /\ ItemsOK(lists')
       /\ busy' \in Nat /\ orderly' \in BOOLEAN /\ missed' \in BOOLEAN
       /\ UNCHANGED <<row, created, last>>
  BY <1>1 DEF ListInv, ListTypes
<1>13. busy' # 0 => busy' = m.id \/ (busy' = busy /\ calls[c].id # busy)
  BY <1>1, <1>6
<1>14. orderly' /\ ~missed' =>
           /\ Friends!AllRead' /\ Harmless(m) => \A k \in 1..3 : lists'[k] = Friends!Listed(k)
           /\ Bringing(m)
  BY <1>9, <1>11
<1> HIDE DEF l
<1>15. calls' = [calls EXCEPT ![c] = m]
  BY <1>1
<1> QED BY <1>6, <1>8, <1>9, <1>10, <1>12, <1>13, <1>14, <1>15, ListMovesOnly

LEMMA LoseStep ==
  ASSUME ListInv, NEW c \in Requests, Friends!Lose(c)
  PROVE  ListInv'
<1>1. /\ calls[c] # Friends!Free /\ Friends!Answer(c, FALSE, <<>>) /\ missed' = TRUE
      /\ UNCHANGED <<row, created, last, lists, busy, orderly>>
  BY DEF Friends!Lose, Friends!server
<1>2. PICK m \in PageCalls :
           /\ calls' = [calls EXCEPT ![c] = m]
           /\ m.kind = calls[c].kind /\ m.at = "answered" /\ m.id = calls[c].id
           /\ m.step = calls[c].step /\ m.got = <<>> /\ m.ok = FALSE
  BY <1>1, AnswerIs
<1>3. LoadOK(m) /\ ItemsOK(m.got)
  BY <1>2, NothingBrought DEF LoadOK, ListInv
<1>4. orderly' => \A d \in Requests \ {c} : calls[d] = Friends!Free
  BY <1>1, OnlyChain
<1>5. busy' # 0 => busy' = m.id \/ (busy' = busy /\ calls[c].id # busy)
  BY <1>1, <1>2
<1>6. /\ lists' \in [1..3 -> PageItems \cup {Null, Unread}] /\ ItemsOK(lists) /\ ItemsOK(lists')
      /\ busy' \in Nat /\ orderly' \in BOOLEAN /\ missed' \in BOOLEAN /\ missed'
      /\ UNCHANGED <<row, created, last>>
  BY <1>1 DEF ListInv, ListTypes
<1> QED BY <1>2, <1>3, <1>4, <1>5, <1>6, ListMovesOnly

\* The other player: the page has missed it.
LEMMA ElsewhereStep ==
  ASSUME ListInv, Friends!Elsewhere
  PROVE  ListInv'
<1>1. /\ missed' = TRUE /\ UNCHANGED <<calls, lists, busy, orderly>>
      /\ \E kind \in PageKinds \ {"none", "load"} : \E id : Friends!Does(b, kind, id)
  BY DEF Friends!Elsewhere, Friends!Kept, PageKinds
<1>2. /\ created' \in Nat /\ created' <= MaxRows /\ created <= created'
      /\ last' \in [{a, b} -> {"nothing"} \cup PageKinds]
      /\ Agreed => Agreed'
      /\ PairRowOK'
  BY <1>1, DoesKeeps
<1>3. ItemsOK(lists)'
  BY <1>1, <1>2, ItemsStay DEF ListInv, ItemsOK
<1>4. ASSUME NEW c \in Requests PROVE (ItemsOK(calls[c].got) /\ LoadOK(calls[c]))'
  <2>1. ItemsOK(calls[c].got) /\ LoadOK(calls[c])
    BY DEF ListInv
  <2>2. \A k \in DOMAIN calls[c].got : calls[c].got[k] \notin {Unread, Null} =>
           calls[c].got[k].id \in 1..created' /\ (k = 1 => Agreed')
    BY <2>1, <1>2, ItemsStay
  <2> QED BY <2>1, <2>2, <1>1 DEF ItemsOK, LoadOK
<1>5. CurrentOK' /\ BusyOK' /\ OneChain'
  BY <1>1 DEF ListInv, CurrentOK, BusyOK, OneChain
<1> QED BY <1>1, <1>2, <1>3, <1>4, <1>5 DEF ListInv, ListTypes

\* The chain ends, or becomes a load.
LEMMA ThreeLists ==
  ASSUME NEW S, NEW s \in Seq(S), Len(s) = 3
  PROVE  DOMAIN s = 1..3 /\ \A k \in 1..3 : s[k] \in S
  BY LenProperties, ElementOfSeq

LEMMA ChainEnds ==
  ASSUME ListInv, NEW c \in Requests, calls[c].at = "answered",
         UNCHANGED <<row, created, last, orderly, missed>>,
         NEW m \in PageCalls, calls' = [calls EXCEPT ![c] = m],
         m = Friends!Free \/ (m.kind = "load" /\ m.at = "sent" /\ m.step = 1 /\ m.got = <<>> /\ m.ok),
         busy' = 0 \/ (busy' = busy /\ (calls[c].id = m.id \/ calls[c].id = 0)),
         \/ lists' = lists /\ (m = Friends!Free => ~calls[c].ok)
         \/ lists' = calls[c].got /\ calls[c].kind = "load" /\ calls[c].ok
  PROVE  ListInv'
<1>1. calls[c] # Friends!Free /\ calls[c] \in PageCalls /\ busy \in Nat /\ orderly \in BOOLEAN /\ missed \in BOOLEAN
      /\ lists \in [1..3 -> PageItems \cup {Null, Unread}] /\ ItemsOK(lists) /\ ItemsOK(calls[c].got) /\ LoadOK(calls[c])
  BY CallsFree DEF ListInv, ListTypes
<1>2. LoadOK(m) /\ ItemsOK(m.got)
  BY CallsFree, NothingBrought DEF LoadOK
<1>3. orderly' => \A d \in Requests \ {c} : calls[d] = Friends!Free
  BY <1>1, OnlyChain
<1>4. ASSUME calls[c].kind = "load", calls[c].ok
      PROVE  Len(calls[c].got) = 3 /\ calls[c].got \in [1..3 -> PageItems \cup {Null, Unread}]
  <2> DEFINE got == calls[c].got
  <2>1. got \in Seq(PageItems \cup {Null}) /\ calls[c].step \in Nat
    BY <1>1 DEF PageCalls
  <2>2. Len(got) = 3
    BY <1>1, <1>4, <2>1 DEF LoadOK
  <2> HIDE DEF got
  <2>3. DOMAIN got = 1..3 /\ \A k \in 1..3 : got[k] \in PageItems \cup {Null}
    BY <2>1, <2>2, ThreeLists
  <2>4. got \in [1..3 -> PageItems \cup {Null, Unread}]
    BY <2>1, <2>3
  <2> QED BY <2>2, <2>4 DEF got
<1>5. lists' \in [1..3 -> PageItems \cup {Null, Unread}] /\ ItemsOK(lists')
  BY <1>1, <1>4
<1>6. busy' \in Nat /\ (busy' # 0 => busy' = m.id \/ (busy' = busy /\ calls[c].id # busy))
  BY <1>1
<1>7. orderly' /\ ~missed' =>
           /\ Friends!AllRead' /\ Harmless(m) => \A k \in 1..3 : lists'[k] = Friends!Listed(k)
           /\ Bringing(m)
  <2> HAVE orderly' /\ ~missed'
  <2>1. Bringing(m)
    BY CallsFree DEF Bringing
  <2>2. (Friends!AllRead /\ Harmless(calls[c]) => Current) /\ Bringing(calls[c])
    BY <1>1, OnlyChain
  <2>3. Friends!AllRead' /\ Harmless(m) => m = Friends!Free
    BY DEF Harmless
  <2>4. CASE lists' = calls[c].got /\ calls[c].kind = "load" /\ calls[c].ok
    BY <2>1, <2>2, <2>4, <1>4 DEF Bringing
  <2>5. CASE lists' = lists /\ ~calls[c].ok
    <3>1. calls[c].kind # "load"
      BY <2>2, <2>5 DEF Bringing
    <3> QED BY <2>1, <2>2, <2>5, <3>1 DEF Harmless, Friends!AllRead, Current
  <2> QED BY <2>1, <2>3, <2>4, <2>5
<1>8. orderly' \in BOOLEAN /\ missed' \in BOOLEAN /\ UNCHANGED <<row, created, last>>
  BY <1>1
<1> QED BY <1>1, <1>2, <1>3, <1>5, <1>6, <1>7, <1>8, ListMovesOnly

LEMMA PageAnswerStep ==
  ASSUME ListInv, NEW c \in Requests, Friends!Page(c)
  PROVE  ListInv'
<1>1. CASE Friends!AfterAct(c)
  <2>1. /\ calls[c].at = "answered" /\ calls[c].kind # "load"
        /\ UNCHANGED <<row, created, last, lists, orderly, missed>>
    BY <1>1 DEF Friends!AfterAct, Friends!Answered, Friends!Actions, Friends!server
  <2>2. CASE calls[c].ok
    <3> DEFINE m == [Friends!LoadCall EXCEPT !.id = calls[c].id]
    <3>1. calls' = [calls EXCEPT ![c] = m] /\ busy' = busy
      BY <1>1, <2>2 DEF Friends!AfterAct
    <3>2. calls[c].id \in Nat
      BY DEF ListInv, ListTypes, PageCalls
    <3>3. m \in PageCalls /\ m.kind = "load" /\ m.at = "sent" /\ m.step = 1 /\ m.got = <<>> /\ m.ok /\ m.id = calls[c].id
      BY <3>2, CallsLoad DEF PageCalls
    <3>4. m # Friends!Free
      BY <3>3, CallsFree
    <3> HIDE DEF m
    <3> QED BY <2>1, <3>1, <3>3, <3>4, ChainEnds
  <2>3. CASE ~calls[c].ok
    <3>1. calls' = [calls EXCEPT ![c] = Friends!Free] /\ busy' = 0
      BY <1>1, <2>3 DEF Friends!AfterAct
    <3> QED BY <2>1, <2>3, <3>1, CallsFree, ChainEnds
  <2> QED BY <2>2, <2>3
<1>2. CASE Friends!AfterSend(c)
  <2>1. /\ calls[c].at = "answered" /\ calls[c].kind # "load"
        /\ UNCHANGED <<row, created, last, lists, busy, orderly, missed>>
        /\ calls' = [calls EXCEPT ![c] = IF calls[c].ok THEN Friends!LoadCall ELSE Friends!Free]
    BY <1>2 DEF Friends!AfterSend, Friends!Answered, Friends!server
  <2>2. calls[c].id = 0
    BY <1>2 DEF Friends!AfterSend, Friends!Answered, ListInv, LoadOK
  <2>3. CASE calls[c].ok
    BY <2>1, <2>2, <2>3, CallsLoad, CallsFree, ChainEnds
  <2>4. CASE ~calls[c].ok
    BY <2>1, <2>2, <2>4, CallsFree, ChainEnds
  <2> QED BY <2>3, <2>4
<1>3. CASE Friends!AfterLoad(c)
  <2>1. /\ calls[c].at = "answered" /\ calls[c].kind = "load"
        /\ UNCHANGED <<row, created, last, orderly, missed>>
        /\ calls' = [calls EXCEPT ![c] = Friends!Free]
        /\ lists' = (IF calls[c].ok THEN calls[c].got ELSE lists)
        /\ busy' = (IF calls[c].id # 0 THEN 0 ELSE busy)
    BY <1>3 DEF Friends!AfterLoad, Friends!Answered, Friends!server
  <2> QED BY <2>1, CallsFree, ChainEnds
<1> QED BY <1>1, <1>2, <1>3 DEF Friends!Page

LEMMA ListKept ==
  ASSUME ListInv, UNCHANGED <<row, created, last, lists, busy, calls, orderly, missed>>
  PROVE  ListInv'
  BY DEF ListInv, ListTypes, PairRowOK, ItemsOK, OneChain, CurrentOK, BusyOK, LoadOK, Agreed, Friends!AllRead, Harmless, Current,
     Bringing, Friends!Listed

LEMMA ListStart == Friends!Init => ListInv
<1> SUFFICES ASSUME Friends!Init PROVE ListInv
  OBVIOUS
<1>1. PICK c \in Requests : calls = [d \in Requests |-> IF d = c THEN Friends!LoadCall ELSE Friends!Free]
  BY DEF Friends!Init
<1>2. /\ row = Null /\ created = 0 /\ last = [p \in {a, b} |-> "nothing"]
      /\ lists = <<Unread, Unread, Unread>> /\ busy = 0 /\ orderly = TRUE /\ missed = FALSE
  BY DEF Friends!Init
<1>3. ListTypes
  <2>1. lists \in [1..3 -> PageItems \cup {Null, Unread}]
    BY <1>2
  <2>2. last \in [{a, b} -> {"nothing"} \cup PageKinds]
    BY <1>2
  <2>3. Friends!LoadCall \in PageCalls /\ Friends!Free \in PageCalls
    BY CallsFree, CallsLoad
  <2>4. calls \in [Requests -> PageCalls]
    <3> HIDE DEF PageCalls
    <3> QED BY <1>1, <2>3
  <2>5. created \in Nat /\ created <= MaxRows /\ busy \in Nat
    BY <1>2, PlayersAssumption
  <2>6. orderly \in BOOLEAN /\ missed \in BOOLEAN
    BY <1>2
  <2> QED BY <2>1, <2>2, <2>4, <2>5, <2>6 DEF ListTypes
<1>4. /\ \A d \in Requests : calls[d] = Friends!LoadCall \/ calls[d] = Friends!Free
      /\ calls[c] = Friends!LoadCall /\ \A d \in Requests \ {c} : calls[d] = Friends!Free
  BY <1>1
<1>5. \A d \in Requests : ItemsOK(calls[d].got) /\ LoadOK(calls[d]) /\ Bringing(calls[d])
  BY <1>4, CallsFree, CallsLoad DEF ItemsOK, LoadOK, Bringing
<1>6. ~Friends!AllRead /\ ItemsOK(lists)
  <2>1. \A k \in 1..3 : lists[k] = Unread
    BY <1>2
  <2>2. DOMAIN lists = 1..3
    BY <1>3 DEF ListTypes
  <2> QED BY <2>1, <2>2 DEF Friends!AllRead, ItemsOK
<1> QED BY <1>2, <1>3, <1>4, <1>5, <1>6 DEF ListInv, PairRowOK, OneChain, CurrentOK, BusyOK

-----------------------------------------------------------------------------
(* The search box. *)

LEMMA BoxStart == Friends!Init => BoxInv
<1> SUFFICES ASSUME Friends!Init PROVE BoxInv
  OBVIOUS
<1>1. /\ query = "" /\ timer = FALSE /\ results = Null /\ searching = FALSE /\ losses = 0 /\ hasty = FALSE
      /\ lookups = [q \in Friends!Queries |-> 0]
  BY DEF Friends!Init
<1>2. lookups \in [Friends!Queries -> Nat] /\ \A q \in Friends!Queries : lookups[q] = 0
  BY <1>1
<1>3. query \in Friends!Queries
  BY <1>1 DEF Friends!Queries
<1>4. ~Friends!LongEnough(query)
  BY <1>1 DEF Friends!LongEnough
<1>5. losses \in Nat /\ timer \in BOOLEAN /\ searching \in BOOLEAN /\ hasty \in BOOLEAN
  BY <1>1
<1>6. \A q \in Friends!Queries : lookups[q] > 0 => q = query /\ Friends!LongEnough(q)
  BY <1>2
<1> QED BY <1>1, <1>2, <1>3, <1>4, <1>5, <1>6 DEF BoxInv

\* Whatever leaves the box alone, a lost answer at most.
LEMMA BoxKept ==
  ASSUME BoxInv, UNCHANGED Friends!box, losses' = losses \/ losses' = losses + 1
  PROVE  BoxInv'
<1>1. UNCHANGED <<query, timer, lookups, results, searching, hasty>>
  BY DEF Friends!box
<1>2. losses' \in Nat /\ (losses' = 0 => losses = 0) /\ (Friends!Unsettled <=> Friends!Unsettled')
  BY <1>1 DEF BoxInv, Friends!Unsettled
<1> QED BY <1>1, <1>2 DEF BoxInv, Friends!LongEnough

LEMMA TypeBox ==
  ASSUME BoxInv, Friends!Type
  PROVE  BoxInv'
  BY DEF BoxInv, Friends!Type, Friends!Typed, Friends!Unsettled, Friends!LongEnough, Friends!Queries, Friends!bounds

LEMMA LookBox ==
  ASSUME BoxInv, Friends!Look
  PROVE  BoxInv'
<1>1. /\ timer /\ lookups[query] = 0 /\ timer' = FALSE /\ lookups' = [lookups EXCEPT ![query] = 1]
      /\ UNCHANGED <<query, results, searching, hasty, losses>>
  BY DEF Friends!Look, Friends!bounds
<1>2. lookups' \in [Friends!Queries -> Nat] /\ lookups'[query] = 1 /\ \A q \in Friends!Queries \ {query} : lookups'[q] = lookups[q]
  BY <1>1 DEF BoxInv
<1>3. Friends!Unsettled'
  BY <1>1, <1>2 DEF BoxInv, Friends!Unsettled
<1> QED BY <1>1, <1>2, <1>3 DEF BoxInv, Friends!LongEnough

LEMMA FoundBox ==
  ASSUME BoxInv, Friends!Found
  PROVE  BoxInv'
<1>1. PICK q \in Friends!Queries :
       /\ lookups[q] > 0 /\ lookups' = [lookups EXCEPT ![q] = 0]
       /\ \/ results' = q /\ losses' = losses
          \/ losses' = losses + 1
  BY DEF Friends!Found
<1>2. searching' = FALSE /\ UNCHANGED <<query, timer, hasty>>
  BY DEF Friends!Found
<1>3. lookups' \in [Friends!Queries -> Nat] /\ lookups'[q] = 0 /\ \A p \in Friends!Queries \ {q} : lookups'[p] = lookups[p]
  BY <1>1 DEF BoxInv
<1>4. losses \in Nat /\ losses' \in Nat /\ query \in Friends!Queries /\ timer \in BOOLEAN /\ hasty \in BOOLEAN
  BY <1>1 DEF BoxInv
<1>5. \A p \in Friends!Queries : lookups'[p] > 0 => lookups[p] > 0
  BY <1>3
<1>6. /\ timer => Friends!LongEnough(query)
      /\ ~hasty => \A p \in Friends!Queries : lookups[p] > 0 => p = query /\ Friends!LongEnough(p)
  BY DEF BoxInv
<1>7. ~hasty' => \A p \in Friends!Queries : lookups'[p] > 0 => p = query' /\ Friends!LongEnough(p)
  BY <1>2, <1>5, <1>6
<1>8. ASSUME ~hasty', losses' = 0 PROVE results' = IF Friends!LongEnough(query') THEN query' ELSE Null
  <2>1. losses' # losses + 1
    BY <1>4, <1>8
  <2>2. results' = q
    BY <1>1, <2>1
  <2>3. q = query /\ Friends!LongEnough(q)
    BY <1>1, <1>2, <1>6, <1>8
  <2> QED BY <1>2, <2>2, <2>3
<1>9. query' \in Friends!Queries /\ (timer' => Friends!LongEnough(query'))
  BY <1>2, <1>4, <1>6
<1> QED BY <1>2, <1>3, <1>4, <1>7, <1>8, <1>9 DEF BoxInv

-----------------------------------------------------------------------------

LEMMA PageStart == Friends!Init => ListInv /\ BoxInv
  BY ListStart, BoxStart

LEMMA PageStep == ListInv /\ BoxInv /\ [Friends!Next]_(Friends!vars) => ListInv' /\ BoxInv'
<1> SUFFICES ASSUME ListInv, BoxInv, [Friends!Next]_(Friends!vars) PROVE ListInv' /\ BoxInv'
  OBVIOUS
<1>1. CASE UNCHANGED Friends!vars
  BY <1>1, ListKept, BoxKept DEF Friends!vars, Friends!server, Friends!bounds
<1>2. CASE Friends!Type
  BY <1>2, TypeBox, ListKept DEF Friends!Type, Friends!server
<1>3. CASE Friends!Look
  BY <1>3, LookBox, ListKept DEF Friends!Look, Friends!server
<1>4. CASE Friends!Found
  BY <1>4, FoundBox, ListKept DEF Friends!Found, Friends!server
<1>5. CASE Friends!Elsewhere
  BY <1>5, ElsewhereStep, BoxKept DEF Friends!Elsewhere, Friends!Kept, Friends!bounds
<1>6. ASSUME NEW c \in Requests, Friends!Player(c) PROVE ListInv' /\ BoxInv'
  <2>1. CASE Friends!Act(c)
    BY <2>1, ActStep, BoxKept DEF Friends!Act, Friends!bounds
  <2>2. CASE Friends!Send(c)
    BY <2>2, SendStep, BoxKept DEF Friends!Send, Friends!bounds
  <2>3. CASE Friends!Renew(c)
    BY <2>3, RenewStep, BoxKept DEF Friends!Renew
  <2> QED BY <1>6, <2>1, <2>2, <2>3 DEF Friends!Player
<1>7. ASSUME NEW c \in Requests, Friends!Server(c) PROVE ListInv' /\ BoxInv'
  <2>1. CASE Friends!Obey(c)
    BY <2>1, ObeyStep, BoxKept DEF Friends!Obey, Friends!Kept, Friends!bounds
  <2>2. CASE Friends!Refuse(c)
    BY <2>2, RefuseStep, BoxKept DEF Friends!Refuse, Friends!Kept, Friends!bounds
  <2>3. CASE Friends!ReadList(c)
    BY <2>3, ReadStep, BoxKept DEF Friends!ReadList, Friends!Kept, Friends!bounds
  <2>4. CASE Friends!Lose(c)
    BY <2>4, LoseStep, BoxKept DEF Friends!Lose
  <2> QED BY <1>7, <2>1, <2>2, <2>3, <2>4 DEF Friends!Server
<1>8. ASSUME NEW c \in Requests, Friends!Page(c) PROVE ListInv' /\ BoxInv'
  BY <1>8, PageAnswerStep, BoxKept DEF Friends!Page, Friends!AfterAct, Friends!AfterSend, Friends!AfterLoad, Friends!bounds
<1> QED BY <1>1, <1>2, <1>3, <1>4, <1>5, <1>6, <1>7, <1>8 DEF Friends!Next

LEMMA PageSound ==
  ASSUME ListInv, BoxInv
  PROVE  /\ Friends!TypeOK /\ Friends!FriendWasAgreed
         /\ Friends!QuietPageIsCurrent /\ Friends!PageSettles
<1>1. Friends!TypeOK /\ Friends!FriendWasAgreed
  BY DEF ListInv, ListTypes, ItemsOK, BoxInv, Friends!TypeOK, Friends!FriendWasAgreed, Agreed
<1>2. Friends!QuietPageIsCurrent
  BY DEF ListInv, CurrentOK, Harmless, Current, Friends!Quiet, Friends!QuietPageIsCurrent
<1>3. Friends!PageSettles
  BY CallsFree DEF ListInv, BusyOK, BoxInv, Friends!Quiet, Friends!PageSettles
<1> QED BY <1>1, <1>2, <1>3

-----------------------------------------------------------------------------

FriendsInv ==
  /\ focus = "friends" => PairInv
  /\ focus \in {"list", "box"} => ListInv /\ BoxInv

LEMMA FriendsOfPeople ==
  ASSUME FriendsInv, [MCNext]_everywhere
  PROVE  FriendsInv'
<1>1. focus' = focus
  BY DEF MCNext, everywhere
<1>2. ASSUME focus = "friends" PROVE PairInv'
  <2>1. [Friend!Next]_(Friend!vars)
    BY <1>2 DEF MCNext, ServerNext, PageNext, everywhere, vars, Friend!vars, friends
  <2> QED BY <2>1, <1>2, PairStep DEF FriendsInv
<1>3. ASSUME focus \in {"list", "box"} PROVE ListInv' /\ BoxInv'
  <2>1. [Friends!Next]_(Friends!vars)
    BY <1>3 DEF MCNext, ServerNext, PageNext, everywhere, pages, friendList, friends, signIn, Friends!vars, Friends!server,
       Friends!box, Friends!bounds
  <2> QED BY <2>1, <1>3, PageStep DEF FriendsInv
<1> QED BY <1>1, <1>2, <1>3 DEF FriendsInv

\* Nobody is a friend, on the server or on the page, who did not ask or accept; the quiet
\* page is current, and its search box settles (friends.repository, dostlar/page.tsx).
THEOREM FriendsOfPeopleAgreed == MCSpec => []FriendsAgreed
<1>1. MCInit => FriendsInv
  BY PairStart, PageStart DEF MCInit, ServerInit, PageInit, FriendsInv
<1>2. FriendsInv => FriendsAgreed
  <2> SUFFICES ASSUME FriendsInv PROVE FriendsAgreed
    OBVIOUS
  <2>1. focus = "friends" => Friend!TypeOK /\ Friend!FriendsAgreed
    BY PairSound DEF FriendsInv
  <2> QED BY <2>1, PageSound DEF FriendsInv, FriendsAgreed
<1> QED BY <1>1, <1>2, FriendsOfPeople, PTL DEF MCSpec

-----------------------------------------------------------------------------
(* The page of the queue.  A player whose game has begun is told by the push, *)
(* or by the look-up that every connection and every entry of the queue asks  *)
(* for: the invariant says which of these is still to come.                   *)

LobbyGot == SUBSET {"old", "new", "queued", "refused"}
LobbyCalls == [kind : {"none", "load", "recover", "join", "leave"},
               at : {"sent", "looking", "pairing", "answered"},
               got : LobbyGot]

LobbyTypes ==
  /\ calls \in [Requests -> LobbyCalls] /\ losses \in Nat /\ games \subseteq {"old", "new"}
  /\ valid \in BOOLEAN /\ owed \in BOOLEAN /\ slipped \in BOOLEAN /\ pushed \in BOOLEAN
  /\ socket \in {"down", "up", "joined", "dead"}

\* Only a request to join is taken into the queue, and only a look-up is answered with games.
JoinsOnly == \A c \in Requests : calls[c].at \in {"looking", "pairing"} => calls[c].kind = "join"

\* The game of the queue is not known before it exists, and never to the page that waits for it.
NewIsNew ==
  /\ "new" \notin known /\ (owed => "new" \in games)
  /\ "new" \notin games =>
       /\ listed # Unread => "new" \notin listed
       /\ \A c \in Requests : calls[c].kind \in {"load", "recover"} => "new" \notin calls[c].got

\* A look-up that has found the game, or will.
Looking(call) == call.kind = "recover" /\ (call.at = "sent" \/ (call.at = "answered" /\ "new" \in call.got))

NewsOnItsWay ==
  /\ losses = 0 /\ ~slipped /\ shown = "lobby" /\ queue = "queued"
  /\ "new" \in games /\ ~owed /\ ~pushed /\ socket \in {"up", "joined"}
  => \E c \in Requests : Looking(calls[c])

TokenOnItsWay ==
  /\ losses = 0 /\ shown = "lobby" /\ queue # "idle" /\ socket \in {"up", "dead"} /\ ~valid
  => \E c \in Requests : calls[c] # Lobby!Free /\ calls[c].at = "sent"

LobbyInv ==
  /\ LobbyTypes /\ JoinsOnly /\ NewIsNew /\ NewsOnItsWay /\ TokenOnItsWay
  /\ socket = "dead" => ~valid

-----------------------------------------------------------------------------

LEMMA LobbyCall ==
  ASSUME NEW kind \in {"none", "load", "recover", "join", "leave"}
  PROVE  /\ Lobby!Call(kind) \in LobbyCalls /\ Lobby!Call(kind).kind = kind
         /\ Lobby!Call(kind).at = "sent" /\ Lobby!Call(kind).got = {}
  BY DEF Lobby!Call, Lobby!Free, LobbyCalls, LobbyGot

LEMMA LobbyFree ==
  Lobby!Free \in LobbyCalls /\ Lobby!Free.kind = "none" /\ Lobby!Free.at = "sent" /\ Lobby!Free.got = {}
  BY DEF Lobby!Free, LobbyCalls, LobbyGot

LEMMA GotOK == {} \in LobbyGot /\ {"new"} \in LobbyGot /\ {"queued"} \in LobbyGot /\ {"refused"} \in LobbyGot
  BY DEF LobbyGot

LEMMA LobbyAnswer ==
  ASSUME NEW call \in LobbyCalls, NEW got \in LobbyGot,
         NEW m, m = [call EXCEPT !.at = "answered", !.got = got]
  PROVE  m \in LobbyCalls /\ m.kind = call.kind /\ m.at = "answered" /\ m.got = got
  BY DEF LobbyCalls

LEMMA LobbyMoves ==
  ASSUME NEW call \in LobbyCalls, NEW at \in {"looking", "pairing"}, NEW m, m = [call EXCEPT !.at = at]
  PROVE  m \in LobbyCalls /\ m.kind = call.kind /\ m.at = at
  BY DEF LobbyCalls

\* One request of the page takes another form: what the others look for is still looked for.
LEMMA CallMoves ==
  ASSUME LobbyInv, NEW c \in Requests, NEW m \in LobbyCalls, calls' = [calls EXCEPT ![c] = m],
         m.at \in {"looking", "pairing"} => m.kind = "join",
         "new" \notin known', UNCHANGED <<games, owed, valid, socket, pushed, slipped, losses>>,
         "new" \notin games => /\ listed' # Unread => "new" \notin listed'
                               /\ m.kind \in {"load", "recover"} => "new" \notin m.got,
         shown' = "lobby" /\ queue' = "queued" /\ "new" \in games =>
           Looking(m) \/ (shown = "lobby" /\ queue = "queued" /\ ~Looking(calls[c])),
         shown' = "lobby" /\ queue' # "idle" =>
           \/ m # Lobby!Free /\ m.at = "sent"
           \/ shown = "lobby" /\ queue # "idle" /\ (calls[c] = Lobby!Free \/ calls[c].at # "sent" \/ valid)
  PROVE  LobbyInv'
<1>1. /\ calls' \in [Requests -> LobbyCalls] /\ calls'[c] = m
      /\ \A d \in Requests \ {c} : calls'[d] = calls[d]
  BY DEF LobbyInv, LobbyTypes
<1>2. LobbyTypes' /\ (socket' = "dead" => ~valid')
  BY <1>1 DEF LobbyInv, LobbyTypes
<1>3. JoinsOnly'
  BY <1>1 DEF LobbyInv, JoinsOnly
<1>4. NewIsNew'
  BY <1>1 DEF LobbyInv, NewIsNew
<1>5. NewsOnItsWay'
  <2> SUFFICES ASSUME losses' = 0, ~slipped', shown' = "lobby", queue' = "queued",
                      "new" \in games', ~owed', ~pushed', socket' \in {"up", "joined"}
               PROVE  \E d \in Requests : Looking(calls'[d])
    BY DEF NewsOnItsWay, Looking
  <2>1. CASE Looking(m)
    BY <2>1, <1>1
  <2>2. CASE ~Looking(m)
    <3>1. PICK d \in Requests : Looking(calls[d])
      BY <2>2 DEF LobbyInv, NewsOnItsWay
    <3>2. d # c
      BY <3>1, <2>2
    <3> QED BY <3>1, <3>2, <1>1
  <2> QED BY <2>1, <2>2
<1>6. TokenOnItsWay'
  <2> SUFFICES ASSUME losses' = 0, shown' = "lobby", queue' # "idle", socket' \in {"up", "dead"}, ~valid'
               PROVE  \E d \in Requests : calls'[d] # Lobby!Free /\ calls'[d].at = "sent"
    BY DEF TokenOnItsWay, Lobby!Free
  <2>1. CASE m # Lobby!Free /\ m.at = "sent"
    BY <2>1, <1>1
  <2>2. CASE ~(m # Lobby!Free /\ m.at = "sent")
    <3>1. PICK d \in Requests : calls[d] # Lobby!Free /\ calls[d].at = "sent"
      BY <2>2 DEF LobbyInv, TokenOnItsWay
    <3>2. d # c
      BY <3>1, <2>2
    <3> QED BY <3>1, <3>2, <1>1
  <2> QED BY <2>1, <2>2
<1> QED BY <1>2, <1>3, <1>4, <1>5, <1>6 DEF LobbyInv

LEMMA LobbyStart == Lobby!Init => LobbyInv
<1> SUFFICES ASSUME Lobby!Init PROVE LobbyInv
  OBVIOUS
<1>1. PICK c \in Requests : calls = [x \in Requests |-> IF x = c THEN Lobby!Call("load") ELSE Lobby!Free]
  BY DEF Lobby!Init
<1>2. \A x \in Requests : calls[x] \in LobbyCalls /\ calls[x].at = "sent" /\ calls[x].got = {}
  BY <1>1, LobbyCall, LobbyFree
<1>3. calls \in [Requests -> LobbyCalls]
  BY <1>1, <1>2
<1>4. /\ games \subseteq {"old", "new"} /\ known = {} /\ losses = 0 /\ socket = "down" /\ queue = "idle"
      /\ listed = Unread /\ owed = FALSE /\ valid = TRUE /\ pushed = FALSE /\ slipped = FALSE
  BY DEF Lobby!Init
<1>5. LobbyTypes
  BY <1>3, <1>4 DEF LobbyTypes
<1> QED BY <1>2, <1>4, <1>5 DEF LobbyInv, JoinsOnly, NewIsNew, NewsOnItsWay, TokenOnItsWay

LEMMA AskingStep ==
  ASSUME LobbyInv, NEW c \in Requests, Lobby!Join(c) \/ Lobby!Leave(c)
  PROVE  LobbyInv'
<1>1. CASE Lobby!Join(c)
  <2>1. /\ calls' = [calls EXCEPT ![c] = Lobby!Call("join")] /\ queue' = "joining" /\ "new" \notin games
        /\ known' = IF listed = Unread THEN {} ELSE listed
        /\ UNCHANGED <<games, owed, valid, socket, pushed, slipped, losses, shown, listed>>
    BY <1>1 DEF Lobby!Join, Lobby!server, Lobby!bounds
  <2>2. "new" \notin known' /\ (listed' # Unread => "new" \notin listed')
    BY <2>1 DEF LobbyInv, NewIsNew
  <2>3. Lobby!Call("join") # Lobby!Free
    BY LobbyCall, LobbyFree
  <2> QED BY <2>1, <2>2, <2>3, LobbyCall, CallMoves
<1>2. CASE Lobby!Leave(c)
  <2>1. /\ calls' = [calls EXCEPT ![c] = Lobby!Call("leave")] /\ calls[c] = Lobby!Free
        /\ UNCHANGED <<games, owed, valid, socket, pushed, slipped, losses, shown, listed, queue, known>>
    BY <1>2 DEF Lobby!Leave, Lobby!server, Lobby!bounds, Lobby!page
  <2>2. "new" \notin known' /\ ("new" \notin games => (listed' # Unread => "new" \notin listed'))
    BY <2>1 DEF LobbyInv, NewIsNew
  <2>3. ~Looking(calls[c])
    BY <2>1, LobbyFree DEF Looking
  <2> QED BY <2>1, <2>2, <2>3, LobbyCall, LobbyFree, CallMoves
<1> QED BY <1>1, <1>2

\* The server answers a request, or takes a request to join a step further.
LEMMA AnswerStep ==
  ASSUME LobbyInv, NEW c \in Requests, NEW m \in LobbyCalls, calls' = [calls EXCEPT ![c] = m],
         UNCHANGED <<games, owed, valid, socket, pushed, slipped, losses, shown, listed, queue, known>>,
         m.kind = calls[c].kind, m.at # "sent", valid \/ calls[c].at # "sent",
         m.at \in {"looking", "pairing"} => m.kind = "join",
         m.kind \in {"load", "recover"} => m.got = games /\ m.at = "answered"
  PROVE  LobbyInv'
<1>1. "new" \notin known' /\ ("new" \notin games => (listed' # Unread => "new" \notin listed'))
  BY DEF LobbyInv, NewIsNew
<1> QED BY <1>1, CallMoves DEF Looking

LEMMA AnswerGot ==
  ASSUME LobbyInv, NEW c \in Requests, NEW got \in LobbyGot,
         Lobby!Answer(c, got),
         UNCHANGED <<games, owed, valid, socket, pushed, slipped, losses, shown, listed, queue, known>>,
         valid \/ calls[c].at # "sent", calls[c].kind \in {"load", "recover"} => got = games
  PROVE  LobbyInv'
<1> DEFINE m == [calls[c] EXCEPT !.at = "answered", !.got = got]
<1>1. calls' = [calls EXCEPT ![c] = m]
  BY DEF Lobby!Answer
<1>2. m \in LobbyCalls /\ m.kind = calls[c].kind /\ m.at = "answered" /\ m.got = got
  <2>1. calls[c] \in LobbyCalls
    BY DEF LobbyInv, LobbyTypes
  <2>2. m = [calls[c] EXCEPT !.at = "answered", !.got = got]
    OBVIOUS
  <2> HIDE DEF m
  <2> QED BY <2>1, <2>2 DEF LobbyCalls
<1> HIDE DEF m
<1> QED BY <1>1, <1>2, AnswerStep

LEMMA JoinMoves ==
  ASSUME LobbyInv, NEW c \in Requests, NEW at \in {"looking", "pairing"}, calls[c].kind = "join",
         calls' = [calls EXCEPT ![c] = [calls[c] EXCEPT !.at = at]],
         UNCHANGED <<games, owed, valid, socket, pushed, slipped, losses, shown, listed, queue, known>>,
         valid \/ calls[c].at # "sent"
  PROVE  LobbyInv'
<1> DEFINE m == [calls[c] EXCEPT !.at = at]
<1>1. calls' = [calls EXCEPT ![c] = m]
  OBVIOUS
<1>2. m \in LobbyCalls /\ m.kind = calls[c].kind /\ m.at = at
  <2>1. calls[c] \in LobbyCalls
    BY DEF LobbyInv, LobbyTypes
  <2> QED BY <2>1, LobbyMoves
<1> HIDE DEF m
<1> QED BY <1>1, <1>2, AnswerStep

LEMMA ServerAnswerStep ==
  ASSUME LobbyInv, NEW c \in Requests,
         Lobby!Enter(c) \/ Lobby!LookAround(c) \/ Lobby!Withdraw(c) \/ Lobby!ListGames(c)
  PROVE  LobbyInv'
<1>1. games \in LobbyGot
  BY DEF LobbyInv, LobbyTypes, LobbyGot
<1>2. UNCHANGED <<games, owed, valid, socket, pushed, slipped, losses, shown, listed, queue, known>>
  BY DEF Lobby!Enter, Lobby!LookAround, Lobby!Withdraw, Lobby!ListGames, Lobby!server, Lobby!page, Lobby!bounds
<1>3. CASE Lobby!Enter(c)
  <2>1. calls[c].kind = "join" /\ valid
    BY <1>3, LobbyCall DEF Lobby!Enter, Lobby!Reaches
  <2>2. CASE Lobby!Answer(c, {"refused"})
    BY <2>1, <2>2, <1>2, GotOK, AnswerGot
  <2>3. CASE calls' = [calls EXCEPT ![c].at = "looking"]
    BY <2>1, <2>3, <1>2, JoinMoves
  <2> QED BY <2>2, <2>3, <1>3 DEF Lobby!Enter
<1>4. CASE Lobby!LookAround(c)
  <2>1. calls[c].kind = "join" /\ calls[c].at # "sent"
    BY <1>4 DEF Lobby!LookAround, LobbyInv, JoinsOnly
  <2>2. CASE Lobby!Answer(c, {"queued"})
    BY <2>1, <2>2, <1>2, GotOK, AnswerGot
  <2>3. CASE calls' = [calls EXCEPT ![c].at = "pairing"]
    BY <2>1, <2>3, <1>2, JoinMoves
  <2> QED BY <2>2, <2>3, <1>4 DEF Lobby!LookAround
<1>5. CASE Lobby!Withdraw(c)
  <2>1. calls[c].kind = "leave" /\ valid /\ Lobby!Answer(c, {})
    BY <1>5, LobbyCall DEF Lobby!Withdraw, Lobby!Reaches
  <2> QED BY <2>1, <1>2, GotOK, AnswerGot
<1>6. CASE Lobby!ListGames(c)
  BY <1>6, <1>1, <1>2, AnswerGot DEF Lobby!ListGames, Lobby!Reaches
<1> QED BY <1>3, <1>4, <1>5, <1>6

\* A call that is delivered: it ends, or looks the games up.
LEMMA CallEnds ==
  ASSUME LobbyInv, NEW c \in Requests, calls[c].at = "answered",
         UNCHANGED <<games, owed, valid, socket, pushed, slipped, losses, known>>,
         listed' = listed \/ (calls[c].kind \in {"load", "recover"} /\ listed' = calls[c].got),
         \/ /\ calls' = [calls EXCEPT ![c] = Lobby!Free]
            /\ \/ shown' # "lobby" \/ queue' = "idle"
               \/ shown' = shown /\ queue' = queue /\ ~Looking(calls[c])
         \/ calls' = [calls EXCEPT ![c] = Lobby!Call("recover")]
  PROVE  LobbyInv'
<1>1. /\ "new" \notin known'
      /\ ("new" \notin games => (listed' # Unread => "new" \notin listed'))
  BY DEF LobbyInv, NewIsNew
<1>2. CASE calls' = [calls EXCEPT ![c] = Lobby!Free]
  <2> DEFINE m == Lobby!Free
  <2>1. /\ m \in LobbyCalls /\ m.at \notin {"looking", "pairing"} /\ m.kind \notin {"load", "recover"}
        /\ calls' = [calls EXCEPT ![c] = m]
    BY <1>2, LobbyFree
  <2>2. shown' = "lobby" /\ queue' = "queued" => shown = "lobby" /\ queue = "queued" /\ ~Looking(calls[c])
    BY <1>2, LobbyCall, LobbyFree DEF LobbyInv, LobbyTypes
  <2>3. shown' = "lobby" /\ queue' # "idle" => shown = "lobby" /\ queue # "idle" /\ calls[c].at # "sent"
    BY <1>2, LobbyCall, LobbyFree DEF LobbyInv, LobbyTypes
  <2> HIDE DEF m
  <2> QED BY <2>1, <2>2, <2>3, <1>1, CallMoves
<1>3. CASE calls' = [calls EXCEPT ![c] = Lobby!Call("recover")]
  <2> DEFINE m == Lobby!Call("recover")
  <2>1. m \in LobbyCalls /\ m.at = "sent" /\ m.got = {} /\ Looking(m) /\ m # Lobby!Free /\ calls' = [calls EXCEPT ![c] = m]
    BY <1>3, LobbyCall, LobbyFree DEF Looking
  <2> HIDE DEF m
  <2> QED BY <2>1, <1>1, CallMoves
<1> QED BY <1>2, <1>3

LEMMA LobbyDeliverStep ==
  ASSUME LobbyInv, NEW c \in Requests, Lobby!Deliver(c)
  PROVE  LobbyInv'
<1> DEFINE call == calls[c]
<1>1. /\ call.at = "answered"
      /\ UNCHANGED <<games, owed, valid, socket, pushed, slipped, losses, known>>
  BY DEF Lobby!Deliver, Lobby!server, Lobby!bounds
<1>2. call \in LobbyCalls /\ "new" \notin known'
      /\ ("new" \notin games => /\ (listed # Unread => "new" \notin listed)
                               /\ (call.kind \in {"load", "recover"} => "new" \notin call.got))
  BY <1>1 DEF LobbyInv, LobbyTypes, NewIsNew
<1>4. CASE call.kind = "join"
  <2>1. UNCHANGED listed
    BY <1>4 DEF Lobby!Deliver
  <2>2. \/ /\ calls' = [calls EXCEPT ![c] = Lobby!Free]
           /\ shown' = "new" \/ (queue' = "idle" /\ shown' = shown)
        \/ calls' = [calls EXCEPT ![c] = Lobby!Call("recover")]
    BY <1>4 DEF Lobby!Deliver, Lobby!GoTo, Lobby!Recovery
  <2>3. CASE calls' = [calls EXCEPT ![c] = Lobby!Free] /\ (shown' = "new" \/ (queue' = "idle" /\ shown' = shown))
    BY <2>1, <2>3, <1>1, CallEnds
  <2>4. CASE calls' = [calls EXCEPT ![c] = Lobby!Call("recover")]
    BY <2>1, <2>4, <1>1, CallEnds
  <2> QED BY <2>2, <2>3, <2>4
<1>5. CASE call.kind = "recover"
  <2>1. /\ IF Lobby!Fresh(call.got) = {} THEN Lobby!Stay ELSE \E g \in Lobby!Fresh(call.got) : Lobby!GoTo(g)
        /\ listed' = call.got /\ calls' = [calls EXCEPT ![c] = Lobby!Free]
    BY <1>5 DEF Lobby!Deliver
  <2>2. CASE "new" \in call.got
    <3>1. "new" \in Lobby!Fresh(call.got) /\ Lobby!Fresh(call.got) \subseteq {g \in call.got : g # "lobby"}
      BY <2>2, <1>1, <1>2 DEF Lobby!Fresh, Lobby!WasKnown, LobbyCalls, LobbyGot
    <3>2. shown' # "lobby"
      BY <2>1, <3>1 DEF Lobby!GoTo
    <3> QED BY <2>1, <3>2, <1>1, <1>5, CallEnds
  <2>3. CASE "new" \notin call.got
    <3>1. (shown' = shown /\ queue' = queue) \/ queue' = "idle"
      BY <2>1 DEF Lobby!GoTo, Lobby!Stay
    <3>2. ~Looking(call)
      BY <2>3, <1>1 DEF Looking
    <3> QED BY <2>1, <3>1, <3>2, <1>1, <1>5, CallEnds
  <2> QED BY <2>2, <2>3
<1>6. CASE call.kind = "load"
  <2>1. shown' = shown /\ queue' = queue /\ listed' = call.got /\ calls' = [calls EXCEPT ![c] = Lobby!Free]
    BY <1>6 DEF Lobby!Deliver, Lobby!Stay
  <2>2. ~Looking(call)
    BY <1>6 DEF Looking
  <2> QED BY <2>1, <2>2, <1>1, <1>6, CallEnds
<1>7. CASE call.kind \in {"none", "leave"}
  <2>1. queue' = "idle" /\ UNCHANGED <<shown, listed>> /\ calls' = [calls EXCEPT ![c] = Lobby!Free]
    BY <1>7 DEF Lobby!Deliver
  <2> QED BY <2>1, <1>1, CallEnds
<1>8. call.kind \in {"none", "load", "recover", "join", "leave"}
  BY <1>2 DEF LobbyCalls
<1> QED BY <1>4, <1>5, <1>6, <1>7, <1>8

LEMMA LobbyLoseStep ==
  ASSUME LobbyInv, NEW c \in Requests, Lobby!Lose(c)
  PROVE  LobbyInv'
<1>1. /\ calls' = [calls EXCEPT ![c] = Lobby!Free] /\ losses' = losses + 1
      /\ UNCHANGED <<games, owed, valid, socket, pushed, known, listed, slipped>>
  BY DEF Lobby!Lose, Lobby!server
<1>2. /\ calls' \in [Requests -> LobbyCalls] /\ calls'[c] = Lobby!Free
      /\ \A d \in Requests \ {c} : calls'[d] = calls[d]
  BY <1>1, LobbyFree DEF LobbyInv, LobbyTypes
<1>3. losses' \in Nat /\ losses' # 0
  BY <1>1 DEF LobbyInv, LobbyTypes
<1>4. LobbyTypes'
  BY <1>1, <1>2, <1>3 DEF LobbyInv, LobbyTypes
<1>5. JoinsOnly' /\ NewIsNew'
  BY <1>1, <1>2, LobbyFree DEF LobbyInv, JoinsOnly, NewIsNew
<1> QED BY <1>1, <1>3, <1>4, <1>5 DEF LobbyInv, NewsOnItsWay, TokenOnItsWay

\* One more request, on a socket that is down or being connected.
LEMMA AskMore ==
  ASSUME LobbyInv, NEW d \in Requests, calls[d] = Lobby!Free, NEW m \in LobbyCalls,
         calls' = [calls EXCEPT ![d] = m], m.at = "sent", m.got = {}
  PROVE  /\ calls' \in [Requests -> LobbyCalls] /\ JoinsOnly' /\ calls'[d] = m
         /\ UNCHANGED <<known, owed, listed, games>> => NewIsNew'
  BY LobbyFree DEF LobbyInv, LobbyTypes, JoinsOnly, NewIsNew

LEMMA LobbySocketStep ==
  ASSUME LobbyInv,
         (\E c \in Requests : Lobby!Renew(c)) \/ Lobby!Connect \/ Lobby!EnterRoom \/ Lobby!Matched
           \/ Lobby!Drop \/ Lobby!RunOut
  PROVE  LobbyInv'
<1>1. UNCHANGED <<games, owed, known, listed, losses, slipped>>
  BY DEF Lobby!Renew, Lobby!Connect, Lobby!EnterRoom, Lobby!Matched, Lobby!Drop, Lobby!RunOut,
     Lobby!server, Lobby!page, Lobby!bounds
<1>2. ASSUME NEW c \in Requests, Lobby!Renew(c) PROVE LobbyInv'
  <2>1. /\ valid' = TRUE /\ socket' = "down" /\ pushed' = FALSE
        /\ calls' = calls \/ \E d \in Requests : calls[d] = Lobby!Free /\ calls' = [calls EXCEPT ![d] = Lobby!Call("load")]
    BY <1>2 DEF Lobby!Renew
  <2>2. calls' \in [Requests -> LobbyCalls] /\ JoinsOnly' /\ NewIsNew'
    <3>1. CASE calls' = calls
      BY <3>1, <1>1 DEF LobbyInv, LobbyTypes, JoinsOnly, NewIsNew
    <3>2. ASSUME NEW d \in Requests, calls[d] = Lobby!Free, calls' = [calls EXCEPT ![d] = Lobby!Call("load")]
          PROVE  calls' \in [Requests -> LobbyCalls] /\ JoinsOnly' /\ NewIsNew'
      BY <3>2, <1>1, AskMore, LobbyCall
    <3> QED BY <3>1, <3>2, <2>1
  <2>3. LobbyTypes'
    BY <1>1, <2>1, <2>2 DEF LobbyInv, LobbyTypes
  <2> QED BY <2>1, <2>2, <2>3 DEF LobbyInv, NewsOnItsWay, TokenOnItsWay
<1>3. CASE Lobby!Connect
  <2>1. socket' = "up" /\ UNCHANGED <<valid, pushed, shown, queue>> /\ socket = "down"
    BY <1>3 DEF Lobby!Connect, Lobby!page
  <2>2. CASE shown = "lobby" /\ queue # "idle"
    <3>1. PICK d \in Requests : calls[d] = Lobby!Free /\ calls' = [calls EXCEPT ![d] = Lobby!Call("recover")]
      BY <1>3, <2>2, LobbyCall, LobbyFree DEF Lobby!Connect, Lobby!AskOnConnect, Lobby!Recovery
    <3>2. calls' \in [Requests -> LobbyCalls] /\ JoinsOnly' /\ NewIsNew' /\ calls'[d] = Lobby!Call("recover")
      BY <3>1, <1>1, AskMore, LobbyCall
    <3>3. Looking(calls[d])' /\ calls'[d] # Lobby!Free /\ calls'[d].at = "sent"
      BY <3>2, LobbyCall, LobbyFree DEF Looking
    <3>4. LobbyTypes'
      BY <1>1, <2>1, <3>2 DEF LobbyInv, LobbyTypes
    <3>5. NewsOnItsWay' /\ TokenOnItsWay'
      BY <3>3 DEF NewsOnItsWay, TokenOnItsWay, Lobby!Free
    <3> QED BY <2>1, <3>2, <3>4, <3>5 DEF LobbyInv
  <2>3. CASE ~(shown = "lobby" /\ queue # "idle")
    <3>1. calls' = calls
      BY <1>3, <2>3 DEF Lobby!Connect, Lobby!AskOnConnect, Lobby!Recovery
    <3> QED BY <1>1, <2>1, <2>3, <3>1 DEF LobbyInv, LobbyTypes, JoinsOnly, NewIsNew, NewsOnItsWay, TokenOnItsWay
  <2> QED BY <2>2, <2>3
<1>4. CASE Lobby!EnterRoom
  BY <1>4, <1>1 DEF Lobby!EnterRoom, Lobby!page, LobbyInv, LobbyTypes, JoinsOnly, NewIsNew, NewsOnItsWay, TokenOnItsWay, Looking, Lobby!Free
<1>5. CASE Lobby!Matched
  BY <1>5, <1>1 DEF Lobby!Matched, Lobby!GoTo, Lobby!Stay, LobbyInv, LobbyTypes, JoinsOnly, NewIsNew, NewsOnItsWay, TokenOnItsWay, Looking, Lobby!Free
<1>6. CASE Lobby!Drop
  BY <1>6, <1>1 DEF Lobby!Drop, Lobby!page, LobbyInv, LobbyTypes, JoinsOnly, NewIsNew, NewsOnItsWay, TokenOnItsWay
<1>7. CASE Lobby!RunOut
  <2>1. socket # "up" /\ valid /\ valid' = FALSE /\ UNCHANGED <<socket, pushed, shown, queue, calls>>
    BY <1>7 DEF Lobby!RunOut, Lobby!page
  <2>2. socket # "dead"
    BY <2>1 DEF LobbyInv
  <2> QED BY <2>1, <2>2, <1>1 DEF LobbyInv, LobbyTypes, JoinsOnly, NewIsNew, NewsOnItsWay, TokenOnItsWay, Looking, Lobby!Free
<1> QED BY <1>2, <1>3, <1>4, <1>5, <1>6, <1>7

LEMMA PairingStep ==
  ASSUME LobbyInv, Lobby!PairedByOther \/ Lobby!CreateGame \/ Lobby!NotifyMatched
  PROVE  LobbyInv'
<1>1. UNCHANGED <<valid, socket, losses, known, listed, shown, queue>>
  BY DEF Lobby!PairedByOther, Lobby!CreateGame, Lobby!NotifyMatched, Lobby!page, Lobby!bounds
<1>2. CASE Lobby!PairedByOther
  BY <1>2, <1>1 DEF Lobby!PairedByOther, Lobby!bounds, LobbyInv, LobbyTypes, JoinsOnly, NewIsNew, NewsOnItsWay, TokenOnItsWay, Looking, Lobby!Free
<1>3. CASE Lobby!CreateGame
  <2>1. games' = games \cup {"new"} /\ owed' = TRUE /\ UNCHANGED <<pushed, calls, slipped>>
    BY <1>3 DEF Lobby!CreateGame, Lobby!bounds
  <2> QED BY <2>1, <1>1 DEF LobbyInv, LobbyTypes, JoinsOnly, NewIsNew, NewsOnItsWay, TokenOnItsWay, Lobby!Free
<1>4. CASE Lobby!NotifyMatched
  <2>1. /\ owed /\ owed' = FALSE /\ pushed' = (socket = "joined") /\ slipped' = (slipped \/ socket = "up")
        /\ games' = games
        /\ calls' = [c \in Requests |-> IF calls[c].at = "pairing"
                                      THEN [calls[c] EXCEPT !.at = "answered", !.got = {"new"}] ELSE calls[c]]
    BY <1>4 DEF Lobby!NotifyMatched
  <2>2. \A c \in Requests :
          /\ calls'[c] \in LobbyCalls
          /\ calls'[c].at \in {"looking", "pairing"} => calls'[c].kind = "join"
          /\ calls[c].at = "sent" => calls'[c] = calls[c]
    <3> TAKE c \in Requests
    <3>1. calls[c] \in LobbyCalls /\ {"new"} \in LobbyGot
      BY GotOK DEF LobbyInv, LobbyTypes
    <3> QED BY <2>1, <3>1, LobbyAnswer DEF LobbyInv, JoinsOnly
  <2>3. calls' \in [Requests -> LobbyCalls]
    <3>1. calls' = [c \in Requests |-> IF calls[c].at = "pairing"
                                      THEN [calls[c] EXCEPT !.at = "answered", !.got = {"new"}] ELSE calls[c]]
      BY <2>1
    <3>2. calls' = [c \in Requests |-> calls'[c]]
      BY <3>1
    <3>3. \A c \in Requests : calls'[c] \in LobbyCalls
      BY <2>2
    <3> QED BY <3>2, <3>3
  <2>4. "new" \in games /\ "new" \notin known
    BY <2>1 DEF LobbyInv, NewIsNew
  <2>5. slipped' \in BOOLEAN /\ pushed' \in BOOLEAN /\ owed' \in BOOLEAN
    BY <2>1 DEF LobbyInv, LobbyTypes
  <2>6. LobbyTypes' /\ JoinsOnly' /\ NewIsNew'
    BY <1>1, <2>1, <2>2, <2>3, <2>4, <2>5 DEF LobbyInv, LobbyTypes, JoinsOnly, NewIsNew
  <2>7. NewsOnItsWay'
    BY <2>1, <1>1 DEF NewsOnItsWay
  <2>8. TokenOnItsWay'
    BY <2>2, <1>1 DEF LobbyInv, TokenOnItsWay, Lobby!Free
  <2> QED BY <1>1, <2>6, <2>7, <2>8 DEF LobbyInv
<1> QED BY <1>2, <1>3, <1>4

LEMMA LobbyStep == LobbyInv /\ [Lobby!Next]_(Lobby!vars) => LobbyInv'
<1> SUFFICES ASSUME LobbyInv, [Lobby!Next]_(Lobby!vars) PROVE LobbyInv'
  OBVIOUS
<1>1. CASE UNCHANGED Lobby!vars
  BY <1>1 DEF Lobby!vars, Lobby!server, Lobby!page, Lobby!bounds, LobbyInv, LobbyTypes, JoinsOnly, NewIsNew,
     NewsOnItsWay, TokenOnItsWay, Looking, Lobby!Free
<1>2. CASE Lobby!Next
  BY <1>2, AskingStep, ServerAnswerStep, LobbyDeliverStep, LobbyLoseStep, LobbySocketStep, PairingStep DEF Lobby!Next
<1> QED BY <1>1, <1>2

LEMMA LobbySound == LobbyInv => Lobby!NobodyIsFrozen /\ Lobby!QueuedIsReachable
<1> SUFFICES ASSUME LobbyInv PROVE Lobby!NobodyIsFrozen /\ Lobby!QueuedIsReachable
  OBVIOUS
<1>1. \A c \in Requests : calls[c] = Lobby!Free => ~Looking(calls[c])
  BY LobbyFree DEF Looking
<1>2. losses = 0 \/ losses > 0
  BY DEF LobbyInv, LobbyTypes
<1>3. Lobby!NobodyIsFrozen
  BY <1>1, <1>2 DEF LobbyInv, NewsOnItsWay, Lobby!NobodyIsFrozen, Lobby!Quiet
<1>4. Lobby!QueuedIsReachable
  BY <1>2 DEF LobbyInv, TokenOnItsWay, Lobby!QueuedIsReachable, Lobby!Quiet
<1> QED BY <1>3, <1>4

LEMMA LobbyOfPeople ==
  ASSUME focus = "lobby" => LobbyInv, [MCNext]_everywhere
  PROVE  (focus = "lobby" => LobbyInv)'
<1>1. focus' = focus
  BY DEF MCNext, everywhere
<1> SUFFICES ASSUME focus = "lobby" PROVE LobbyInv'
  BY <1>1
<1>2. [Lobby!Next]_(Lobby!vars)
  BY DEF MCNext, ServerNext, PageNext, everywhere, pages, lobby, Lobby!vars, Lobby!server, Lobby!page, Lobby!bounds
<1> QED BY <1>2, LobbyStep

\* A player who waits while his game has begun finds out, and a socket that was refused comes
\* back, unless a request failed or the news fell between a connection and its room
\* (oyin/page.tsx, play-socket), for any number of requests in flight and of failures.
THEOREM WaitingPlayersFindOut == MCSpec => []NobodyIsFrozen
<1>1. MCInit => (focus = "lobby" => LobbyInv)
  BY LobbyStart DEF MCInit, ServerInit, PageInit
<1>2. (focus = "lobby" => LobbyInv) => NobodyIsFrozen
  BY LobbySound DEF NobodyIsFrozen
<1> QED BY <1>1, <1>2, LobbyOfPeople, PTL DEF MCSpec

-----------------------------------------------------------------------------
(* The sign-in of a browser.  As long as the requests that carry the cookie    *)
(* follow one another, the one under way carries the cookie that is kept, and  *)
(* is answered with one that works; a tab that shows an account asked for it   *)
(* with the token it has seen last.                                            *)

IssuedRows == [family : Nat, of : Accounts, live : BOOLEAN, stale : BOOLEAN]
CallKinds == {"none", "boot", "renew", "login", "logout", "fetch", "retry"}

TabOK(tab, n) ==
  /\ tab.token \in {Unknown} \cup (0..n) /\ tab.seen \in {Unknown} \cup (0..n)
  /\ tab.token = Unknown => tab.seen = Unknown
  /\ tab.asked \subseteq 1..n /\ tab.session \in {Unknown, 0} \cup Accounts /\ tab.booted \in BOOLEAN
SignCallOK(call, n) ==
  /\ call.got \in 0..n /\ (call.kind = "none" => call = Tab!Free)
  /\ call.kind \in {"boot", "renew", "logout"} => call.token \in 0..n
  /\ call.kind \in {"fetch", "retry"} => call.token \in 1..n
  /\ call.kind = "login" => call.token \in Accounts
  /\ call.at = "answered" => Tab!CarriesCookie(call)

BrowserTabs == [token : {Unknown} \cup Nat, seen : {Unknown} \cup Nat, asked : SUBSET Nat,
                session : {Unknown, 0} \cup Accounts, booted : BOOLEAN]
BrowserCalls == [kind : CallKinds, at : {"sent", "answered"}, tab : BothTabs \cup {Gone},
                 token : Nat \cup Accounts \cup {Gone}, got : Nat]

BrowserTypes ==
  /\ issued \in Seq(IssuedRows) /\ jar \in 0..Len(issued)
  /\ tabs \in [BothTabs -> BrowserTabs] /\ calls \in [Requests -> BrowserCalls]
  /\ \A t \in BothTabs : TabOK(tabs[t], Len(issued))
  /\ \A c \in Requests : SignCallOK(calls[c], Len(issued))
  /\ losses \in Nat /\ orderly \in BOOLEAN

\* The session is of the token that was seen last, once the answer about it is in.
SeenOK(tab, some, lost) ==
  /\ tab.seen = Unknown => tab.session = Unknown /\ tab.asked = {}
  /\ tab.seen = 0 => tab.session = 0
  /\ tab.seen \in DOMAIN some \ tab.asked =>
       tab.session = some[tab.seen].of \/ (tab.session = 0 /\ (lost > 0 \/ some[tab.seen].stale))

Works(token, some) == token = 0 \/ some[token].live

OneCarries == orderly => \A c, d \in Requests : Tab!CarriesCookie(calls[c]) /\ Tab!CarriesCookie(calls[d]) => c = d

\* A request that carries the cookie, among those that follow one another.
CookieOK(call, some, cookie) ==
  Tab!CarriesCookie(call) =>
    /\ call.at = "sent" => Works(cookie, some) /\ (call.kind # "login" => call.token = cookie)
    /\ call.at = "answered" /\ call.kind # "logout" =>
         IF call.got = 0 THEN cookie = 0 ELSE some[call.got].live

CookieKept ==
  orderly /\ losses = 0 =>
    /\ \A c \in Requests : CookieOK(calls[c], issued, jar)
    /\ (\A c \in Requests : ~Tab!CarriesCookie(calls[c])) => Works(jar, issued)

BrowserInv ==
  /\ BrowserTypes /\ OneCarries /\ CookieKept /\ Tab!PageSettles
  /\ \A t \in BothTabs : SeenOK(tabs[t], issued, losses)

-----------------------------------------------------------------------------

LEMMA FreeCall ==
  /\ Tab!Free \in BrowserCalls /\ ~Tab!CarriesCookie(Tab!Free)
  /\ Tab!Free.kind = "none" /\ Tab!Free.at = "sent" /\ Tab!Free.got = 0 /\ Tab!Free.tab = Gone
  BY DEF Tab!Free, Tab!None, BrowserCalls, CallKinds, Tab!CarriesCookie

LEMMA FreeCallOK == \A n \in Nat : SignCallOK(Tab!Free, n)
  BY FreeCall DEF SignCallOK

\* What is issued later: as many rows and more, of the same accounts, and as stale.
Later(some, more) ==
  /\ Len(some) <= Len(more)
  /\ \A i \in 1..Len(some) : more[i].of = some[i].of /\ (some[i].stale => more[i].stale)

LEMMA SeenKept ==
  ASSUME NEW tab, NEW some \in Seq(IssuedRows), NEW more \in Seq(IssuedRows), NEW lost \in Nat, NEW lost2 \in Nat,
         TabOK(tab, Len(some)), SeenOK(tab, some, lost), Later(some, more), lost <= lost2
  PROVE  SeenOK(tab, more, lost2) /\ TabOK(tab, Len(more))
<1>1. Len(some) \in Nat /\ Len(more) \in Nat /\ DOMAIN some = 1..Len(some) /\ DOMAIN more = 1..Len(more)
  BY LenProperties
<1>2. TabOK(tab, Len(more))
  BY <1>1 DEF TabOK, Later
<1>3. SeenOK(tab, more, lost2)
  BY <1>1, TabsAssumption DEF TabOK, Later, SeenOK
<1> QED BY <1>2, <1>3

LEMMA CallKept ==
  ASSUME NEW call, NEW n \in Nat, NEW m \in Nat, n <= m, SignCallOK(call, n)
  PROVE  SignCallOK(call, m)
  BY DEF SignCallOK

LEMMA LaterSame == ASSUME NEW some \in Seq(IssuedRows) PROVE Later(some, some)
  BY DEF Later

LEMMA PutCall ==
  ASSUME BrowserInv, NEW c \in Requests, NEW call \in BrowserCalls, Tab!Put(c, call)
  PROVE  /\ calls' \in [Requests -> BrowserCalls] /\ calls'[c] = call
         /\ \A d \in Requests \ {c} : calls'[d] = calls[d]
         /\ orderly' \in BOOLEAN /\ (orderly' => orderly)
         /\ Tab!CarriesCookie(call) => (orderly' => \A d \in Requests \ {c} : ~Tab!CarriesCookie(calls[d]))
         /\ OneCarries'
<1>1. calls \in [Requests -> BrowserCalls] /\ orderly \in BOOLEAN
  BY DEF BrowserInv, BrowserTypes
<1>2. calls' = [calls EXCEPT ![c] = call]
      /\ orderly' = (orderly /\ (Tab!CarriesCookie(call) => Tab!Carrying \subseteq {c}))
  BY DEF Tab!Put
<1>3. calls' \in [Requests -> BrowserCalls] /\ calls'[c] = call /\ \A d \in Requests \ {c} : calls'[d] = calls[d]
  BY <1>1, <1>2
<1>4. Tab!CarriesCookie(call) => (orderly' => \A d \in Requests \ {c} : ~Tab!CarriesCookie(calls[d]))
  BY <1>2 DEF Tab!Carrying
<1>5. orderly' \in BOOLEAN /\ (orderly' => orderly)
  BY <1>1, <1>2
<1>6. OneCarries'
  <2> SUFFICES ASSUME orderly', NEW d \in Requests, NEW e \in Requests,
                      Tab!CarriesCookie(calls'[d]), Tab!CarriesCookie(calls'[e])
               PROVE  d = e
    BY DEF OneCarries, Tab!CarriesCookie
  <2>1. orderly /\ \A x, y \in Requests : Tab!CarriesCookie(calls[x]) /\ Tab!CarriesCookie(calls[y]) => x = y
    BY <1>5 DEF BrowserInv, OneCarries
  <2>2. CASE d = c /\ e # c
    BY <2>2, <1>3, <1>4
  <2>3. CASE d # c /\ e = c
    BY <2>3, <1>3, <1>4
  <2>4. CASE d # c /\ e # c
    BY <2>4, <2>1, <1>3
  <2> QED BY <2>2, <2>3, <2>4
<1> QED BY <1>3, <1>4, <1>5, <1>6

\* It is enough to look at the request that moves, at the tabs, and at the cookie.
LEMMA BrowserMoves ==
  ASSUME BrowserInv, NEW c \in Requests, NEW call \in BrowserCalls, Tab!Put(c, call),
         issued' \in Seq(IssuedRows), Later(issued, issued'), losses' \in Nat, losses <= losses',
         jar' \in 0..Len(issued'), tabs' \in [BothTabs -> BrowserTabs],
         \A t \in BothTabs : TabOK(tabs'[t], Len(issued')) /\ SeenOK(tabs'[t], issued', losses'),
         SignCallOK(call, Len(issued')), CookieKept',
         \A t \in BothTabs : tabs'[t].booted /\ tabs'[t].token = Unknown =>
           \/ losses' > 0 \/ (call.kind = "boot" /\ call.tab = t)
           \/ /\ tabs[t].booted /\ tabs[t].token = Unknown
              /\ ~(calls[c].kind = "boot" /\ calls[c].tab = t)
  PROVE  BrowserInv'
<1>1. /\ calls' \in [Requests -> BrowserCalls] /\ calls'[c] = call
      /\ \A d \in Requests \ {c} : calls'[d] = calls[d]
      /\ orderly' \in BOOLEAN /\ OneCarries'
  BY PutCall
<1>2. Len(issued) \in Nat /\ Len(issued') \in Nat /\ Len(issued) <= Len(issued')
  BY LenProperties DEF BrowserInv, BrowserTypes, Later
<1>3. \A d \in Requests : SignCallOK(calls'[d], Len(issued'))
  BY <1>1, <1>2, CallKept DEF BrowserInv, BrowserTypes
<1>4. BrowserTypes'
  BY <1>1, <1>3 DEF BrowserTypes
<1>5. Tab!PageSettles'
  <2> SUFFICES ASSUME NEW t \in BothTabs, tabs'[t].booted /\ tabs'[t].token = Unknown, ~(losses' > 0)
               PROVE  \E d \in Requests : calls'[d].kind = "boot" /\ calls'[d].tab = t
    BY DEF Tab!PageSettles
  <2>1. losses = 0
    BY DEF BrowserInv, BrowserTypes
  <2>2. CASE call.kind = "boot" /\ call.tab = t
    BY <2>2, <1>1
  <2>3. CASE /\ tabs[t].booted /\ tabs[t].token = Unknown
             /\ ~(calls[c].kind = "boot" /\ calls[c].tab = t)
    <3>1. \E d \in Requests : calls[d].kind = "boot" /\ calls[d].tab = t
      BY <2>1, <2>3 DEF BrowserInv, Tab!PageSettles
    <3> QED BY <3>1, <2>3, <1>1
  <2> QED BY <2>2, <2>3
<1> QED BY <1>1, <1>4, <1>5 DEF BrowserInv

-----------------------------------------------------------------------------

LEMMA BrowserFacts ==
  ASSUME BrowserInv
  PROVE  /\ issued \in Seq(IssuedRows) /\ Len(issued) \in Nat /\ DOMAIN issued = 1..Len(issued)
         /\ jar \in 0..Len(issued) /\ losses \in Nat /\ orderly \in BOOLEAN
         /\ tabs \in [BothTabs -> BrowserTabs] /\ calls \in [Requests -> BrowserCalls]
         /\ \A t \in BothTabs : TabOK(tabs[t], Len(issued)) /\ SeenOK(tabs[t], issued, losses)
         /\ \A c \in Requests : SignCallOK(calls[c], Len(issued))
  BY LenProperties DEF BrowserInv, BrowserTypes

\* A tab sends a request.
LEMMA BeginMoves ==
  ASSUME BrowserInv, NEW c \in Requests, NEW kind \in CallKinds \ {"none"}, NEW t \in BothTabs, NEW token,
         Tab!Begin(c, kind, t, token), UNCHANGED <<issued, jar, losses>>,
         kind = "login" => token \in Accounts, kind \in {"boot", "renew", "logout"} => token = jar,
         kind \in {"fetch", "retry"} => token \in 1..Len(issued),
         tabs' \in [BothTabs -> BrowserTabs],
         \A x \in BothTabs : TabOK(tabs'[x], Len(issued)) /\ SeenOK(tabs'[x], issued, losses),
         \A x \in BothTabs : tabs'[x].booted /\ tabs'[x].token = Unknown =>
           (kind = "boot" /\ x = t) \/ (tabs[x].booted /\ tabs[x].token = Unknown)
  PROVE  BrowserInv'
<1> DEFINE call == [Tab!Free EXCEPT !.kind = kind, !.tab = t, !.token = token]
<1>1. calls[c] = Tab!Free /\ Tab!Put(c, call)
  BY DEF Tab!Begin
<1>2. token \in Nat \cup Accounts \cup {Gone}
  BY BrowserFacts DEF CallKinds
<1>3. /\ call \in BrowserCalls /\ call.kind = kind /\ call.at = "sent" /\ call.tab = t
      /\ call.token = token /\ call.got = 0
  BY <1>2 DEF Tab!Free, Tab!None, BrowserCalls
<1> HIDE DEF call
<1>4. SignCallOK(call, Len(issued))
  BY <1>3, BrowserFacts DEF SignCallOK, Tab!CarriesCookie
<1>5. CookieKept'
  <2> SUFFICES ASSUME orderly', losses' = 0
               PROVE  /\ \A d \in Requests : CookieOK(calls'[d], issued, jar)
                      /\ (\A d \in Requests : ~Tab!CarriesCookie(calls'[d])) => Works(jar, issued)
    BY DEF CookieKept, CookieOK, Works, Tab!CarriesCookie
  <2>1. /\ calls'[c] = call /\ (\A d \in Requests \ {c} : calls'[d] = calls[d]) /\ orderly
        /\ Tab!CarriesCookie(call) => \A d \in Requests \ {c} : ~Tab!CarriesCookie(calls[d])
    BY <1>1, <1>3, PutCall
  <2>2. /\ \A d \in Requests : CookieOK(calls[d], issued, jar)
        /\ (\A d \in Requests : ~Tab!CarriesCookie(calls[d])) => Works(jar, issued)
    BY <2>1 DEF BrowserInv, CookieKept
  <2>3. ~Tab!CarriesCookie(calls[c])
    BY <1>1, FreeCall
  <2>4. Tab!CarriesCookie(call) => Works(jar, issued)
    BY <2>1, <2>2, <2>3
  <2>5. CookieOK(call, issued, jar)
    BY <2>4, <1>3 DEF CookieOK, Tab!CarriesCookie, CallKinds
  <2> QED BY <2>1, <2>2, <2>3, <2>5
<1>6. calls[c].kind # "boot"
  BY <1>1, FreeCall
<1> QED BY <1>1, <1>3, <1>4, <1>5, <1>6, BrowserFacts, LaterSame, BrowserMoves

LEMMA BootStep == ASSUME BrowserInv, NEW c \in Requests, NEW t \in BothTabs, Tab!Boot(c, t) PROVE BrowserInv'
<1> DEFINE tab == [tabs[t] EXCEPT !.booted = TRUE]
<1>1. /\ Tab!Begin(c, "boot", t, jar) /\ UNCHANGED <<issued, jar, losses>>
      /\ tabs' = [tabs EXCEPT ![t] = tab]
  BY BrowserFacts DEF Tab!Boot
<1>2. /\ tab \in BrowserTabs /\ tab.booted /\ tab.token = tabs[t].token /\ tab.seen = tabs[t].seen
      /\ tab.asked = tabs[t].asked /\ tab.session = tabs[t].session
  BY BrowserFacts DEF BrowserTabs
<1> HIDE DEF tab
<1>3. TabOK(tab, Len(issued)) /\ SeenOK(tab, issued, losses)
  BY <1>2, BrowserFacts DEF TabOK, SeenOK
<1>4. tabs' \in [BothTabs -> BrowserTabs] /\ tabs'[t] = tab /\ \A x \in BothTabs \ {t} : tabs'[x] = tabs[x]
  BY <1>1, <1>2, BrowserFacts
<1>5. \A x \in BothTabs : TabOK(tabs'[x], Len(issued)) /\ SeenOK(tabs'[x], issued, losses)
  BY <1>3, <1>4, BrowserFacts
<1>6. "boot" \in CallKinds \ {"none"}
  BY DEF CallKinds
<1> QED BY <1>1, <1>4, <1>5, <1>6, BeginMoves

LEMMA AskStep ==
  ASSUME BrowserInv, NEW c \in Requests, NEW t \in BothTabs,
         Tab!AuthFetch(c, t) \/ Tab!Logout(c, t) \/ \E u \in Accounts : Tab!Login(c, t, u)
  PROVE  BrowserInv'
<1>1. UNCHANGED <<issued, jar, losses, tabs>>
  BY DEF Tab!AuthFetch, Tab!Logout, Tab!Login
<1>2. {"fetch", "logout", "login"} \subseteq CallKinds \ {"none"}
  BY DEF CallKinds
<1>3. CASE Tab!AuthFetch(c, t)
  <2>1. Tab!Begin(c, "fetch", t, tabs[t].token) /\ tabs[t].token \in 1..Len(issued)
    BY <1>3, BrowserFacts DEF Tab!AuthFetch, Tab!SignedIn, Tab!None, TabOK
  <2> QED BY <2>1, <1>1, <1>2, BrowserFacts, BeginMoves
<1>4. CASE Tab!Logout(c, t)
  <2>1. Tab!Begin(c, "logout", t, jar)
    BY <1>4 DEF Tab!Logout
  <2> QED BY <2>1, <1>1, <1>2, BrowserFacts, BeginMoves
<1>5. ASSUME NEW u \in Accounts, Tab!Login(c, t, u) PROVE BrowserInv'
  <2>1. Tab!Begin(c, "login", t, u)
    BY <1>5 DEF Tab!Login
  <2> QED BY <2>1, <1>1, <1>2, BrowserFacts, BeginMoves
<1> QED BY <1>3, <1>4, <1>5

-----------------------------------------------------------------------------

\* The server answers a request that carries the cookie.
LEMMA AnswerMoves ==
  ASSUME BrowserInv, NEW c \in Requests, Tab!CarriesCookie(calls[c]),
         issued' \in Seq(IssuedRows), Later(issued, issued'), UNCHANGED <<jar, tabs, losses>>,
         NEW got \in 0..Len(issued'), Tab!Answered(c, got),
         orderly /\ losses = 0 /\ CookieOK(calls[c], issued, jar) /\ calls[c].kind # "logout" =>
           IF got = 0 THEN jar = 0 ELSE issued'[got].live
  PROVE  BrowserInv'
<1> DEFINE call == [calls[c] EXCEPT !.at = "answered", !.got = got]
<1>1. Tab!Put(c, call)
  BY DEF Tab!Answered
<1>2. /\ call \in BrowserCalls /\ call.kind = calls[c].kind /\ call.at = "answered" /\ call.tab = calls[c].tab
      /\ call.token = calls[c].token /\ call.got = got
  <2>1. calls[c] \in BrowserCalls /\ got \in Nat
    BY BrowserFacts
  <2> QED BY <2>1 DEF BrowserCalls
<1> HIDE DEF call
<1>3. Tab!CarriesCookie(call)
  BY <1>2 DEF Tab!CarriesCookie
<1>4. Len(issued) \in Nat /\ Len(issued') \in Nat /\ Len(issued) <= Len(issued')
  BY LenProperties, BrowserFacts DEF Later
<1>5. SignCallOK(call, Len(issued'))
  BY <1>2, <1>3, <1>4, BrowserFacts DEF SignCallOK, Tab!CarriesCookie
<1>6. CookieKept'
  <2> SUFFICES ASSUME orderly', losses' = 0
               PROVE  \A d \in Requests : CookieOK(calls'[d], issued', jar')
    <3>1. Tab!CarriesCookie(calls'[c])
      BY <1>1, <1>2, <1>3, PutCall
    <3> QED BY <3>1 DEF CookieKept, CookieOK, Works, Tab!CarriesCookie
  <2>1. /\ calls'[c] = call /\ (\A d \in Requests \ {c} : calls'[d] = calls[d]) /\ orderly
        /\ \A d \in Requests \ {c} : ~Tab!CarriesCookie(calls[d])
    BY <1>1, <1>2, <1>3, PutCall
  <2>2. CookieOK(calls[c], issued, jar)
    BY <2>1 DEF BrowserInv, CookieKept
  <2>3. CookieOK(call, issued', jar')
    BY <2>1, <2>2, <1>2 DEF CookieOK
  <2>4. \A d \in Requests \ {c} : CookieOK(calls[d], issued', jar')
    BY <2>1 DEF CookieOK
  <2> QED BY <2>1, <2>3, <2>4
<1>7. \A x \in BothTabs : TabOK(tabs'[x], Len(issued')) /\ SeenOK(tabs'[x], issued', losses')
  BY SeenKept, BrowserFacts
<1>8. jar' \in 0..Len(issued')
  BY <1>4, BrowserFacts
<1>9. \A x \in BothTabs : tabs'[x].booted /\ tabs'[x].token = Unknown =>
        (call.kind = "boot" /\ call.tab = x)
        \/ (tabs[x].booted /\ tabs[x].token = Unknown /\ ~(calls[c].kind = "boot" /\ calls[c].tab = x))
  BY <1>2
<1> QED BY <1>1, <1>2, <1>5, <1>6, <1>7, <1>8, <1>9, BrowserFacts, BrowserMoves

LEMMA EndedFamily ==
  ASSUME BrowserInv, NEW cookie \in 0..Len(issued)
  PROVE  /\ Tab!EndFamily(cookie) \in Seq(IssuedRows) /\ Later(issued, Tab!EndFamily(cookie))
         /\ Len(Tab!EndFamily(cookie)) = Len(issued)
<1> DEFINE closed == Tab!EndFamily(cookie)
<1>1. closed = [i \in 1..Len(issued) |->
        IF cookie # 0 /\ issued[i].family = issued[cookie].family THEN [issued[i] EXCEPT !.live = FALSE] ELSE issued[i]]
  BY BrowserFacts DEF Tab!EndFamily, Tab!None
<1>2. \A i \in 1..Len(issued) : issued[i] \in IssuedRows
  BY BrowserFacts, ElementOfSeq
<1>3. \A i \in 1..Len(issued) : /\ closed[i] \in IssuedRows /\ closed[i].of = issued[i].of
                                /\ closed[i].stale = issued[i].stale
  BY <1>1, <1>2 DEF IssuedRows
<1>4. closed = [i \in 1..Len(issued) |-> closed[i]]
  BY <1>1
<1> HIDE DEF closed
<1>5. closed \in Seq(IssuedRows) /\ Len(closed) = Len(issued)
  BY <1>3, <1>4, BrowserFacts, LenProperties
<1>6. Later(issued, closed)
  BY <1>3, <1>5, BrowserFacts DEF Later
<1> QED BY <1>5, <1>6 DEF closed

\* The next row, after a change of the last one's `live' or none.
LEMMA OneMore ==
  ASSUME BrowserInv, NEW some \in Seq(IssuedRows), Len(some) = Len(issued), Later(issued, some),
         NEW next \in IssuedRows, issued' = Append(some, next)
  PROVE  /\ issued' \in Seq(IssuedRows) /\ Len(issued') = Len(issued) + 1
         /\ Later(issued, issued') /\ issued'[Len(issued')] = next
<1>1. issued' \in Seq(IssuedRows) /\ Len(issued') = Len(issued) + 1
  BY AppendProperties
<1>2. issued'[Len(issued')] = next
  BY <1>1, AppendProperties
<1>3. \A i \in 1..Len(issued) : issued'[i] = some[i]
  BY AppendProperties
<1> QED BY <1>1, <1>2, <1>3, BrowserFacts DEF Later

LEMMA RefreshStep == ASSUME BrowserInv, NEW c \in Requests, Tab!Refresh(c) PROVE BrowserInv'
<1> DEFINE cookie == calls[c].token
<1>1. calls[c].kind \in {"boot", "renew"} /\ calls[c].at = "sent" /\ UNCHANGED <<jar, tabs, losses>>
  BY DEF Tab!Refresh
<1>2. Tab!CarriesCookie(calls[c]) /\ cookie \in 0..Len(issued)
  BY <1>1, BrowserFacts DEF Tab!CarriesCookie, SignCallOK
<1>3. CASE cookie = 0 \/ ~issued[cookie].live
  <2>1. issued' = Tab!EndFamily(cookie) /\ Tab!Answered(c, 0)
    BY <1>3 DEF Tab!Refresh, Tab!None
  <2>2. CookieOK(calls[c], issued, jar) => jar = 0
    BY <1>1, <1>2, <1>3 DEF CookieOK, Works
  <2>3. 0 \in 0..Len(issued')
    BY <2>1, <1>2, EndedFamily, BrowserFacts
  <2> QED BY <1>1, <1>2, <2>1, <2>2, <2>3, EndedFamily, AnswerMoves
<1>4. CASE ~(cookie = 0 \/ ~issued[cookie].live)
  <2> DEFINE some == [issued EXCEPT ![cookie].live = FALSE]
  <2> DEFINE next == Tab!Row(issued[cookie].family, issued[cookie].of)
  <2>1. issued' = Append(some, next) /\ Tab!Answered(c, Len(issued'))
    BY <1>4 DEF Tab!Refresh, Tab!None
  <2>2. cookie \in 1..Len(issued)
    BY <1>2, <1>4
  <2>3. issued[cookie] \in IssuedRows
    BY <2>2, BrowserFacts, ElementOfSeq
  <2>4. next \in IssuedRows /\ next.live
    BY <2>3 DEF Tab!Row, IssuedRows
  <2>5. [issued[cookie] EXCEPT !.live = FALSE] \in IssuedRows
        /\ [issued[cookie] EXCEPT !.live = FALSE].of = issued[cookie].of
        /\ [issued[cookie] EXCEPT !.live = FALSE].stale = issued[cookie].stale
    BY <2>3 DEF IssuedRows
  <2>6. some \in Seq(IssuedRows) /\ Len(some) = Len(issued) /\ Later(issued, some)
    <3>1. some = [issued EXCEPT ![cookie] = [issued[cookie] EXCEPT !.live = FALSE]]
      BY <2>2, BrowserFacts
    <3>2. some \in Seq(IssuedRows) /\ Len(some) = Len(issued)
      BY <3>1, <2>2, <2>5, BrowserFacts, ExceptSeq
    <3> QED BY <3>1, <3>2, <2>2, <2>5, BrowserFacts DEF Later
  <2> HIDE DEF some, next
  <2>7. /\ issued' \in Seq(IssuedRows) /\ Len(issued') = Len(issued) + 1
        /\ Later(issued, issued') /\ issued'[Len(issued')] = next
    BY <2>1, <2>4, <2>6, OneMore
  <2>8. Len(issued') \in 0..Len(issued') /\ Len(issued') # 0 /\ issued'[Len(issued')].live
    BY <2>4, <2>7, BrowserFacts
  <2> QED BY <1>1, <1>2, <2>1, <2>7, <2>8, AnswerMoves
<1> QED BY <1>3, <1>4

LEMMA GrantStep == ASSUME BrowserInv, NEW c \in Requests, Tab!GrantLogin(c) PROVE BrowserInv'
<1> DEFINE next == Tab!Row(Len(issued) + 1, calls[c].token)
<1>1. /\ calls[c].kind = "login" /\ calls[c].at = "sent" /\ UNCHANGED <<jar, tabs, losses>>
      /\ issued' = Append(issued, next) /\ Tab!Answered(c, Len(issued'))
  BY DEF Tab!GrantLogin
<1>2. Tab!CarriesCookie(calls[c]) /\ calls[c].token \in Accounts
  BY <1>1, BrowserFacts DEF Tab!CarriesCookie, SignCallOK
<1>3. next \in IssuedRows /\ next.live
  BY <1>2, BrowserFacts DEF Tab!Row, IssuedRows
<1> HIDE DEF next
<1>4. /\ issued' \in Seq(IssuedRows) /\ Len(issued') = Len(issued) + 1
      /\ Later(issued, issued') /\ issued'[Len(issued')] = next
  BY <1>1, <1>3, BrowserFacts, LaterSame, OneMore
<1>5. Len(issued') \in 0..Len(issued') /\ Len(issued') # 0 /\ issued'[Len(issued')].live
  BY <1>3, <1>4, BrowserFacts
<1> QED BY <1>1, <1>2, <1>4, <1>5, AnswerMoves

LEMMA EndSessionStep == ASSUME BrowserInv, NEW c \in Requests, Tab!EndSession(c) PROVE BrowserInv'
<1>1. /\ calls[c].kind = "logout" /\ calls[c].at = "sent" /\ UNCHANGED <<jar, tabs, losses>>
      /\ issued' = Tab!EndFamily(calls[c].token) /\ Tab!Answered(c, 0)
  BY DEF Tab!EndSession, Tab!None
<1>2. Tab!CarriesCookie(calls[c]) /\ calls[c].token \in 0..Len(issued)
  BY <1>1, BrowserFacts DEF Tab!CarriesCookie, SignCallOK
<1>3. 0 \in 0..Len(issued')
  BY <1>1, <1>2, EndedFamily, BrowserFacts
<1> QED BY <1>1, <1>2, <1>3, EndedFamily, AnswerMoves

LEMMA RunOutStep == ASSUME BrowserInv, NEW i \in DOMAIN issued, Tab!RunOut(i) PROVE BrowserInv'
<1>1. issued' = [issued EXCEPT ![i].stale = TRUE] /\ UNCHANGED <<jar, tabs, calls, losses, orderly>>
  BY DEF Tab!RunOut
<1> DEFINE entry == [issued[i] EXCEPT !.stale = TRUE]
<1>2. issued[i] \in IssuedRows /\ i \in 1..Len(issued)
  BY BrowserFacts, ElementOfSeq
<1>3. entry \in IssuedRows /\ entry.of = issued[i].of /\ entry.live = issued[i].live /\ entry.stale
  BY <1>2 DEF IssuedRows
<1>4. issued' = [issued EXCEPT ![i] = entry]
  BY <1>1, <1>2, BrowserFacts
<1> HIDE DEF entry
<1>5. issued' \in Seq(IssuedRows) /\ Len(issued') = Len(issued)
  BY <1>2, <1>3, <1>4, BrowserFacts, ExceptSeq
<1>6. Later(issued, issued') /\ \A j \in 1..Len(issued) : issued'[j].live = issued[j].live
  BY <1>2, <1>3, <1>4, <1>5, BrowserFacts DEF Later
<1>7. \A x \in BothTabs : TabOK(tabs'[x], Len(issued')) /\ SeenOK(tabs'[x], issued', losses')
  <2> SUFFICES ASSUME NEW x \in BothTabs
               PROVE  TabOK(tabs[x], Len(issued')) /\ SeenOK(tabs[x], issued', losses)
    BY <1>1
  <2>1. losses \in Nat /\ losses <= losses /\ issued \in Seq(IssuedRows)
    BY BrowserFacts
  <2>2. TabOK(tabs[x], Len(issued)) /\ SeenOK(tabs[x], issued, losses)
    BY BrowserFacts
  <2> QED BY <2>1, <2>2, <1>5, <1>6, SeenKept
<1>8. BrowserTypes'
  BY <1>1, <1>5, <1>7 DEF BrowserInv, BrowserTypes
<1>9. CookieKept'
  <2> SUFFICES ASSUME orderly, losses = 0
               PROVE  /\ \A d \in Requests : CookieOK(calls[d], issued', jar)
                      /\ (\A d \in Requests : ~Tab!CarriesCookie(calls[d])) => Works(jar, issued')
    BY <1>1 DEF CookieKept, CookieOK, Works, Tab!CarriesCookie
  <2>1. Works(jar, issued) <=> Works(jar, issued')
    BY <1>6, BrowserFacts DEF Works
  <2>2. \A d \in Requests : calls[d].got \in 0..Len(issued)
    BY BrowserFacts DEF SignCallOK
  <2>3. \A d \in Requests : CookieOK(calls[d], issued, jar) => CookieOK(calls[d], issued', jar)
    BY <2>1, <2>2, <1>6 DEF CookieOK
  <2> QED BY <2>1, <2>3 DEF BrowserInv, CookieKept
<1> QED BY <1>1, <1>7, <1>8, <1>9 DEF BrowserInv, OneCarries, Tab!PageSettles, Tab!CarriesCookie

-----------------------------------------------------------------------------

LEMMA ApiStep == ASSUME BrowserInv, NEW c \in Requests, Tab!ApiAnswer(c) PROVE BrowserInv'
<1>1. calls[c].kind \in {"fetch", "retry"} /\ UNCHANGED <<issued, jar, tabs, losses>>
  BY DEF Tab!ApiAnswer
<1>2. ~Tab!CarriesCookie(calls[c]) /\ calls[c].at = "sent" /\ calls[c] \in BrowserCalls
      /\ calls[c].got \in 0..Len(issued) /\ calls[c].token \in 1..Len(issued)
  BY <1>1, BrowserFacts DEF Tab!CarriesCookie, SignCallOK, BrowserCalls
<1>3. ASSUME NEW call \in BrowserCalls, Tab!Put(c, call), SignCallOK(call, Len(issued)), call.kind # "login",
             Tab!CarriesCookie(call) => call.at = "sent" /\ call.token = jar
      PROVE  BrowserInv'
  <2>1. CookieKept'
    <3> SUFFICES ASSUME orderly', losses' = 0
                 PROVE  /\ \A d \in Requests : CookieOK(calls'[d], issued, jar)
                        /\ (\A d \in Requests : ~Tab!CarriesCookie(calls'[d])) => Works(jar, issued)
      BY <1>1 DEF CookieKept, CookieOK, Works, Tab!CarriesCookie
    <3>1. /\ calls'[c] = call /\ (\A d \in Requests \ {c} : calls'[d] = calls[d]) /\ orderly
          /\ Tab!CarriesCookie(call) => \A d \in Requests \ {c} : ~Tab!CarriesCookie(calls[d])
      BY <1>3, PutCall
    <3>2. /\ \A d \in Requests : CookieOK(calls[d], issued, jar)
          /\ (\A d \in Requests : ~Tab!CarriesCookie(calls[d])) => Works(jar, issued)
      BY <1>1, <3>1 DEF BrowserInv, CookieKept
    <3>3. Tab!CarriesCookie(call) => Works(jar, issued)
      BY <3>1, <3>2, <1>2
    <3>4. CookieOK(call, issued, jar)
      BY <3>3, <1>3 DEF CookieOK
    <3> QED BY <3>1, <3>2, <3>4, <1>2
  <2>2. calls[c].kind # "boot"
    BY <1>1
  <2> QED BY <1>1, <1>3, <2>1, <2>2, BrowserFacts, LaterSame, BrowserMoves
<1>4. CASE calls[c].kind = "fetch" /\ issued[calls[c].token].stale
  <2> DEFINE call == [calls[c] EXCEPT !.kind = "renew", !.token = jar]
  <2>1. Tab!Put(c, call)
    BY <1>4 DEF Tab!ApiAnswer
  <2>2. /\ call \in BrowserCalls /\ call.kind = "renew" /\ call.token = jar
        /\ call.at = "sent" /\ call.got \in 0..Len(issued)
    <3>1. calls[c] \in BrowserCalls /\ jar \in Nat /\ calls[c].got \in 0..Len(issued) /\ calls[c].at = "sent"
      BY <1>2, BrowserFacts
    <3> QED BY <3>1 DEF BrowserCalls, CallKinds
  <2> HIDE DEF call
  <2>3. SignCallOK(call, Len(issued))
    BY <2>2, BrowserFacts DEF SignCallOK
  <2> QED BY <2>1, <2>2, <2>3, <1>3
<1>5. CASE ~(calls[c].kind = "fetch" /\ issued[calls[c].token].stale)
  <2>1. Tab!Put(c, Tab!Free)
    BY <1>5 DEF Tab!ApiAnswer
  <2> QED BY <2>1, <1>3, FreeCall, FreeCallOK, BrowserFacts
<1> QED BY <1>4, <1>5

LEMMA BrowserDeliverStep == ASSUME BrowserInv, NEW c \in Requests, Tab!Deliver(c) PROVE BrowserInv'
<1> DEFINE call == calls[c]
<1> DEFINE after == Tab!After(call)
<1>1. /\ Tab!CarriesCookie(call) /\ call.at = "answered" /\ jar' = Tab!Cookie(call)
      /\ tabs' = (IF call.tab = Gone THEN tabs ELSE [tabs EXCEPT ![call.tab].token = call.got])
      /\ Tab!Put(c, after) /\ UNCHANGED <<issued, losses>>
  BY DEF Tab!Deliver
<1>2. /\ call \in BrowserCalls /\ call.got \in 0..Len(issued) /\ call.tab \in BothTabs \cup {Gone}
      /\ call.kind \in {"boot", "renew", "login", "logout"}
  BY <1>1, BrowserFacts DEF SignCallOK, BrowserCalls, Tab!CarriesCookie
<1>3. jar' = (IF call.kind = "logout" THEN 0 ELSE IF call.got = 0 THEN jar ELSE call.got) /\ jar' \in 0..Len(issued)
  BY <1>1, <1>2, BrowserFacts DEF Tab!Cookie, Tab!None
<1>4. after \in BrowserCalls /\ SignCallOK(after, Len(issued)) /\ ~Tab!CarriesCookie(after) /\ after.kind # "boot"
  <2>1. CASE call.kind = "renew" /\ call.got # 0 /\ call.tab # Gone
    <3> DEFINE m == [Tab!Free EXCEPT !.kind = "retry", !.tab = call.tab, !.token = call.got]
    <3>1. after = m
      BY <2>1 DEF Tab!After, Tab!None
    <3>2. /\ m \in BrowserCalls /\ m.kind = "retry" /\ m.at = "sent" /\ m.token = call.got /\ m.got = 0
      BY <1>2 DEF Tab!Free, Tab!None, BrowserCalls, CallKinds
    <3> HIDE DEF m, after
    <3> QED BY <1>2, <2>1, <3>1, <3>2, BrowserFacts DEF SignCallOK, Tab!CarriesCookie
  <2>2. CASE ~(call.kind = "renew" /\ call.got # 0 /\ call.tab # Gone)
    <3>1. after = Tab!Free
      BY <2>2 DEF Tab!After, Tab!None
    <3> QED BY <3>1, FreeCall, FreeCallOK, BrowserFacts
  <2> QED BY <2>1, <2>2
<1> HIDE DEF after
<1>5. tabs' \in [BothTabs -> BrowserTabs]
      /\ \A x \in BothTabs :
           /\ tabs'[x].seen = tabs[x].seen /\ tabs'[x].asked = tabs[x].asked
           /\ tabs'[x].session = tabs[x].session /\ tabs'[x].booted = tabs[x].booted
           /\ tabs'[x].token = (IF x = call.tab THEN call.got ELSE tabs[x].token)
  <2>1. CASE call.tab = Gone
    BY <2>1, <1>1, TabsAssumption, BrowserFacts DEF BothTabs
  <2>2. CASE call.tab \in BothTabs
    <3> DEFINE m == [tabs[call.tab] EXCEPT !.token = call.got]
    <3>1. tabs' = [tabs EXCEPT ![call.tab] = m]
      BY <2>2, <1>1, TabsAssumption, BrowserFacts DEF BothTabs
    <3>2. /\ m \in BrowserTabs /\ m.seen = tabs[call.tab].seen /\ m.asked = tabs[call.tab].asked
          /\ m.session = tabs[call.tab].session /\ m.booted = tabs[call.tab].booted /\ m.token = call.got
      <4>1. tabs[call.tab] \in BrowserTabs /\ call.got \in Nat
        BY <2>2, <1>2, BrowserFacts
      <4> QED BY <4>1 DEF BrowserTabs
    <3> HIDE DEF m
    <3> QED BY <2>2, <3>1, <3>2, BrowserFacts
  <2> QED BY <1>2, <2>1, <2>2
<1>6. \A x \in BothTabs : TabOK(tabs'[x], Len(issued)) /\ SeenOK(tabs'[x], issued, losses)
  <2> TAKE x \in BothTabs
  <2>1. TabOK(tabs[x], Len(issued)) /\ SeenOK(tabs[x], issued, losses)
    BY BrowserFacts
  <2>2. TabOK(tabs'[x], Len(issued))
    BY <2>1, <1>2, <1>5, TabsAssumption DEF TabOK
  <2>3. SeenOK(tabs'[x], issued, losses)
    BY <2>1, <1>5 DEF SeenOK
  <2> QED BY <2>2, <2>3
<1>7. CookieKept'
  <2> SUFFICES ASSUME orderly', losses' = 0
               PROVE  (\A d \in Requests : CookieOK(calls'[d], issued, jar')) /\ Works(jar', issued)
    BY <1>1 DEF CookieKept, CookieOK, Works, Tab!CarriesCookie
  <2>1. /\ calls'[c] = after /\ (\A d \in Requests \ {c} : calls'[d] = calls[d]) /\ orderly
    BY <1>1, <1>4, PutCall
  <2>2. \A d \in Requests \ {c} : ~Tab!CarriesCookie(calls[d])
    BY <1>1, <2>1 DEF BrowserInv, OneCarries
  <2>3. \A d \in Requests : CookieOK(calls'[d], issued, jar')
    BY <1>4, <2>1, <2>2 DEF CookieOK
  <2>4. CookieOK(call, issued, jar)
    BY <1>1, <2>1 DEF BrowserInv, CookieKept
  <2> QED BY <1>1, <1>3, <2>3, <2>4 DEF CookieOK, Works
<1>8. \A x \in BothTabs : tabs'[x].booted /\ tabs'[x].token = Unknown =>
        tabs[x].booted /\ tabs[x].token = Unknown /\ ~(call.kind = "boot" /\ call.tab = x)
  BY <1>2, <1>5, TabsAssumption, BrowserFacts
<1> QED BY <1>1, <1>3, <1>4, <1>5, <1>6, <1>7, <1>8, BrowserFacts, LaterSame, BrowserMoves

LEMMA BrowserLoseStep == ASSUME BrowserInv, NEW c \in Requests, Tab!Lose(c) PROVE BrowserInv'
<1> DEFINE call == calls[c]
<1>1. /\ losses' = losses + 1 /\ Tab!Put(c, Tab!Free) /\ UNCHANGED <<issued, jar>>
      /\ tabs' = (IF call.kind = "logout" /\ call.tab # Gone THEN [tabs EXCEPT ![call.tab].token = 0] ELSE tabs)
  BY DEF Tab!Lose, Tab!None
<1>2. losses' \in Nat /\ losses <= losses' /\ losses' > 0
  BY <1>1, BrowserFacts
<1>3. tabs' \in [BothTabs -> BrowserTabs]
      /\ \A x \in BothTabs :
           /\ tabs'[x].seen = tabs[x].seen /\ tabs'[x].asked = tabs[x].asked
           /\ tabs'[x].session = tabs[x].session /\ tabs'[x].booted = tabs[x].booted
           /\ tabs'[x].token \in {0, tabs[x].token}
  <2>1. CASE ~(call.kind = "logout" /\ call.tab # Gone)
    BY <2>1, <1>1, BrowserFacts
  <2>2. CASE call.kind = "logout" /\ call.tab # Gone
    <3> DEFINE m == [tabs[call.tab] EXCEPT !.token = 0]
    <3>0. call.tab \in BothTabs
      BY <2>2, BrowserFacts DEF BrowserCalls
    <3>1. tabs' = [tabs EXCEPT ![call.tab] = m]
      BY <2>2, <3>0, <1>1, BrowserFacts
    <3>2. /\ m \in BrowserTabs /\ m.seen = tabs[call.tab].seen /\ m.asked = tabs[call.tab].asked
          /\ m.session = tabs[call.tab].session /\ m.booted = tabs[call.tab].booted /\ m.token = 0
      BY <3>0, BrowserFacts DEF BrowserTabs
    <3> HIDE DEF m
    <3> QED BY <3>0, <3>1, <3>2, BrowserFacts
  <2> QED BY <2>1, <2>2
<1>4. \A x \in BothTabs : TabOK(tabs'[x], Len(issued)) /\ SeenOK(tabs'[x], issued, losses')
  <2> TAKE x \in BothTabs
  <2>1. TabOK(tabs[x], Len(issued)) /\ SeenOK(tabs[x], issued, losses)
    BY BrowserFacts
  <2>2. TabOK(tabs[x], Len(issued)) /\ SeenOK(tabs[x], issued, losses')
    BY <2>1, <1>2, LaterSame, SeenKept, BrowserFacts
  <2>3. TabOK(tabs'[x], Len(issued))
    BY <2>2, <1>3, BrowserFacts, TabsAssumption DEF TabOK
  <2>4. SeenOK(tabs'[x], issued, losses')
    BY <2>2, <1>3 DEF SeenOK
  <2> QED BY <2>3, <2>4
<1>5. CookieKept'
  BY <1>2 DEF CookieKept, CookieOK, Works, Tab!CarriesCookie
<1> QED BY <1>1, <1>2, <1>3, <1>4, <1>5, FreeCall, FreeCallOK, BrowserFacts, LaterSame, BrowserMoves

-----------------------------------------------------------------------------

\* One tab changes in what it shows, keeps its token, and the requests stay as they are.
LEMMA TabMoves ==
  ASSUME BrowserInv, NEW t \in BothTabs, NEW tab \in BrowserTabs, tabs' = [tabs EXCEPT ![t] = tab],
         UNCHANGED <<issued, jar, calls, orderly>>, losses' \in Nat, losses <= losses',
         TabOK(tab, Len(issued)), SeenOK(tab, issued, losses'),
         tab.token = tabs[t].token, tab.booted = tabs[t].booted
  PROVE  BrowserInv'
<1>1. tabs' \in [BothTabs -> BrowserTabs] /\ tabs'[t] = tab /\ \A x \in BothTabs \ {t} : tabs'[x] = tabs[x]
  BY BrowserFacts
<1>2. \A x \in BothTabs : TabOK(tabs'[x], Len(issued)) /\ SeenOK(tabs'[x], issued, losses')
  <2> TAKE x \in BothTabs
  <2>1. CASE x = t
    BY <2>1, <1>1
  <2>2. CASE x # t
    <3>1. TabOK(tabs[x], Len(issued)) /\ SeenOK(tabs[x], issued, losses)
      BY BrowserFacts
    <3> QED BY <2>2, <3>1, <1>1, LaterSame, SeenKept, BrowserFacts
  <2> QED BY <2>1, <2>2
<1>3. BrowserTypes'
  BY <1>1, <1>2, BrowserFacts DEF BrowserTypes
<1>4. OneCarries'
  BY DEF BrowserInv, OneCarries, Tab!CarriesCookie
<1>5. CookieKept'
  <2>1. losses' = 0 => losses = 0
    BY BrowserFacts
  <2> QED BY <2>1 DEF BrowserInv, CookieKept, CookieOK, Works, Tab!CarriesCookie
<1>6. Tab!PageSettles'
  <2>1. losses > 0 => losses' > 0
    BY BrowserFacts
  <2> QED BY <1>1, <2>1 DEF BrowserInv, Tab!PageSettles
<1> QED BY <1>2, <1>3, <1>4, <1>5, <1>6 DEF BrowserInv

LEMMA AskMeStep == ASSUME BrowserInv, NEW t \in BothTabs, Tab!AskMe(t) PROVE BrowserInv'
<1> DEFINE tab == tabs[t]
<1>1. tab.token # tab.seen /\ UNCHANGED <<issued, jar, calls, losses, orderly>> /\ losses <= losses'
  BY BrowserFacts DEF Tab!AskMe
<1>2. tab \in BrowserTabs /\ TabOK(tab, Len(issued)) /\ SeenOK(tab, issued, losses)
  BY BrowserFacts
<1>3. CASE tab.token = 0
  <2> DEFINE m == [tab EXCEPT !.seen = 0, !.session = 0]
  <2>1. tabs' = [tabs EXCEPT ![t] = m]
    BY <1>3 DEF Tab!AskMe, Tab!None
  <2>2. /\ m \in BrowserTabs /\ m.token = tab.token /\ m.booted = tab.booted /\ m.seen = 0 /\ m.session = 0
        /\ m.asked = tab.asked
    BY <1>2 DEF BrowserTabs
  <2> HIDE DEF m
  <2>3. TabOK(m, Len(issued))
    BY <1>2, <1>3, <2>2, BrowserFacts, TabsAssumption DEF TabOK
  <2>4. SeenOK(m, issued, losses')
    BY <2>2, BrowserFacts, TabsAssumption DEF SeenOK
  <2> QED BY <1>1, <2>1, <2>2, <2>3, <2>4, BrowserFacts, TabMoves
<1>4. CASE tab.token # 0
  <2> DEFINE m == [tab EXCEPT !.seen = tab.token, !.asked = tab.asked \cup {tab.token}]
  <2>1. tabs' = [tabs EXCEPT ![t] = m]
    BY <1>4 DEF Tab!AskMe, Tab!None
  <2>2. tab.token \in 1..Len(issued)
    <3>1. CASE tab.token = Unknown
      BY <1>1, <1>2, <3>1 DEF TabOK
    <3> QED BY <3>1, <1>2, <1>4 DEF TabOK
  <2>3. /\ m \in BrowserTabs /\ m.token = tab.token /\ m.booted = tab.booted /\ m.seen = tab.token
        /\ m.session = tab.session /\ m.asked = tab.asked \cup {tab.token}
    <3>1. tab.token \in Nat /\ tab.asked \cup {tab.token} \in SUBSET Nat
      BY <1>2, <2>2, BrowserFacts DEF BrowserTabs
    <3> QED BY <1>2, <3>1 DEF BrowserTabs
  <2> HIDE DEF m
  <2>4. TabOK(m, Len(issued))
    BY <1>2, <2>2, <2>3 DEF TabOK
  <2>5. SeenOK(m, issued, losses')
    BY <2>2, <2>3, BrowserFacts, TabsAssumption DEF SeenOK
  <2> QED BY <1>1, <2>1, <2>3, <2>4, <2>5, BrowserFacts, TabMoves
<1> QED BY <1>3, <1>4

LEMMA MeStep ==
  ASSUME BrowserInv, NEW t \in BothTabs, NEW k \in DOMAIN issued, NEW found, Tab!Me(t, k, found)
  PROVE  BrowserInv'
<1> DEFINE tab == tabs[t]
<1> DEFINE m == [tab EXCEPT !.asked = tab.asked \ {k}, !.session = IF k = tab.seen THEN found ELSE tab.session]
<1>1. /\ k \in tab.asked /\ UNCHANGED <<issued, jar, calls, orderly>>
      /\ found \in {0} \cup (IF issued[k].stale THEN {} ELSE {issued[k].of})
      /\ losses' = (IF found = 0 /\ ~issued[k].stale THEN losses + 1 ELSE losses)
      /\ tabs' = [tabs EXCEPT ![t] = m]
  BY DEF Tab!Me, Tab!Heeded, Tab!None
<1>2. tab \in BrowserTabs /\ TabOK(tab, Len(issued)) /\ SeenOK(tab, issued, losses)
  BY BrowserFacts
<1>3. issued[k] \in IssuedRows /\ k \in 1..Len(issued)
  BY BrowserFacts, ElementOfSeq
<1>4. found \in {0} \cup Accounts
  BY <1>1, <1>3 DEF IssuedRows
<1>5. /\ m \in BrowserTabs /\ m.token = tab.token /\ m.booted = tab.booted /\ m.seen = tab.seen
      /\ m.asked = tab.asked \ {k} /\ m.session = IF k = tab.seen THEN found ELSE tab.session
  BY <1>2, <1>4 DEF BrowserTabs
<1> HIDE DEF m
<1>6. losses' \in Nat /\ losses <= losses' /\ (found = 0 /\ ~issued[k].stale => losses' > 0)
  BY <1>1, BrowserFacts
<1>7. TabOK(m, Len(issued))
  BY <1>2, <1>4, <1>5 DEF TabOK
<1>8. SeenOK(m, issued, losses')
  <2>1. CASE k = tab.seen
    <3>1. (m.session = 0 /\ (losses' > 0 \/ issued[k].stale)) \/ m.session = issued[k].of
      BY <2>1, <1>1, <1>5, <1>6
    <3>2. tab.seen # Unknown /\ tab.seen # 0
      BY <2>1, <1>3, BrowserFacts, TabsAssumption
    <3> QED BY <2>1, <3>1, <3>2, <1>5 DEF SeenOK
  <2>2. CASE k # tab.seen
    <3>1. SeenOK(tab, issued, losses')
      BY <1>2, <1>6, LaterSame, SeenKept, BrowserFacts
    <3> QED BY <2>2, <3>1, <1>5 DEF SeenOK
  <2> QED BY <2>1, <2>2
<1> QED BY <1>1, <1>5, <1>6, <1>7, <1>8, TabMoves

LEMMA ReloadStep == ASSUME BrowserInv, NEW t \in BothTabs, Tab!Reload(t) PROVE BrowserInv'
<1>1. /\ UNCHANGED <<issued, jar, losses, orderly>> /\ tabs' = [tabs EXCEPT ![t] = Tab!Loading]
      /\ calls' = [c \in Requests |->
           IF calls[c].tab # t THEN calls[c]
           ELSE IF Tab!Survives(calls[c]) THEN [calls[c] EXCEPT !.tab = Gone] ELSE Tab!Free]
  BY DEF Tab!Reload
<1>2. /\ Tab!Loading \in BrowserTabs /\ TabOK(Tab!Loading, Len(issued)) /\ SeenOK(Tab!Loading, issued, losses)
      /\ ~Tab!Loading.booted
  BY TabsAssumption, BrowserFacts DEF Tab!Loading, BrowserTabs, TabOK, SeenOK
<1>3. /\ tabs' \in [BothTabs -> BrowserTabs] /\ tabs'[t] = Tab!Loading
      /\ \A x \in BothTabs \ {t} : tabs'[x] = tabs[x]
  BY <1>1, <1>2, BrowserFacts
<1>4. ASSUME NEW c \in Requests
      PROVE  /\ calls'[c] \in BrowserCalls /\ SignCallOK(calls'[c], Len(issued))
             /\ Tab!CarriesCookie(calls'[c]) <=> Tab!CarriesCookie(calls[c])
             /\ Tab!CarriesCookie(calls[c]) => /\ calls'[c].kind = calls[c].kind /\ calls'[c].at = calls[c].at
                                                /\ calls'[c].token = calls[c].token /\ calls'[c].got = calls[c].got
             /\ calls[c].tab # t => calls'[c] = calls[c]
  <2>1. calls[c] \in BrowserCalls /\ SignCallOK(calls[c], Len(issued))
    BY BrowserFacts
  <2>2. CASE calls[c].tab # t
    <3>1. calls'[c] = calls[c]
      BY <2>2, <1>1
    <3> QED BY <3>1, <2>1
  <2>3. CASE calls[c].tab = t /\ Tab!CarriesCookie(calls[c])
    <3> DEFINE m == [calls[c] EXCEPT !.tab = Gone]
    <3>1. calls'[c] = m
      BY <2>3, <1>1 DEF Tab!Survives
    <3>2. /\ m \in BrowserCalls /\ m.kind = calls[c].kind /\ m.at = calls[c].at
          /\ m.token = calls[c].token /\ m.got = calls[c].got
      BY <2>1 DEF BrowserCalls
    <3> HIDE DEF m
    <3>3. m.kind # "none"
      BY <3>2, <2>3 DEF Tab!CarriesCookie
    <3>4. SignCallOK(m, Len(issued))
      BY <3>2, <3>3, <2>1 DEF SignCallOK, Tab!CarriesCookie
    <3> QED BY <2>3, <3>1, <3>2, <3>4 DEF Tab!CarriesCookie
  <2>4. CASE calls[c].tab = t /\ ~Tab!CarriesCookie(calls[c])
    <3>1. calls'[c] = Tab!Free
      BY <2>4, <1>1 DEF Tab!Survives
    <3> QED BY <3>1, <2>4, FreeCall, FreeCallOK, BrowserFacts
  <2> QED BY <2>2, <2>3, <2>4
<1>5. calls' \in [Requests -> BrowserCalls]
  <2>1. calls' = [c \in Requests |-> calls'[c]]
    BY <1>1
  <2> QED BY <2>1, <1>4
<1>6. \A x \in BothTabs : TabOK(tabs'[x], Len(issued)) /\ SeenOK(tabs'[x], issued, losses)
  BY <1>2, <1>3, BrowserFacts
<1>7. BrowserTypes'
  BY <1>1, <1>3, <1>4, <1>5, <1>6, BrowserFacts DEF BrowserTypes
<1>8. OneCarries'
  BY <1>1, <1>4 DEF BrowserInv, OneCarries, Tab!CarriesCookie
<1>9. CookieKept'
  <2> SUFFICES ASSUME orderly, losses = 0
               PROVE  /\ \A d \in Requests : CookieOK(calls'[d], issued, jar)
                      /\ (\A d \in Requests : ~Tab!CarriesCookie(calls'[d])) => Works(jar, issued)
    BY <1>1 DEF CookieKept, CookieOK, Works, Tab!CarriesCookie
  <2>1. /\ \A d \in Requests : CookieOK(calls[d], issued, jar)
        /\ (\A d \in Requests : ~Tab!CarriesCookie(calls[d])) => Works(jar, issued)
    BY DEF BrowserInv, CookieKept
  <2>2. \A d \in Requests : CookieOK(calls'[d], issued, jar)
    BY <2>1, <1>4 DEF CookieOK
  <2> QED BY <2>1, <2>2, <1>4
<1>10. Tab!PageSettles'
  <2> SUFFICES ASSUME NEW x \in BothTabs, tabs'[x].booted /\ tabs'[x].token = Unknown
               PROVE  losses > 0 \/ \E d \in Requests : calls'[d].kind = "boot" /\ calls'[d].tab = x
    BY <1>1 DEF Tab!PageSettles
  <2>1. x # t /\ tabs'[x] = tabs[x]
    BY <1>2, <1>3
  <2>2. losses > 0 \/ \E d \in Requests : calls[d].kind = "boot" /\ calls[d].tab = x
    BY <2>1 DEF BrowserInv, Tab!PageSettles
  <2> QED BY <2>1, <2>2, <1>4
<1> QED BY <1>1, <1>6, <1>7, <1>8, <1>9, <1>10 DEF BrowserInv

LEMMA BrowserStart == Tab!Init => BrowserInv
<1> SUFFICES ASSUME Tab!Init PROVE BrowserInv
  OBVIOUS
<1>1. /\ jar = 1 /\ tabs = [t \in BothTabs |-> Tab!Loading] /\ calls = [c \in Requests |-> Tab!Free]
      /\ losses = 0 /\ orderly = TRUE
  BY DEF Tab!Init
<1>2. PICK u \in Accounts : issued = <<Tab!Row(1, u)>>
  BY DEF Tab!Init
<1>3. Tab!Row(1, u) \in IssuedRows /\ Tab!Row(1, u).live
  BY DEF Tab!Row, IssuedRows
<1>4. issued \in Seq(IssuedRows) /\ Len(issued) = 1 /\ issued[1] = Tab!Row(1, u)
  BY <1>2, <1>3
<1>5. /\ Tab!Loading \in BrowserTabs /\ TabOK(Tab!Loading, 1) /\ SeenOK(Tab!Loading, issued, 0)
      /\ ~Tab!Loading.booted
  BY TabsAssumption, <1>4 DEF Tab!Loading, BrowserTabs, TabOK, SeenOK
<1>6. BrowserTypes
  BY <1>1, <1>4, <1>5, FreeCall, FreeCallOK DEF BrowserTypes
<1>7. OneCarries /\ CookieKept
  BY <1>1, <1>3, <1>4, FreeCall DEF OneCarries, CookieKept, CookieOK, Works
<1>8. Tab!PageSettles
  BY <1>1, <1>5 DEF Tab!PageSettles
<1> QED BY <1>1, <1>5, <1>6, <1>7, <1>8 DEF BrowserInv

LEMMA BrowserStep == BrowserInv /\ [Tab!Next]_(Tab!vars) => BrowserInv'
<1> SUFFICES ASSUME BrowserInv, [Tab!Next]_(Tab!vars) PROVE BrowserInv'
  OBVIOUS
<1>1. CASE UNCHANGED Tab!vars
  BY <1>1 DEF Tab!vars, BrowserInv, BrowserTypes, OneCarries, CookieKept, CookieOK, Works, Tab!PageSettles,
     Tab!CarriesCookie
<1>2. ASSUME NEW c \in Requests, NEW t \in BothTabs,
             Tab!Boot(c, t) \/ Tab!AuthFetch(c, t) \/ Tab!Logout(c, t) \/ \E u \in Accounts : Tab!Login(c, t, u)
      PROVE  BrowserInv'
  BY <1>2, BootStep, AskStep
<1>3. ASSUME NEW c \in Requests, Tab!Refresh(c) \/ Tab!GrantLogin(c) \/ Tab!EndSession(c) \/ Tab!ApiAnswer(c)
                                 \/ Tab!Deliver(c) \/ Tab!Lose(c)
      PROVE  BrowserInv'
  BY <1>3, RefreshStep, GrantStep, EndSessionStep, ApiStep, BrowserDeliverStep, BrowserLoseStep
<1>4. ASSUME NEW t \in BothTabs, Tab!AskMe(t) \/ Tab!Reload(t) PROVE BrowserInv'
  BY <1>4, AskMeStep, ReloadStep
<1> QED BY <1>1, <1>2, <1>3, <1>4, MeStep, RunOutStep DEF Tab!Next

LEMMA BrowserSound == BrowserInv => Tab!TypeOK /\ Tab!SessionIsTokens /\ Tab!CookieIsKept /\ Tab!PageSettles
<1> SUFFICES ASSUME BrowserInv PROVE Tab!TypeOK /\ Tab!SessionIsTokens /\ Tab!CookieIsKept /\ Tab!PageSettles
  OBVIOUS
<1>1. Tab!TypeOK
  BY BrowserFacts DEF Tab!TypeOK, Tab!None, TabOK, SignCallOK
<1>2. Tab!SessionIsTokens
  BY BrowserFacts, TabsAssumption DEF Tab!SessionIsTokens, Tab!None, TabOK, SeenOK
<1>3. Tab!CookieIsKept
  BY DEF BrowserInv, CookieKept, Works, Tab!CookieIsKept, Tab!CookieWorks, Tab!Carrying, Tab!None
<1> QED BY <1>1, <1>2, <1>3 DEF BrowserInv

LEMMA BrowserOfPeople ==
  ASSUME focus \in {"tab", "tabs"} => BrowserInv, [MCNext]_everywhere
  PROVE  (focus \in {"tab", "tabs"} => BrowserInv)'
<1>1. focus' = focus
  BY DEF MCNext, everywhere
<1> SUFFICES ASSUME focus \in {"tab", "tabs"} PROVE BrowserInv'
  BY <1>1
<1>2. [Tab!Next]_(Tab!vars)
  BY DEF MCNext, ServerNext, PageNext, everywhere, pages, signIn, Tab!vars
<1> QED BY <1>2, BrowserStep

\* In one tab or in two: a tab shows the account its token is of once the answer about it is
\* in; as long as the requests with the cookie follow one another and none is lost, the cookie
\* kept is one the server takes; and a page whose refresh was answered knows whether somebody is
\* signed in (auth.tsx), for any number of requests in flight, accounts and losses.
THEOREM BrowserAlwaysTrue == MCSpec => []BrowserIsTrue
<1>1. MCInit => (focus \in {"tab", "tabs"} => BrowserInv)
  BY BrowserStart DEF MCInit, ServerInit, PageInit
<1>2. (focus \in {"tab", "tabs"} => BrowserInv) => BrowserIsTrue
  BY BrowserSound DEF BrowserIsTrue
<1> QED BY <1>1, <1>2, BrowserOfPeople, PTL DEF MCSpec
=============================================================================
