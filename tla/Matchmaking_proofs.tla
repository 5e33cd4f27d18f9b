-------------------------- MODULE Matchmaking_proofs --------------------------
(***************************************************************************)
(* What Matchmaking promises, for any number of players, queues, tabs and  *)
(* sweepers, any ratings and any faults: an entry in a queue ends in one   *)
(* game, or with its owner's leave; and, of players with a tab each, one   *)
(* account is in one queue, under its marker.                              *)
(***************************************************************************)
EXTENDS Matchmaking, FiniteSetTheorems, TLAPS

\* The two players whom a slot holds.
Held(s) == {loc[s].pair[1], loc[s].pair[3]}

\* Nobody is paired with himself, be it planned, in hand, or played.
PairsDiffer ==
  /\ \A s \in Slots : pc[s] \in {"pair", "create", "emit"} => loc[s].pair[1] # loc[s].pair[3]
  /\ \A s \in Slots : \A x \in loc[s].pairs : x[1] # x[3]
  /\ \A n \in 1..Len(games) : games[n].white # games[n].black

\* Every time a player joined is worth one of these: a game, a pair that was taken
\* from its queue and has no game yet, or an entry.
InHand(p) == {s \in Slots : pc[s] = "create" /\ p \in Held(s)}
QueuedIn(p) == {b \in Buckets : queue[b][p] # Null}

JoinsCover ==
  \A p \in Players :
    /\ IsFiniteSet(GamesOf(p)) /\ IsFiniteSet(InHand(p)) /\ IsFiniteSet(QueuedIn(p))
    /\ Cardinality(GamesOf(p)) + Cardinality(InHand(p)) + Cardinality(QueuedIn(p)) <= joins[p]

\* Who waits is queued, or in the hands of somebody who will tell him.
WaitersAreHeld ==
  crashes = 0 =>
    \A p \in waits :
      \/ \E b \in Buckets : queue[b][p] # Null
      \/ \E s \in Slots : pc[s] \in {"create", "emit"} /\ p \in Held(s)

\* An entry stands under its marker; whose tab is about to enter him is in no queue,
\* and whose tab is about to take him out is in no other.
EntryHasMarker ==
  expiries = 0 =>
    /\ \A b \in Buckets, p \in Players : queue[b][p] # Null => marker[p] = b
    /\ \A s \in Tabs : pc[s] = "enqueue" =>
         /\ marker[Owner[s]] = loc[s].bucket
         /\ \A b \in Buckets : queue[b][Owner[s]] = Null
    /\ \A s \in Tabs : pc[s] = "dequeue" =>
         \A b \in Buckets \ {loc[s].bucket} : queue[b][Owner[s]] = Null

\* A marker has its entry, or a tab about to enter it.
MarkerHasEntry ==
  crashes = 0 /\ expiries = 0 =>
    \A p \in Players : marker[p] # Null =>
      \/ queue[marker[p]][p] # Null
      \/ \E s \in Tabs : pc[s] = "enqueue" /\ Owner[s] = p /\ loc[s].bucket = marker[p]

\* Every player has one tab.
OneTabEach == \A s, t \in Tabs : Owner[s] = Owner[t] => s = t

-----------------------------------------------------------------------------
(* Types, and that nobody is paired with himself.                          *)

\* Where the label of a slot lets it be, with what in hand.
Fitting(s, label, l) ==
  /\ label \notin {"idle", "which", "bucket"} => l.bucket \in Buckets
  /\ label \in {"pair", "create", "emit"} => l.pair \in Pairs /\ l.pair[1] # l.pair[3]
  /\ \A x \in l.pairs : x[1] # x[3]
  /\ s \in Sweepers => label \notin {"marker", "enqueue", "search", "peek", "which", "dequeue"}
  /\ s \in Tabs => label \notin {"bucket", "forget", "meta", "try"}

SlotsOK ==
  /\ pc \in [Slots -> Labels]
  /\ loc \in [Slots -> Locals]
  /\ \A s \in Slots : Fitting(s, pc[s], loc[s])

StoreOK ==
  /\ queue \in [Buckets -> [Players -> Nat \cup {Null}]]
  /\ marker \in [Players -> Buckets \cup {Null}]
  /\ registry \subseteq Buckets

AsideOK ==
  /\ now \in Nat /\ crashes \in Nat /\ expiries \in Nat
  /\ games \in Seq([white : Players, black : Players])
  /\ \A n \in 1..Len(games) : games[n].white # games[n].black
  /\ joins \in [Players -> Nat]
  /\ waits \subseteq Players

PairInv == SlotsOK /\ StoreOK /\ AsideOK

LEMMA PairInvGivesTypes == PairInv => TypeOK
  BY DEF PairInv, SlotsOK, StoreOK, AsideOK, Fitting, TypeOK

LEMMA BlankOK == Blank \in Locals /\ \A s \in Slots : Fitting(s, "idle", Blank)
  BY DEF Blank, Locals, Fitting

\* A slot that moves to where it may be leaves the slots well.
LEMMA MoveOK ==
  ASSUME SlotsOK, NEW s \in Slots, NEW label \in Labels, NEW l \in Locals,
         Goto(s, label, l), Fitting(s, label, l)
  PROVE  /\ SlotsOK'
         /\ pc'[s] = label /\ loc'[s] = l
         /\ \A t \in Slots \ {s} : pc'[t] = pc[t] /\ loc'[t] = loc[t]
<1>1. pc' = [pc EXCEPT ![s] = label] /\ loc' = [loc EXCEPT ![s] = l]
  BY DEF Goto
<1>2. pc \in [Slots -> Labels] /\ loc \in [Slots -> Locals]
  BY DEF SlotsOK
<1>3. pc' \in [Slots -> Labels] /\ loc' \in [Slots -> Locals]
  BY <1>1, <1>2
<1>4. pc'[s] = label /\ loc'[s] = l
  BY <1>1, <1>2
<1>5. \A t \in Slots \ {s} : pc'[t] = pc[t] /\ loc'[t] = loc[t]
  BY <1>1, <1>2
<1>6. ASSUME NEW t \in Slots PROVE Fitting(t, pc'[t], loc'[t])
  <2>1. CASE t = s
    BY <1>4, <2>1
  <2>2. CASE t # s
    BY <1>5, <2>2 DEF SlotsOK
  <2> QED BY <2>1, <2>2
<1> QED BY <1>3, <1>4, <1>5, <1>6 DEF SlotsOK

LEMMA ReplyOK ==
  ASSUME SlotsOK, NEW s \in Slots, Reply(s)
  PROVE  /\ SlotsOK'
         /\ pc'[s] = "idle" /\ loc'[s] = Blank
         /\ \A t \in Slots \ {s} : pc'[t] = pc[t] /\ loc'[t] = loc[t]
  BY MoveOK, BlankOK DEF Reply, Labels

-----------------------------------------------------------------------------
(* One lemma for each step of a slot.  What a step leaves in hand is TLC's  *)
(* to compute and the provers' to type.                                    *)

\* What the record of a slot becomes when a field of it changes.
LEMMA FieldsOK ==
  ASSUME NEW l \in Locals
  PROVE  /\ \A b \in Buckets : [l EXCEPT !.bucket = b] \in Locals
         /\ \A t \in Nat : [l EXCEPT !.t = t] \in Locals
         /\ \A found \in SUBSET Players : [l EXCEPT !.found = found] \in Locals
         /\ \A pair \in Pairs \cup {<<>>} : [l EXCEPT !.pair = pair] \in Locals
         /\ \A pairs \in SUBSET Pairs : [l EXCEPT !.pairs = pairs] \in Locals
         /\ \A seen \in SUBSET Players : [l EXCEPT !.seen = seen] \in Locals
  BY DEF Locals

LEMMA JoinTypes ==
  ASSUME PairInv, NEW s \in Tabs, NEW b \in Buckets, Join(s, b)
  PROVE  PairInv'
<1>1. s \in Slots /\ s \notin Sweepers
  BY OwnerAssumption DEF Slots
<1>2. [Blank EXCEPT !.bucket = b] \in Locals
  BY BlankOK, FieldsOK
<1>3. Fitting(s, "marker", [Blank EXCEPT !.bucket = b])
  BY <1>1 DEF Fitting, Blank
<1>4. SlotsOK'
  BY <1>1, <1>2, <1>3, MoveOK DEF PairInv, Join, Labels
<1> QED BY <1>4 DEF PairInv, Join, Local, store, aside, StoreOK, AsideOK

LEMMA SetMarkerTypes ==
  ASSUME PairInv, NEW s \in Slots, SetMarker(s)
  PROVE  PairInv'
<1>1. loc[s] \in Locals /\ Fitting(s, "marker", loc[s]) /\ s \in Tabs
  BY DEF PairInv, SlotsOK, SetMarker, Fitting, Slots
<1>2. [loc[s] EXCEPT !.t = now] \in Locals
  BY <1>1, FieldsOK DEF PairInv, AsideOK
<1>3. Fitting(s, "enqueue", [loc[s] EXCEPT !.t = now])
  BY <1>1 DEF Fitting, Locals
<1>4. SlotsOK'
  BY <1>2, <1>3, MoveOK, ReplyOK DEF PairInv, SetMarker, Labels
<1>5. loc[s].bucket \in Buckets /\ Owner[s] \in Players
  BY <1>1, OwnerAssumption DEF Fitting
<1>6. StoreOK'
  BY <1>5 DEF PairInv, SetMarker, StoreOK
<1> QED BY <1>4, <1>6 DEF PairInv, SetMarker, aside, AsideOK

LEMMA EnqueueTypes ==
  ASSUME PairInv, NEW s \in Slots, Enqueue(s)
  PROVE  PairInv'
<1>1. loc[s] \in Locals /\ Fitting(s, "enqueue", loc[s]) /\ s \in Tabs
  BY DEF PairInv, SlotsOK, Enqueue, Fitting, Slots
<1>2. Fitting(s, "search", loc[s])
  BY <1>1 DEF Fitting
<1>3. SlotsOK'
  BY <1>1, <1>2, MoveOK DEF PairInv, Enqueue, Labels
<1>4. loc[s].bucket \in Buckets /\ Owner[s] \in Players /\ loc[s].t \in Nat
  BY <1>1, OwnerAssumption DEF Fitting, Locals
<1>5. StoreOK'
  BY <1>4 DEF PairInv, Enqueue, StoreOK
<1>6. AsideOK'
  BY <1>4 DEF PairInv, Enqueue, AsideOK
<1> QED BY <1>3, <1>5, <1>6 DEF PairInv

LEMMA SearchTypes ==
  ASSUME PairInv, NEW s \in Slots, Search(s)
  PROVE  PairInv'
<1>1. loc[s] \in Locals /\ Fitting(s, "search", loc[s])
  BY DEF PairInv, SlotsOK, Search
<1>2. [loc[s] EXCEPT !.found = InWindow(s)] \in Locals
  BY <1>1, FieldsOK DEF InWindow, Members
<1>3. Fitting(s, "peek", [loc[s] EXCEPT !.found = InWindow(s)])
  BY <1>1 DEF Fitting, Locals
<1>4. SlotsOK'
  BY <1>2, <1>3, MoveOK DEF PairInv, Search, Labels
<1> QED BY <1>4 DEF PairInv, Search, Local, store, aside, StoreOK, AsideOK

LEMMA PeekTypes ==
  ASSUME PairInv, NEW s \in Slots, Peek(s)
  PROVE  PairInv'
<1>1. loc[s] \in Locals /\ Fitting(s, "peek", loc[s]) /\ s \in Tabs
  BY DEF PairInv, SlotsOK, Peek, Fitting, Slots
<1>2. CASE loc[s].found = {} /\ Reply(s)
  BY <1>2, ReplyOK DEF PairInv, Peek, Local, store, aside, StoreOK, AsideOK
<1>3. ASSUME NEW q \in Lowest(loc[s].found),
             LET rest == [loc[s] EXCEPT !.found = @ \ {q}] IN
               IF q = Owner[s] \/ queue[loc[s].bucket][q] = Null
               THEN Goto(s, "peek", rest)
               ELSE Goto(s, "pair", [rest EXCEPT !.pair = <<q, queue[loc[s].bucket][q], Owner[s], loc[s].t>>])
      PROVE  SlotsOK'
  <2> DEFINE rest == [loc[s] EXCEPT !.found = loc[s].found \ {q}]
             pair == <<q, queue[loc[s].bucket][q], Owner[s], loc[s].t>>
  <2>1. q \in Players /\ Owner[s] \in Players /\ loc[s].t \in Nat /\ loc[s].bucket \in Buckets
    BY <1>1, OwnerAssumption DEF Lowest, Locals, Fitting
  <2>2. rest \in Locals
    BY <1>1, FieldsOK DEF Locals
  <2>3. Fitting(s, "peek", rest)
    BY <1>1 DEF Fitting, Locals
  <2>4. CASE q = Owner[s] \/ queue[loc[s].bucket][q] = Null
    BY <1>3, <2>2, <2>3, <2>4, MoveOK DEF PairInv, Labels
  <2>5. CASE ~(q = Owner[s] \/ queue[loc[s].bucket][q] = Null)
    <3>1. pair \in Pairs /\ pair[1] # pair[3]
      BY <2>1, <2>5 DEF Pairs, PairInv, StoreOK
    <3>2. [rest EXCEPT !.pair = pair] \in Locals
      BY <2>2, <3>1, FieldsOK
    <3>3. Fitting(s, "pair", [rest EXCEPT !.pair = pair])
      BY <1>1, <2>1, <2>2, <3>1 DEF Fitting, Locals
    <3> QED BY <1>3, <2>5, <3>2, <3>3, MoveOK DEF PairInv, Labels
  <2> QED BY <2>4, <2>5
<1>4. SlotsOK'
  BY <1>2, <1>3 DEF Peek, PairInv
<1> QED BY <1>4 DEF PairInv, Peek, Local, store, aside, StoreOK, AsideOK

\* Who plays White and who plays Black are the two of the pair.
LEMMA ColoursOfPair ==
  ASSUME NEW pair \in Pairs
  PROVE  /\ {WhiteOf(pair), BlackOf(pair)} = {pair[1], pair[3]}
         /\ WhiteOf(pair) \in Players /\ BlackOf(pair) \in Players
         /\ pair[1] # pair[3] => WhiteOf(pair) # BlackOf(pair)
  BY DEF Pairs, WhiteOf, BlackOf

LEMMA PairTypes ==
  ASSUME PairInv, NEW s \in Slots, Pair(s)
  PROVE  PairInv'
<1>1. loc[s] \in Locals /\ Fitting(s, "pair", loc[s])
  BY DEF PairInv, SlotsOK, Pair
<1>2. loc[s].bucket \in Buckets /\ loc[s].pair[1] \in Players /\ loc[s].pair[3] \in Players
  BY <1>1 DEF Fitting, Pairs
<1>3. CASE BothQueued(loc[s].bucket, loc[s].pair)
  <2>1. Fitting(s, "create", loc[s])
    BY <1>1 DEF Fitting
  <2>2. SlotsOK'
    BY <1>1, <1>3, <2>1, MoveOK DEF PairInv, Pair, Labels
  <2>3. StoreOK'
    BY <1>2, <1>3 DEF PairInv, Pair, DropMarkers, StoreOK
  <2> QED BY <2>2, <2>3 DEF PairInv, Pair, aside, AsideOK
<1>4. CASE ~BothQueued(loc[s].bucket, loc[s].pair)
  <2> DEFINE label == IF s \in Tabs THEN "peek" ELSE "try"
             l == [loc[s] EXCEPT !.pair = <<>>]
  <2>1. l \in Locals
    BY <1>1, FieldsOK
  <2>2. Fitting(s, label, l)
    BY <1>1, OwnerAssumption DEF Fitting, Locals, Slots
  <2>3. SlotsOK'
    BY <1>4, <2>1, <2>2, MoveOK DEF PairInv, Pair, Labels
  <2> QED BY <1>4, <2>3 DEF PairInv, Pair, aside, AsideOK, StoreOK
<1> QED BY <1>3, <1>4

LEMMA CreateTypes ==
  ASSUME PairInv, NEW s \in Slots, Create(s)
  PROVE  /\ PairInv'
         /\ Len(games') = Len(games) + 1
         /\ \A n \in 1..Len(games) : games'[n] = games[n]
         /\ {games'[Len(games')].white, games'[Len(games')].black} = Held(s)
<1>1. loc[s] \in Locals /\ Fitting(s, "create", loc[s])
  BY DEF PairInv, SlotsOK, Create
<1>2. Fitting(s, "emit", loc[s])
  BY <1>1 DEF Fitting
<1>3. SlotsOK'
  BY <1>1, <1>2, MoveOK DEF PairInv, Create, Labels
<1> DEFINE game == [white |-> WhiteOf(loc[s].pair), black |-> BlackOf(loc[s].pair)]
<1>4. game \in [white : Players, black : Players] /\ game.white # game.black
      /\ {game.white, game.black} = Held(s)
  BY <1>1, ColoursOfPair DEF Fitting, Held
<1>5. games \in Seq([white : Players, black : Players]) /\ games' = Append(games, game)
  BY DEF PairInv, AsideOK, Create
<1> HIDE DEF game
<1>6. /\ games' \in Seq([white : Players, black : Players])
      /\ Len(games') = Len(games) + 1
      /\ \A n \in 1..Len(games) : games'[n] = games[n]
      /\ games'[Len(games')] = game
  BY <1>4, <1>5
<1>7. ASSUME NEW n \in 1..Len(games') PROVE games'[n].white # games'[n].black
  <2>1. Len(games) \in Nat
    BY <1>5
  <2>2. CASE n = Len(games')
    BY <1>4, <1>6, <2>2
  <2>3. CASE n # Len(games')
    <3>1. n \in 1..Len(games)
      BY <1>6, <2>1, <2>3
    <3> QED BY <1>6, <3>1 DEF PairInv, AsideOK
  <2> QED BY <2>2, <2>3
<1>8. AsideOK'
  BY <1>6, <1>7 DEF PairInv, AsideOK, Create
<1> QED BY <1>3, <1>4, <1>6, <1>8 DEF PairInv, Create, store, StoreOK

LEMMA EmitTypes ==
  ASSUME PairInv, NEW s \in Slots, Emit(s)
  PROVE  PairInv'
<1>1. loc[s] \in Locals /\ Fitting(s, "emit", loc[s])
  BY DEF PairInv, SlotsOK, Emit
<1> DEFINE l == [loc[s] EXCEPT !.pairs = Without(loc[s].pairs, loc[s].pair), !.pair = <<>>]
<1>2. l \in Locals /\ l.pairs \subseteq loc[s].pairs /\ l.bucket = loc[s].bucket
  BY <1>1 DEF Locals, Without
<1>3. s \notin Tabs => Fitting(s, "try", l)
  BY <1>1, <1>2 DEF Fitting, Slots
<1>4. SlotsOK'
  BY <1>2, <1>3, MoveOK, ReplyOK DEF PairInv, Emit, Labels
<1> QED BY <1>4 DEF PairInv, Emit, store, StoreOK, AsideOK

LEMMA LeaveTypes ==
  ASSUME PairInv, NEW s \in Slots, s \in Tabs, Leave(s)
  PROVE  PairInv'
<1>1. Fitting(s, "which", Blank)
  BY OwnerAssumption DEF Fitting, Blank
<1>2. SlotsOK'
  BY <1>1, BlankOK, MoveOK DEF PairInv, Leave, Labels
<1> QED BY <1>2 DEF PairInv, Leave, Local, store, aside, StoreOK, AsideOK

LEMMA ReadMarkerTypes ==
  ASSUME PairInv, NEW s \in Slots, ReadMarker(s)
  PROVE  PairInv'
<1>1. s \in Tabs /\ s \notin Sweepers /\ Owner[s] \in Players
  BY OwnerAssumption DEF PairInv, SlotsOK, ReadMarker, Fitting, Slots
<1>2. ASSUME marker[Owner[s]] # Null
      PROVE  /\ [Blank EXCEPT !.bucket = marker[Owner[s]]] \in Locals
             /\ Fitting(s, "dequeue", [Blank EXCEPT !.bucket = marker[Owner[s]]])
  <2>1. marker[Owner[s]] \in Buckets
    BY <1>1, <1>2 DEF PairInv, StoreOK
  <2> QED BY <1>1, <2>1, BlankOK, FieldsOK DEF Fitting, Blank
<1>3. SlotsOK'
  BY <1>2, MoveOK, ReplyOK DEF PairInv, ReadMarker, Labels
<1> QED BY <1>3 DEF PairInv, ReadMarker, Local, store, aside, StoreOK, AsideOK

LEMMA DequeueTypes ==
  ASSUME PairInv, NEW s \in Slots, Dequeue(s)
  PROVE  PairInv'
<1>1. loc[s] \in Locals /\ Fitting(s, "dequeue", loc[s]) /\ s \in Tabs
  BY DEF PairInv, SlotsOK, Dequeue, Fitting, Slots
<1>2. loc[s].bucket \in Buckets /\ Owner[s] \in Players
  BY <1>1, OwnerAssumption DEF Fitting
<1>3. StoreOK'
  BY <1>2 DEF PairInv, Dequeue, StoreOK
<1> QED BY <1>3, ReplyOK DEF PairInv, Dequeue, AsideOK

LEMMA SweepTypes ==
  ASSUME PairInv, NEW s \in Slots, s \in Sweepers, Sweep(s)
  PROVE  PairInv'
<1> DEFINE l == [Blank EXCEPT !.todo = registry]
<1>1. l \in Locals /\ l.pairs = {}
  BY BlankOK DEF PairInv, StoreOK, Locals, Blank
<1>2. Fitting(s, "bucket", l)
  BY <1>1, OwnerAssumption DEF Fitting
<1>3. SlotsOK'
  BY <1>1, <1>2, MoveOK DEF PairInv, Sweep, Labels
<1> QED BY <1>3 DEF PairInv, Sweep, Local, store, aside, StoreOK, AsideOK

LEMMA SweepBucketTypes ==
  ASSUME PairInv, NEW s \in Slots, SweepBucket(s)
  PROVE  PairInv'
<1>1. loc[s] \in Locals /\ Fitting(s, "bucket", loc[s]) /\ s \notin Tabs
  BY DEF PairInv, SlotsOK, SweepBucket, Fitting, Slots
<1>2. ASSUME NEW b \in loc[s].todo,
             Goto(s, AfterRange(b), [Blank EXCEPT !.bucket = b, !.todo = loc[s].todo \ {b},
                                                  !.seen = Members(b)])
      PROVE  SlotsOK'
  <2> DEFINE l == [Blank EXCEPT !.bucket = b, !.todo = loc[s].todo \ {b}, !.seen = Members(b)]
  <2>1. b \in Buckets /\ loc[s].todo \in SUBSET Buckets
    BY <1>1 DEF Locals
  <2>2. l \in Locals /\ l.pairs = {} /\ l.bucket = b
    BY <2>1, BlankOK DEF Locals, Blank, Members
  <2>3. AfterRange(b) \in {"forget", "bucket", "meta"}
    BY DEF AfterRange
  <2>4. Fitting(s, AfterRange(b), l)
    BY <1>1, <2>1, <2>2, <2>3 DEF Fitting
  <2>5. AfterRange(b) \in Labels
    BY <2>3 DEF Labels
  <2> HIDE DEF l
  <2>6. Goto(s, AfterRange(b), l)
    BY <1>2 DEF l
  <2> QED BY <2>2, <2>4, <2>5, <2>6, MoveOK DEF PairInv
<1>3. SlotsOK'
  BY <1>2, ReplyOK DEF PairInv, SweepBucket
<1> QED BY <1>3 DEF PairInv, SweepBucket, Local, store, aside, StoreOK, AsideOK

LEMMA ForgetTypes ==
  ASSUME PairInv, NEW s \in Slots, Forget(s)
  PROVE  PairInv'
<1>1. loc[s] \in Locals /\ Fitting(s, "forget", loc[s])
  BY DEF PairInv, SlotsOK, Forget
<1>2. Fitting(s, "bucket", loc[s])
  BY <1>1 DEF Fitting
<1>3. SlotsOK'
  BY <1>1, <1>2, MoveOK DEF PairInv, Forget, Labels
<1> QED BY <1>3 DEF PairInv, Forget, aside, StoreOK, AsideOK

\* Who is sooner than somebody is somebody else.
LEMMA SoonerIsOther ==
  ASSUME PairInv, NEW p \in Players, NEW t \in Nat
  PROVE  ~Sooner(p, t, p, t)
  BY RatingAssumption DEF Sooner, ByRating, Players

LEMMA PairsOfOK ==
  ASSUME PairInv, NEW b \in Buckets, NEW seen \in SUBSET Players
  PROVE  /\ PairsOf(b, seen) \in SUBSET Pairs
         /\ \A x \in PairsOf(b, seen) : x[1] # x[3]
<1> SUFFICES ASSUME NEW x \in PairsOf(b, seen)
             PROVE  x \in Pairs /\ x[1] # x[3]
  OBVIOUS
<1>1. PICK p \in seen \cap Members(b), q \in seen \cap Members(b) :
        /\ x = <<p, queue[b][p], q, queue[b][q]>>
        /\ Sooner(p, queue[b][p], q, queue[b][q])
  BY DEF PairsOf
<1>2. p \in Players /\ q \in Players /\ queue[b][p] \in Nat /\ queue[b][q] \in Nat
  BY DEF Members, PairInv, StoreOK
<1>3. p # q
  BY <1>1, <1>2, SoonerIsOther
<1> QED BY <1>1, <1>2, <1>3 DEF Pairs

LEMMA ReadMetaTypes ==
  ASSUME PairInv, NEW s \in Slots, ReadMeta(s)
  PROVE  PairInv'
<1>1. loc[s] \in Locals /\ Fitting(s, "meta", loc[s])
  BY DEF PairInv, SlotsOK, ReadMeta
<1> DEFINE pairs == PairsOf(loc[s].bucket, loc[s].seen)
           l == [loc[s] EXCEPT !.pairs = pairs, !.seen = {}]
<1>2. pairs \in SUBSET Pairs /\ \A x \in pairs : x[1] # x[3]
  BY <1>1, PairsOfOK DEF Fitting, Locals
<1> HIDE DEF pairs
<1>3. l \in Locals /\ l.pairs = pairs /\ l.bucket = loc[s].bucket
  BY <1>1, <1>2 DEF Locals
<1>4. Fitting(s, "try", l)
  BY <1>1, <1>2, <1>3 DEF Fitting
<1>5. Goto(s, "try", l)
  BY DEF ReadMeta, pairs
<1>6. SlotsOK'
  BY <1>3, <1>4, <1>5, MoveOK DEF PairInv, Labels
<1> QED BY <1>6 DEF PairInv, ReadMeta, Local, store, aside, StoreOK, AsideOK

LEMMA TryTypes ==
  ASSUME PairInv, NEW s \in Slots, Try(s)
  PROVE  PairInv'
<1>1. loc[s] \in Locals /\ Fitting(s, "try", loc[s])
  BY DEF PairInv, SlotsOK, Try
<1>2. ASSUME Goto(s, "bucket", loc[s]) PROVE SlotsOK'
  <2>1. Fitting(s, "bucket", loc[s])
    BY <1>1 DEF Fitting
  <2> QED BY <1>1, <1>2, <2>1, MoveOK DEF PairInv, Labels
<1>3. ASSUME NEW x \in First(loc[s].pairs),
             Goto(s, "pair", [loc[s] EXCEPT !.pairs = loc[s].pairs \ {x}, !.pair = x])
      PROVE  SlotsOK'
  <2> DEFINE l == [loc[s] EXCEPT !.pairs = loc[s].pairs \ {x}, !.pair = x]
  <2>1. x \in Pairs /\ x[1] # x[3]
    BY <1>1 DEF First, Fitting, Locals
  <2>2. l \in Locals /\ l.pairs = loc[s].pairs \ {x} /\ l.pair = x /\ l.bucket = loc[s].bucket
    BY <1>1, <2>1 DEF Locals
  <2>3. Fitting(s, "pair", l)
    BY <1>1, <2>1, <2>2 DEF Fitting
  <2> QED BY <1>3, <2>2, <2>3, MoveOK DEF PairInv, Labels
<1>4. SlotsOK'
  BY <1>2, <1>3 DEF Try
<1> QED BY <1>4 DEF PairInv, Try, Local, store, aside, StoreOK, AsideOK

LEMMA TypesStay == PairInv /\ [Next]_vars => PairInv'
<1> SUFFICES ASSUME PairInv, [Next]_vars PROVE PairInv'
  OBVIOUS
<1>1. ASSUME NEW s \in Tabs, Leave(s) \/ \E b \in Buckets : Join(s, b)
      PROVE  PairInv'
  <2>1. s \in Slots
    BY DEF Slots
  <2> QED BY <1>1, <2>1, LeaveTypes, JoinTypes
<1>2. ASSUME NEW s \in Sweepers, Sweep(s)
      PROVE  PairInv'
  <2>1. s \in Slots
    BY DEF Slots
  <2> QED BY <1>2, <2>1, SweepTypes
<1>3. ASSUME NEW s \in Slots, Advance(s)
      PROVE  PairInv'
  BY <1>3, SetMarkerTypes, EnqueueTypes, SearchTypes, PeekTypes, PairTypes, CreateTypes,
     EmitTypes, ReadMarkerTypes, DequeueTypes, SweepBucketTypes, ForgetTypes, ReadMetaTypes,
     TryTypes DEF Advance
<1>4. ASSUME NEW s \in Slots, Crash(s)
      PROVE  PairInv'
  BY <1>4, ReplyOK DEF PairInv, Crash, store, aside, StoreOK, AsideOK
<1>5. ASSUME NEW p \in Players, ExpireMarker(p)
      PROVE  PairInv'
  BY <1>5 DEF PairInv, ExpireMarker, aside, SlotsOK, StoreOK, AsideOK
<1>6. CASE Tick
  BY <1>6 DEF PairInv, Tick, store, aside, SlotsOK, StoreOK, AsideOK
<1>7. CASE UNCHANGED vars
  BY <1>7 DEF PairInv, vars, SlotsOK, StoreOK, AsideOK
<1> QED BY <1>1, <1>2, <1>3, <1>4, <1>5, <1>6, <1>7 DEF Next

LEMMA TypesStart == Init => PairInv
<1> SUFFICES ASSUME Init PROVE PairInv
  OBVIOUS
<1>1. SlotsOK
  BY BlankOK DEF Init, SlotsOK, Labels
<1>2. StoreOK
  BY DEF Init, StoreOK
<1>3. AsideOK
  BY DEF Init, AsideOK
<1> QED BY <1>1, <1>2, <1>3 DEF PairInv

\* The keys, the requests and the games are well formed, and nobody plays himself.
THEOREM TypesHold == Spec => []PairInv
  BY TypesStart, TypesStay, PTL DEF Spec

-----------------------------------------------------------------------------
(* What a step does to the slots. *)

\* A step of one slot leaves the others where they are.
LEMMA OthersStay ==
  ASSUME PairInv, NEW s \in Slots,
         Advance(s) \/ Crash(s) \/ Leave(s) \/ Sweep(s) \/ \E b \in Buckets : Join(s, b)
  PROVE  \A t \in Slots \ {s} : pc'[t] = pc[t] /\ loc'[t] = loc[t]
<1>1. ASSUME NEW label, NEW l, Goto(s, label, l)
      PROVE  \A t \in Slots \ {s} : pc'[t] = pc[t] /\ loc'[t] = loc[t]
  BY <1>1 DEF Goto, PairInv, SlotsOK
<1>2. ASSUME Reply(s)
      PROVE  \A t \in Slots \ {s} : pc'[t] = pc[t] /\ loc'[t] = loc[t]
  BY <1>1, <1>2 DEF Reply
<1>3. CASE Advance(s)
  <2>1. CASE Peek(s)
    BY <1>1, <1>2, <2>1 DEF Peek
  <2>2. CASE SweepBucket(s)
    BY <1>1, <1>2, <2>2 DEF SweepBucket
  <2>3. CASE Try(s)
    BY <1>1, <1>2, <2>3 DEF Try
  <2>4. CASE SetMarker(s) \/ Enqueue(s) \/ Search(s) \/ Pair(s) \/ Create(s)
    BY <1>1, <1>2, <2>4 DEF SetMarker, Enqueue, Search, Pair, Create
  <2>5. CASE Emit(s) \/ ReadMarker(s) \/ Dequeue(s) \/ Forget(s) \/ ReadMeta(s)
    BY <1>1, <1>2, <2>5 DEF Emit, ReadMarker, Dequeue, Forget, ReadMeta
  <2> QED BY <1>3, <2>1, <2>2, <2>3, <2>4, <2>5 DEF Advance
<1>4. CASE Crash(s) \/ Leave(s) \/ Sweep(s) \/ \E b \in Buckets : Join(s, b)
  BY <1>1, <1>2, <1>4 DEF Crash, Leave, Sweep, Join
<1> QED BY <1>3, <1>4

\* The steps that only look.
Looks(s) ==
  \/ Search(s) \/ Peek(s) \/ SweepBucket(s) \/ Forget(s) \/ ReadMeta(s) \/ Try(s)
  \/ Leave(s) \/ Sweep(s) \/ \E b \in Buckets : Join(s, b)
  \/ Pair(s) /\ ~BothQueued(loc[s].bucket, loc[s].pair)

\* Where a slot has something in hand that somebody else may be wronged by.
Bound == {"enqueue", "dequeue", "create", "emit"}

LEMMA LooksChangesNothing ==
  ASSUME PairInv, NEW s \in Slots, Looks(s)
  PROVE  /\ UNCHANGED <<queue, marker, games, joins, waits, crashes, expiries>>
         /\ pc[s] \notin Bound /\ pc'[s] \notin Bound
         /\ \A t \in Slots \ {s} : pc'[t] = pc[t] /\ loc'[t] = loc[t]
<1>1. pc \in [Slots -> Labels]
  BY DEF PairInv, SlotsOK
<1>2. \A t \in Slots \ {s} : pc'[t] = pc[t] /\ loc'[t] = loc[t]
  BY OthersStay DEF Looks, Advance
<1>3. ASSUME Reply(s) PROVE pc'[s] = "idle"
  BY <1>1, <1>3 DEF Reply, Goto
<1>4. CASE Search(s)
  BY <1>1, <1>2, <1>4 DEF Search, Local, store, aside, Bound, Goto
<1>5. CASE Peek(s)
  BY <1>1, <1>2, <1>3, <1>5 DEF Peek, Local, store, aside, Bound, Goto
<1>6. CASE SweepBucket(s)
  <2>1. \A b : AfterRange(b) \notin Bound
    BY DEF AfterRange, Bound
  <2> QED BY <1>1, <1>2, <1>3, <1>6, <2>1 DEF SweepBucket, Local, store, aside, Bound, Goto
<1>7. CASE Forget(s)
  BY <1>1, <1>2, <1>7 DEF Forget, aside, Bound, Goto
<1>8. CASE ReadMeta(s)
  BY <1>1, <1>2, <1>8 DEF ReadMeta, Local, store, aside, Bound, Goto
<1>9. CASE Try(s)
  BY <1>1, <1>2, <1>9 DEF Try, Local, store, aside, Bound, Goto
<1>10. CASE Leave(s) \/ Sweep(s) \/ \E b \in Buckets : Join(s, b)
  BY <1>1, <1>2, <1>10 DEF Leave, Sweep, Join, Local, store, aside, Bound, Goto
<1>11. CASE Pair(s) /\ ~BothQueued(loc[s].bucket, loc[s].pair)
  BY <1>1, <1>2, <1>11 DEF Pair, aside, Bound, Goto
<1> QED BY <1>4, <1>5, <1>6, <1>7, <1>8, <1>9, <1>10, <1>11 DEF Looks

\* PAIR_SCRIPT takes two players and their markers out, and nothing else.
LEMMA PairEffect ==
  ASSUME PairInv, NEW s \in Slots, Pair(s), BothQueued(loc[s].bucket, loc[s].pair)
  PROVE  /\ loc[s].bucket \in Buckets /\ Held(s) \subseteq Players
         /\ \A q \in Held(s) : queue[loc[s].bucket][q] # Null
         /\ \A b \in Buckets, q \in Players :
              queue'[b][q] = IF b = loc[s].bucket /\ q \in Held(s) THEN Null ELSE queue[b][q]
         /\ \A q \in Players : marker'[q] = IF q \in Held(s) THEN Null ELSE marker[q]
         /\ pc[s] = "pair" /\ pc'[s] = "create" /\ loc'[s] = loc[s]
         /\ UNCHANGED <<games, joins, waits, crashes, expiries>>
         /\ \A t \in Slots \ {s} : pc'[t] = pc[t] /\ loc'[t] = loc[t]
<1> DEFINE b == loc[s].bucket
           p == loc[s].pair[1]
           q == loc[s].pair[3]
<1>1. b \in Buckets /\ p \in Players /\ q \in Players
  BY DEF Pair, PairInv, SlotsOK, Fitting, Pairs
<1>2. /\ queue' = [queue EXCEPT ![b][p] = Null, ![b][q] = Null]
      /\ marker' = [marker EXCEPT ![p] = Null, ![q] = Null]
      /\ Goto(s, "create", loc[s]) /\ pc[s] = "pair"
      /\ UNCHANGED <<games, joins, waits, crashes, expiries>>
  BY DEF Pair, DropMarkers, aside
<1>3. queue[b][p] # Null /\ queue[b][q] # Null
  BY DEF BothQueued
<1>4. /\ queue \in [Buckets -> [Players -> Nat \cup {Null}]]
      /\ marker \in [Players -> Buckets \cup {Null}]
      /\ pc \in [Slots -> Labels] /\ loc \in [Slots -> Locals]
  BY DEF PairInv, StoreOK, SlotsOK
<1>5. Held(s) = {p, q}
  BY DEF Held
<1>6. pc'[s] = "create" /\ loc'[s] = loc[s]
  BY <1>2, <1>4 DEF Goto
<1>7. \A t \in Slots \ {s} : pc'[t] = pc[t] /\ loc'[t] = loc[t]
  BY <1>2, <1>4 DEF Goto
<1> HIDE DEF b, p, q
<1>8. \A c \in Buckets, r \in Players :
        queue'[c][r] = IF c = b /\ r \in {p, q} THEN Null ELSE queue[c][r]
  BY <1>1, <1>2, <1>4
<1>9. \A r \in Players : marker'[r] = IF r \in {p, q} THEN Null ELSE marker[r]
  BY <1>1, <1>2, <1>4
<1>10. b = loc[s].bucket
  BY DEF b
<1>11. Held(s) \subseteq Players /\ \A r \in Held(s) : queue[b][r] # Null
  BY <1>1, <1>3, <1>5
<1>12. \A c \in Buckets, r \in Players :
         queue'[c][r] = IF c = b /\ r \in Held(s) THEN Null ELSE queue[c][r]
  BY <1>5, <1>8
<1>13. \A r \in Players : marker'[r] = IF r \in Held(s) THEN Null ELSE marker[r]
  BY <1>5, <1>9
<1>14. UNCHANGED <<games, joins, waits, crashes, expiries>> /\ pc[s] = "pair"
  BY <1>2
<1> QED BY <1>1, <1>6, <1>7, <1>10, <1>11, <1>12, <1>13, <1>14

\* What else can happen.
LEMMA NextCases ==
  ASSUME [Next]_vars
  PROVE  \/ \E s \in Slots : Looks(s)
         \/ \E s \in Slots : SetMarker(s) \/ Enqueue(s)
         \/ \E s \in Slots : Pair(s) /\ BothQueued(loc[s].bucket, loc[s].pair)
         \/ \E s \in Slots : Create(s) \/ Emit(s) \/ ReadMarker(s) \/ Dequeue(s) \/ Crash(s)
         \/ \E p \in Players : ExpireMarker(p)
         \/ Tick \/ UNCHANGED vars
  BY DEF Next, Advance, Looks, Slots

-----------------------------------------------------------------------------
(* Nobody who waits is forgotten. *)

LEMMA HeldStay ==
  ASSUME PairInv, WaitersAreHeld, crashes = 0, NEW s \in Slots, NEW p \in waits,
         \A t \in Slots \ {s} : pc'[t] = pc[t] /\ loc'[t] = loc[t],
         pc[s] \notin {"create", "emit"} \/ (pc'[s] \in {"create", "emit"} /\ loc'[s].pair = loc[s].pair),
         \A b \in Buckets : queue'[b][p] = queue[b][p]
  PROVE  \/ \E b \in Buckets : queue'[b][p] # Null
         \/ \E t \in Slots : pc'[t] \in {"create", "emit"} /\ p \in Held(t)'
<1>1. CASE \E b \in Buckets : queue[b][p] # Null
  BY <1>1
<1>2. ASSUME NEW t \in Slots, pc[t] \in {"create", "emit"}, p \in Held(t)
      PROVE  pc'[t] \in {"create", "emit"} /\ p \in Held(t)'
  BY <1>2 DEF Held
<1> QED BY <1>1, <1>2 DEF WaitersAreHeld

LEMMA WaitersStayHeld ==
  ASSUME PairInv, WaitersAreHeld, [Next]_vars
  PROVE  WaitersAreHeld'
<1> DEFINE Waiter(p) == \/ \E b \in Buckets : queue'[b][p] # Null
                        \/ \E t \in Slots : pc'[t] \in {"create", "emit"} /\ p \in Held(t)'
<1> SUFFICES ASSUME crashes' = 0, NEW p \in waits'
             PROVE  Waiter(p)
  BY DEF WaitersAreHeld
<1>0. /\ pc \in [Slots -> Labels] /\ loc \in [Slots -> Locals] /\ crashes \in Nat
      /\ queue \in [Buckets -> [Players -> Nat \cup {Null}]] /\ waits \subseteq Players
  BY DEF PairInv, SlotsOK, StoreOK, AsideOK
<1>1. ASSUME NEW s \in Slots, Looks(s) PROVE Waiter(p)
  BY <1>1, LooksChangesNothing, HeldStay DEF Bound
<1>2. ASSUME NEW s \in Slots, SetMarker(s) PROVE Waiter(p)
  BY <1>2, OthersStay, HeldStay DEF SetMarker, aside, Advance
<1>3. ASSUME NEW s \in Slots, Enqueue(s) PROVE Waiter(p)
  <2>1. s \in Tabs /\ loc[s].bucket \in Buckets /\ loc[s].t \in Nat /\ Owner[s] \in Players
    BY <1>3, OwnerAssumption DEF Enqueue, PairInv, SlotsOK, Fitting, Locals, Slots
  <2>2. CASE p = Owner[s]
    <3>1. queue'[loc[s].bucket][p] = loc[s].t
      BY <1>0, <1>3, <2>1, <2>2 DEF Enqueue
    <3> QED BY <2>1, <3>1, NullAssumption
  <2>3. CASE p # Owner[s]
    <3>1. p \in waits /\ \A b \in Buckets : queue'[b][p] = queue[b][p]
      BY <1>0, <1>3, <2>1, <2>3 DEF Enqueue
    <3> QED BY <1>3, <3>1, OthersStay, HeldStay DEF Enqueue, Advance
  <2> QED BY <2>2, <2>3
<1>4. ASSUME NEW s \in Slots, Pair(s), BothQueued(loc[s].bucket, loc[s].pair) PROVE Waiter(p)
  <2>1. CASE p \in Held(s)
    BY <1>4, <2>1, PairEffect DEF Held
  <2>2. CASE p \notin Held(s)
    <3>1. \A b \in Buckets : queue'[b][p] = queue[b][p]
      BY <1>0, <1>4, <2>2, PairEffect
    <3> QED BY <1>4, <3>1, PairEffect, HeldStay
  <2> QED BY <2>1, <2>2
<1>5. ASSUME NEW s \in Slots, Create(s) PROVE Waiter(p)
  <2>1. pc'[s] = "emit" /\ loc'[s] = loc[s]
    BY <1>0, <1>5 DEF Create, Goto
  <2> QED BY <1>5, <2>1, OthersStay, HeldStay DEF Create, store, Advance
<1>6. ASSUME NEW s \in Slots, Emit(s) PROVE Waiter(p)
  <2>1. p \in waits /\ p \notin Held(s) /\ queue' = queue
    BY <1>6 DEF Emit, store, Held
  <2>2. crashes = 0 /\ \A t \in Slots \ {s} : pc'[t] = pc[t] /\ loc'[t] = loc[t]
    BY <1>6, OthersStay DEF Emit, Advance
  <2> QED BY <2>1, <2>2 DEF WaitersAreHeld, Held
<1>7. ASSUME NEW s \in Slots, ReadMarker(s) PROVE Waiter(p)
  BY <1>7, OthersStay, HeldStay DEF ReadMarker, Local, store, aside, Advance
<1>8. ASSUME NEW s \in Slots, Dequeue(s) PROVE Waiter(p)
  <2>1. s \in Tabs /\ loc[s].bucket \in Buckets /\ Owner[s] \in Players
    BY <1>8, OwnerAssumption DEF Dequeue, PairInv, SlotsOK, Fitting, Locals, Slots
  <2>2. p \in waits /\ p # Owner[s]
    BY <1>8 DEF Dequeue
  <2>3. \A b \in Buckets : queue'[b][p] = queue[b][p]
    BY <1>0, <1>8, <2>1, <2>2 DEF Dequeue
  <2> QED BY <1>8, <2>2, <2>3, OthersStay, HeldStay DEF Dequeue, Advance
<1>9. ASSUME NEW s \in Slots, Crash(s) PROVE FALSE
  BY <1>0, <1>9 DEF Crash
<1>10. CASE (\E q \in Players : ExpireMarker(q)) \/ Tick \/ UNCHANGED vars
  BY <1>10 DEF ExpireMarker, Tick, vars, store, aside, WaitersAreHeld, Held
<1> QED
  BY <1>1, <1>2, <1>3, <1>4, <1>5, <1>6, <1>7, <1>8, <1>9, <1>10, NextCases

\* While nothing died: who joined is in a queue, or in the hands of a request or sweep
\* that took him out of it and has not yet said so.
THEOREM WaitersAlwaysHeld == Spec => []WaitersAreHeld
<1>1. Init => WaitersAreHeld
  BY DEF Init, WaitersAreHeld
<1>2. PairInv /\ WaitersAreHeld /\ [Next]_vars => WaitersAreHeld'
  BY WaitersStayHeld
<1> QED BY <1>1, <1>2, TypesHold, PTL DEF Spec

-----------------------------------------------------------------------------
(* Every game is worth a join of each of its players. *)

\* What becomes of the three counts of a player.
LEMMA CountsStay ==
  ASSUME JoinsCover, NEW p \in Players, joins \in [Players -> Nat],
         GamesOf(p)' \subseteq GamesOf(p), InHand(p)' \subseteq InHand(p),
         QueuedIn(p)' \subseteq QueuedIn(p), joins'[p] = joins[p]
  PROVE  /\ IsFiniteSet(GamesOf(p)') /\ IsFiniteSet(InHand(p)') /\ IsFiniteSet(QueuedIn(p)')
         /\ Cardinality(GamesOf(p)') + Cardinality(InHand(p)') + Cardinality(QueuedIn(p)') <= joins'[p]
<1>1. IsFiniteSet(GamesOf(p)) /\ IsFiniteSet(InHand(p)) /\ IsFiniteSet(QueuedIn(p))
  BY DEF JoinsCover
<1>2. IsFiniteSet(GamesOf(p)') /\ Cardinality(GamesOf(p)') <= Cardinality(GamesOf(p))
  BY <1>1, FS_Subset
<1>3. IsFiniteSet(InHand(p)') /\ Cardinality(InHand(p)') <= Cardinality(InHand(p))
  BY <1>1, FS_Subset
<1>4. IsFiniteSet(QueuedIn(p)') /\ Cardinality(QueuedIn(p)') <= Cardinality(QueuedIn(p))
  BY <1>1, FS_Subset
<1>5. /\ Cardinality(GamesOf(p)) \in Nat /\ Cardinality(InHand(p)) \in Nat
      /\ Cardinality(QueuedIn(p)) \in Nat
      /\ Cardinality(GamesOf(p)') \in Nat /\ Cardinality(InHand(p)') \in Nat
      /\ Cardinality(QueuedIn(p)') \in Nat
  BY <1>1, <1>2, <1>3, <1>4, FS_CardinalityType
<1>6. joins[p] \in Nat
  OBVIOUS
<1>7. Cardinality(GamesOf(p)) + Cardinality(InHand(p)) + Cardinality(QueuedIn(p)) <= joins[p]
  BY DEF JoinsCover
<1> QED BY <1>2, <1>3, <1>4, <1>5, <1>6, <1>7

\* A join more pays for an entry more, an entry less for a pair in hand, a pair in
\* hand less for a game.
LEMMA CountsMove ==
  ASSUME JoinsCover, NEW p \in Players, joins \in [Players -> Nat], joins'[p] \in Nat,
         NEW b, NEW s, NEW n,
         \/ /\ GamesOf(p)' = GamesOf(p) /\ InHand(p)' = InHand(p)
            /\ QueuedIn(p)' = QueuedIn(p) \cup {b} /\ joins'[p] = joins[p] + 1
         \/ /\ GamesOf(p)' = GamesOf(p) /\ joins'[p] = joins[p]
            /\ b \in QueuedIn(p) /\ QueuedIn(p)' = QueuedIn(p) \ {b} /\ InHand(p)' = InHand(p) \cup {s}
         \/ /\ QueuedIn(p)' = QueuedIn(p) /\ joins'[p] = joins[p]
            /\ s \in InHand(p) /\ InHand(p)' = InHand(p) \ {s} /\ GamesOf(p)' = GamesOf(p) \cup {n}
  PROVE  /\ IsFiniteSet(GamesOf(p)') /\ IsFiniteSet(InHand(p)') /\ IsFiniteSet(QueuedIn(p)')
         /\ Cardinality(GamesOf(p)') + Cardinality(InHand(p)') + Cardinality(QueuedIn(p)') <= joins'[p]
<1>1. IsFiniteSet(GamesOf(p)) /\ IsFiniteSet(InHand(p)) /\ IsFiniteSet(QueuedIn(p))
  BY DEF JoinsCover
<1>2. /\ Cardinality(GamesOf(p)) \in Nat /\ Cardinality(InHand(p)) \in Nat
      /\ Cardinality(QueuedIn(p)) \in Nat /\ joins[p] \in Nat
  BY <1>1, FS_CardinalityType
<1>3. Cardinality(GamesOf(p)) + Cardinality(InHand(p)) + Cardinality(QueuedIn(p)) <= joins[p]
  BY DEF JoinsCover
<1>4. /\ IsFiniteSet(QueuedIn(p) \cup {b}) /\ IsFiniteSet(InHand(p) \cup {s})
      /\ IsFiniteSet(GamesOf(p) \cup {n})
      /\ Cardinality(QueuedIn(p) \cup {b}) \in {Cardinality(QueuedIn(p)), Cardinality(QueuedIn(p)) + 1}
      /\ Cardinality(InHand(p) \cup {s}) \in {Cardinality(InHand(p)), Cardinality(InHand(p)) + 1}
      /\ Cardinality(GamesOf(p) \cup {n}) \in {Cardinality(GamesOf(p)), Cardinality(GamesOf(p)) + 1}
  BY <1>1, FS_AddElement
<1>5. /\ IsFiniteSet(QueuedIn(p) \ {b}) /\ IsFiniteSet(InHand(p) \ {s})
      /\ b \in QueuedIn(p) => Cardinality(QueuedIn(p) \ {b}) = Cardinality(QueuedIn(p)) - 1
      /\ s \in InHand(p) => Cardinality(InHand(p) \ {s}) = Cardinality(InHand(p)) - 1
  BY <1>1, FS_RemoveElement
<1>6. CASE /\ GamesOf(p)' = GamesOf(p) /\ InHand(p)' = InHand(p)
           /\ QueuedIn(p)' = QueuedIn(p) \cup {b} /\ joins'[p] = joins[p] + 1
  BY <1>1, <1>2, <1>3, <1>4, <1>6
<1>7. CASE /\ GamesOf(p)' = GamesOf(p) /\ joins'[p] = joins[p]
           /\ b \in QueuedIn(p) /\ QueuedIn(p)' = QueuedIn(p) \ {b} /\ InHand(p)' = InHand(p) \cup {s}
  BY <1>1, <1>2, <1>3, <1>4, <1>5, <1>7
<1>8. CASE /\ QueuedIn(p)' = QueuedIn(p) /\ joins'[p] = joins[p]
           /\ s \in InHand(p) /\ InHand(p)' = InHand(p) \ {s} /\ GamesOf(p)' = GamesOf(p) \cup {n}
  BY <1>1, <1>2, <1>3, <1>4, <1>5, <1>8
<1> QED BY <1>6, <1>7, <1>8

\* What a step does to the counts: of whoever is not its player, nothing.
LEMMA SlotsCount ==
  ASSUME PairInv, NEW s \in Slots, NEW p \in Players,
         \A t \in Slots \ {s} : pc'[t] = pc[t] /\ loc'[t] = loc[t]
  PROVE  /\ pc'[s] # "create" \/ p \notin Held(s)' => InHand(p)' = InHand(p) \ {s}
         /\ pc'[s] = "create" /\ p \in Held(s)' => InHand(p)' = InHand(p) \cup {s}
         /\ pc[s] # "create" \/ p \notin Held(s) => s \notin InHand(p)
  BY DEF InHand, Held

LEMMA GamesCount ==
  ASSUME PairInv, NEW s \in Slots, NEW p \in Players, Create(s)
  PROVE  GamesOf(p)' = IF p \in Held(s) THEN GamesOf(p) \cup {Len(games')} ELSE GamesOf(p)
<1>1. /\ Len(games') = Len(games) + 1
      /\ \A n \in 1..Len(games) : games'[n] = games[n]
      /\ {games'[Len(games')].white, games'[Len(games')].black} = Held(s)
  BY CreateTypes
<1>2. Len(games) \in Nat
  BY DEF PairInv, AsideOK
<1>3. 1..Len(games') = (1..Len(games)) \cup {Len(games')} /\ Len(games') \notin 1..Len(games)
  BY <1>1, <1>2
<1>4. GamesOf(p)' = {n \in 1..Len(games') : p \in {games'[n].white, games'[n].black}}
  BY DEF GamesOf
<1>5. \A n : n \in GamesOf(p)' <=> n \in GamesOf(p) \/ (n = Len(games') /\ p \in Held(s))
  BY <1>1, <1>3, <1>4 DEF GamesOf
<1> QED BY <1>5

LEMMA JoinsStayCovered ==
  ASSUME PairInv, JoinsCover, [Next]_vars
  PROVE  JoinsCover'
<1> DEFINE Covered(p) ==
      /\ IsFiniteSet(GamesOf(p)') /\ IsFiniteSet(InHand(p)') /\ IsFiniteSet(QueuedIn(p)')
      /\ Cardinality(GamesOf(p)') + Cardinality(InHand(p)') + Cardinality(QueuedIn(p)') <= joins'[p]
<1> SUFFICES ASSUME NEW p \in Players PROVE Covered(p)
  BY DEF JoinsCover
<1>0. /\ pc \in [Slots -> Labels] /\ loc \in [Slots -> Locals] /\ joins \in [Players -> Nat]
      /\ queue \in [Buckets -> [Players -> Nat \cup {Null}]]
  BY DEF PairInv, SlotsOK, StoreOK, AsideOK
<1>1. ASSUME NEW s \in Slots, Looks(s) PROVE Covered(p)
  <2>1. InHand(p)' = InHand(p) \ {s}
    BY <1>1, LooksChangesNothing, SlotsCount DEF Bound
  <2>2. games' = games /\ joins' = joins /\ queue' = queue
    BY <1>1, LooksChangesNothing
  <2>3. GamesOf(p)' = GamesOf(p) /\ QueuedIn(p)' = QueuedIn(p)
    BY <2>2 DEF GamesOf, QueuedIn
  <2> QED BY <1>0, <2>1, <2>2, <2>3, CountsStay
<1>2. ASSUME NEW s \in Slots,
             SetMarker(s) \/ Emit(s) \/ ReadMarker(s) \/ Crash(s)
      PROVE  Covered(p)
  <2>1. \A t \in Slots \ {s} : pc'[t] = pc[t] /\ loc'[t] = loc[t]
    BY <1>2, OthersStay DEF Advance
  <2>2. games' = games /\ joins' = joins /\ queue' = queue
    BY <1>2 DEF SetMarker, Emit, ReadMarker, Crash, Local, store, aside
  <2>3. pc'[s] # "create"
    BY <1>0, <1>2 DEF SetMarker, Emit, ReadMarker, Crash, Reply, Goto
  <2>4. InHand(p)' = InHand(p) \ {s}
    BY <2>1, <2>3, SlotsCount
  <2>5. GamesOf(p)' = GamesOf(p) /\ QueuedIn(p)' = QueuedIn(p)
    BY <2>2 DEF GamesOf, QueuedIn
  <2> QED BY <1>0, <2>2, <2>4, <2>5, CountsStay
<1>3. ASSUME NEW s \in Slots, Enqueue(s) PROVE Covered(p)
  <2>1. s \in Tabs /\ loc[s].bucket \in Buckets /\ loc[s].t \in Nat /\ Owner[s] \in Players
    BY <1>3, OwnerAssumption DEF Enqueue, PairInv, SlotsOK, Fitting, Locals, Slots
  <2>2. \A t \in Slots \ {s} : pc'[t] = pc[t] /\ loc'[t] = loc[t]
    BY <1>3, OthersStay DEF Advance
  <2>3. pc'[s] = "search" /\ pc[s] = "enqueue" /\ games' = games
    BY <1>0, <1>3 DEF Enqueue, Goto
  <2>4. InHand(p)' = InHand(p) /\ GamesOf(p)' = GamesOf(p)
    BY <2>2, <2>3, SlotsCount DEF GamesOf
  <2>5. CASE p = Owner[s]
    <3>1. \A b \in Buckets : queue'[b][p] = IF b = loc[s].bucket THEN loc[s].t ELSE queue[b][p]
      BY <1>0, <1>3, <2>1, <2>5 DEF Enqueue
    <3>2. QueuedIn(p)' = QueuedIn(p) \cup {loc[s].bucket}
      BY <2>1, <3>1, NullAssumption DEF QueuedIn
    <3>3. joins'[p] = joins[p] + 1
      BY <1>0, <1>3, <2>5 DEF Enqueue
    <3>4. joins'[p] \in Nat
      BY <1>0, <3>3
    <3> QED BY <1>0, <2>4, <3>2, <3>3, <3>4, CountsMove
  <2>6. CASE p # Owner[s]
    <3>1. joins'[p] = joins[p] /\ \A b \in Buckets : queue'[b][p] = queue[b][p]
      BY <1>0, <1>3, <2>1, <2>6 DEF Enqueue
    <3>2. QueuedIn(p)' = QueuedIn(p)
      BY <3>1 DEF QueuedIn
    <3> QED BY <1>0, <2>4, <3>1, <3>2, CountsStay
  <2> QED BY <2>5, <2>6
<1>4. ASSUME NEW s \in Slots, Pair(s), BothQueued(loc[s].bucket, loc[s].pair) PROVE Covered(p)
  <2>1. Held(s)' = Held(s) /\ pc[s] # "create" /\ pc'[s] = "create" /\ joins' = joins /\ games' = games
    BY <1>4, PairEffect DEF Held
  <2>2. GamesOf(p)' = GamesOf(p)
    BY <2>1 DEF GamesOf
  <2>3. \A t \in Slots \ {s} : pc'[t] = pc[t] /\ loc'[t] = loc[t]
    BY <1>4, PairEffect
  <2>4. CASE p \in Held(s)
    <3>1. InHand(p)' = InHand(p) \cup {s}
      BY <2>1, <2>3, <2>4, SlotsCount
    <3>2. loc[s].bucket \in QueuedIn(p) /\ QueuedIn(p)' = QueuedIn(p) \ {loc[s].bucket}
      BY <1>4, <2>4, PairEffect DEF QueuedIn
    <3>3. joins'[p] \in Nat /\ joins'[p] = joins[p]
      BY <1>0, <2>1
    <3> QED BY <1>0, <2>2, <3>1, <3>2, <3>3, CountsMove
  <2>5. CASE p \notin Held(s)
    <3>1. InHand(p)' = InHand(p) \ {s}
      BY <2>1, <2>3, <2>5, SlotsCount
    <3>2. QueuedIn(p)' = QueuedIn(p)
      BY <1>4, <2>5, PairEffect DEF QueuedIn
    <3> QED BY <1>0, <2>1, <2>2, <3>1, <3>2, CountsStay
  <2> QED BY <2>4, <2>5
<1>5. ASSUME NEW s \in Slots, Create(s) PROVE Covered(p)
  <2>1. \A t \in Slots \ {s} : pc'[t] = pc[t] /\ loc'[t] = loc[t]
    BY <1>5, OthersStay DEF Advance
  <2>2. pc[s] = "create" /\ pc'[s] = "emit" /\ queue' = queue /\ joins' = joins
    BY <1>0, <1>5 DEF Create, Goto, store
  <2>3. InHand(p)' = InHand(p) \ {s} /\ QueuedIn(p)' = QueuedIn(p)
    BY <2>1, <2>2, SlotsCount DEF QueuedIn
  <2>4. CASE p \in Held(s)
    <3>1. s \in InHand(p)
      BY <2>2, <2>4 DEF InHand
    <3>2. GamesOf(p)' = GamesOf(p) \cup {Len(games')}
      BY <1>5, <2>4, GamesCount
    <3>3. joins'[p] \in Nat /\ joins'[p] = joins[p]
      BY <1>0, <2>2
    <3> QED BY <1>0, <2>3, <3>1, <3>2, <3>3, CountsMove
  <2>5. CASE p \notin Held(s)
    <3>1. GamesOf(p)' = GamesOf(p)
      BY <1>5, <2>5, GamesCount
    <3> QED BY <1>0, <2>2, <2>3, <3>1, CountsStay
  <2> QED BY <2>4, <2>5
<1>6. ASSUME NEW s \in Slots, Dequeue(s) PROVE Covered(p)
  <2>1. \A t \in Slots \ {s} : pc'[t] = pc[t] /\ loc'[t] = loc[t]
    BY <1>6, OthersStay DEF Advance
  <2>2. pc'[s] = "idle" /\ games' = games /\ joins' = joins
    BY <1>0, <1>6 DEF Dequeue, Reply, Goto
  <2>3. InHand(p)' = InHand(p) \ {s} /\ GamesOf(p)' = GamesOf(p)
    BY <2>1, <2>2, SlotsCount DEF GamesOf
  <2>4. s \in Tabs /\ loc[s].bucket \in Buckets /\ Owner[s] \in Players
    BY <1>6, OwnerAssumption DEF Dequeue, PairInv, SlotsOK, Fitting, Locals, Slots
  <2>5. \A b \in Buckets : queue'[b][p] \in {queue[b][p], Null}
    BY <1>0, <1>6, <2>4 DEF Dequeue
  <2>6. QueuedIn(p)' \subseteq QueuedIn(p)
    BY <2>5 DEF QueuedIn
  <2> QED BY <1>0, <2>2, <2>3, <2>6, CountsStay
<1>7. CASE (\E q \in Players : ExpireMarker(q)) \/ Tick \/ UNCHANGED vars
  <2>1. UNCHANGED <<games, joins, queue, pc, loc>>
    BY <1>7 DEF ExpireMarker, Tick, vars, store, aside
  <2>2. GamesOf(p)' = GamesOf(p) /\ InHand(p)' = InHand(p) /\ QueuedIn(p)' = QueuedIn(p)
    BY <2>1 DEF GamesOf, InHand, Held, QueuedIn
  <2> QED BY <1>0, <2>1, <2>2, CountsStay
<1> QED
  BY <1>1, <1>2, <1>3, <1>4, <1>5, <1>6, <1>7, NextCases

LEMMA JoinsStartCovered == Init => JoinsCover
<1> SUFFICES ASSUME Init, NEW p \in Players
             PROVE  /\ IsFiniteSet(GamesOf(p)) /\ IsFiniteSet(InHand(p)) /\ IsFiniteSet(QueuedIn(p))
                    /\ Cardinality(GamesOf(p)) + Cardinality(InHand(p)) + Cardinality(QueuedIn(p)) <= joins[p]
  BY DEF JoinsCover
<1>1. GamesOf(p) = {} /\ InHand(p) = {} /\ QueuedIn(p) = {} /\ joins[p] = 0
  BY DEF Init, GamesOf, InHand, QueuedIn
<1> QED BY <1>1, FS_EmptySet

\* However many joins and sweepers try, whatever dies: a player's games, his pairs in
\* hand and his entries together are no more than the times he joined.
THEOREM JoinsAlwaysCover == Spec => []JoinsCover
  BY JoinsStartCovered, JoinsStayCovered, TypesHold, PTL DEF Spec

\* An entry in a queue ends in at most one game, against somebody else, and while nothing
\* died in a game, with its owner's leave, or not at all.
THEOREM EntriesEndOnceHolds == Spec => []EntriesEndOnce
<1>1. PairInv /\ JoinsCover => PairedOnce
  <2> SUFFICES ASSUME PairInv, JoinsCover PROVE PairedOnce
    OBVIOUS
  <2>1. \A n \in 1..Len(games) : games[n].white # games[n].black
    BY DEF PairInv, AsideOK
  <2>2. ASSUME NEW p \in Players PROVE Cardinality(GamesOf(p)) <= joins[p]
    <3>1. /\ IsFiniteSet(GamesOf(p)) /\ IsFiniteSet(InHand(p)) /\ IsFiniteSet(QueuedIn(p))
          /\ Cardinality(GamesOf(p)) + Cardinality(InHand(p)) + Cardinality(QueuedIn(p)) <= joins[p]
      BY DEF JoinsCover
    <3>2. /\ Cardinality(GamesOf(p)) \in Nat /\ Cardinality(InHand(p)) \in Nat
          /\ Cardinality(QueuedIn(p)) \in Nat /\ joins[p] \in Nat
      BY <3>1, FS_CardinalityType DEF PairInv, AsideOK
    <3> QED BY <3>1, <3>2
  <2> QED BY <2>1, <2>2 DEF PairedOnce
<1>2. WaitersAreHeld => (crashes = 0 => NobodyVanishes)
  BY DEF WaitersAreHeld, NobodyVanishes, Quiet
<1>3. PairInv /\ JoinsCover /\ WaitersAreHeld => EntriesEndOnce
  BY <1>1, <1>2 DEF EntriesEndOnce
<1> QED BY <1>3, TypesHold, JoinsAlwaysCover, WaitersAlwaysHeld, PTL

-----------------------------------------------------------------------------
(* One account, one queue, one marker.  A tab takes its player out of the  *)
(* queue that the marker named when it looked; a second tab of the player  *)
(* could have taken him to another in between, so this is for one each.    *)

LEMMA OwnersDiffer ==
  ASSUME OneTabEach, NEW s \in Tabs, NEW t \in Tabs, s # t
  PROVE  Owner[s] \in Players /\ Owner[t] \in Players /\ Owner[s] # Owner[t]
  BY OwnerAssumption DEF OneTabEach

\* What EntryHasMarker says of a tab that did not move, when nobody touched its player.
LEMMA TabStays ==
  ASSUME PairInv, EntryHasMarker, expiries = 0, NEW t \in Tabs,
         pc'[t] = pc[t], loc'[t] = loc[t], marker'[Owner[t]] = marker[Owner[t]],
         \A b \in Buckets : queue'[b][Owner[t]] = queue[b][Owner[t]]
  PROVE  /\ pc'[t] = "enqueue" => /\ marker'[Owner[t]] = loc'[t].bucket
                                  /\ \A b \in Buckets : queue'[b][Owner[t]] = Null
         /\ pc'[t] = "dequeue" => \A b \in Buckets \ {loc'[t].bucket} : queue'[b][Owner[t]] = Null
  BY DEF EntryHasMarker

LEMMA EntriesKeepMarkers ==
  ASSUME PairInv, OneTabEach, EntryHasMarker, [Next]_vars
  PROVE  EntryHasMarker'
<1> DEFINE TabOK(t) ==
      /\ pc'[t] = "enqueue" => /\ marker'[Owner[t]] = loc'[t].bucket
                               /\ \A b \in Buckets : queue'[b][Owner[t]] = Null
      /\ pc'[t] = "dequeue" => \A b \in Buckets \ {loc'[t].bucket} : queue'[b][Owner[t]] = Null
           EntriesOK == \A b \in Buckets, p \in Players : queue'[b][p] # Null => marker'[p] = b
<1> SUFFICES ASSUME expiries' = 0
             PROVE  EntriesOK /\ \A t \in Tabs : TabOK(t)
  BY DEF EntryHasMarker
<1>0. /\ pc \in [Slots -> Labels] /\ loc \in [Slots -> Locals]
      /\ queue \in [Buckets -> [Players -> Nat \cup {Null}]]
      /\ marker \in [Players -> Buckets \cup {Null}]
      /\ Tabs \subseteq Slots /\ expiries \in Nat
      /\ \A t \in Tabs : Owner[t] \in Players
  BY OwnerAssumption DEF PairInv, SlotsOK, StoreOK, AsideOK, Slots
<1>1. ASSUME NEW s \in Slots, Looks(s)
      PROVE  EntriesOK /\ \A t \in Tabs : TabOK(t)
  <2>1. queue' = queue /\ marker' = marker /\ expiries = 0
    BY <1>1, LooksChangesNothing
  <2>2. pc'[s] \notin {"enqueue", "dequeue"}
    BY <1>1, LooksChangesNothing DEF Bound
  <2>3. ASSUME NEW t \in Tabs PROVE TabOK(t)
    <3>1. CASE t = s
      BY <2>2, <3>1
    <3>2. CASE t # s
      <4>1. pc'[t] = pc[t] /\ loc'[t] = loc[t]
        BY <1>0, <1>1, <3>2, LooksChangesNothing
      <4> QED BY <2>1, <4>1, TabStays
    <3> QED BY <3>1, <3>2
  <2> QED BY <2>1, <2>3 DEF EntryHasMarker
<1>2. ASSUME NEW s \in Slots, Create(s) \/ Emit(s) \/ Crash(s)
      PROVE  EntriesOK /\ \A t \in Tabs : TabOK(t)
  <2>1. queue' = queue /\ marker' = marker /\ expiries = 0
    BY <1>2 DEF Create, Emit, Crash, store
  <2>2. pc'[s] \notin {"enqueue", "dequeue"}
    BY <1>0, <1>2 DEF Create, Emit, Crash, Reply, Goto
  <2>3. \A t \in Slots \ {s} : pc'[t] = pc[t] /\ loc'[t] = loc[t]
    BY <1>2, OthersStay DEF Advance
  <2>4. ASSUME NEW t \in Tabs PROVE TabOK(t)
    <3>1. CASE t = s
      BY <2>2, <3>1
    <3>2. CASE t # s
      BY <1>0, <2>1, <2>3, <3>2, TabStays
    <3> QED BY <3>1, <3>2
  <2> QED BY <2>1, <2>4 DEF EntryHasMarker
<1>3. ASSUME NEW s \in Slots, SetMarker(s)
      PROVE  EntriesOK /\ \A t \in Tabs : TabOK(t)
  <2>1. s \in Tabs /\ Owner[s] \in Players
    BY <1>0, <1>3 DEF SetMarker, PairInv, SlotsOK, Fitting, Slots
  <2>2. queue' = queue /\ expiries = 0
    BY <1>3 DEF SetMarker
  <2>3. \A t \in Slots \ {s} : pc'[t] = pc[t] /\ loc'[t] = loc[t]
    BY <1>3, OthersStay DEF Advance
  <2>4. CASE marker[Owner[s]] # Null
    <3>1. marker' = marker /\ pc'[s] = "idle"
      BY <1>0, <1>3, <2>4 DEF SetMarker, Reply, Goto
    <3>2. ASSUME NEW t \in Tabs PROVE TabOK(t)
      BY <1>0, <2>2, <2>3, <3>1, TabStays
    <3> QED BY <2>2, <3>1, <3>2 DEF EntryHasMarker
  <2>5. CASE marker[Owner[s]] = Null
    <3>1. /\ marker' = [marker EXCEPT ![Owner[s]] = loc[s].bucket]
          /\ pc' = [pc EXCEPT ![s] = "enqueue"]
          /\ loc' = [loc EXCEPT ![s] = [loc[s] EXCEPT !.t = now]]
      BY <1>3, <2>5 DEF SetMarker, Goto
    <3>2. pc'[s] = "enqueue" /\ loc'[s].bucket = loc[s].bucket
      BY <1>0, <2>1, <3>1 DEF Locals
    <3>3. marker'[Owner[s]] = loc[s].bucket
          /\ \A p \in Players \ {Owner[s]} : marker'[p] = marker[p]
      BY <1>0, <2>1, <3>1
    <3>4. \A b \in Buckets : queue[b][Owner[s]] = Null
      BY <2>1, <2>2, <2>5, NullAssumption DEF EntryHasMarker
    <3>5. TabOK(s)
      BY <2>2, <3>2, <3>3, <3>4
    <3>6. ASSUME NEW t \in Tabs, t # s PROVE TabOK(t)
      <4>1. Owner[t] # Owner[s]
        BY <2>1, <3>6, OwnersDiffer
      <4> QED BY <1>0, <2>2, <2>3, <3>3, <3>6, <4>1, TabStays
    <3>7. EntriesOK
      BY <2>2, <3>3, <3>4 DEF EntryHasMarker
    <3> QED BY <3>5, <3>6, <3>7
  <2> QED BY <2>4, <2>5
<1>4. ASSUME NEW s \in Slots, Enqueue(s)
      PROVE  EntriesOK /\ \A t \in Tabs : TabOK(t)
  <2>1. s \in Tabs /\ Owner[s] \in Players /\ loc[s].bucket \in Buckets
    BY <1>0, <1>4 DEF Enqueue, PairInv, SlotsOK, Fitting, Slots
  <2>2. marker' = marker /\ expiries = 0 /\ pc[s] = "enqueue"
    BY <1>4 DEF Enqueue
  <2>3. pc'[s] = "search"
    BY <1>0, <1>4 DEF Enqueue, Goto
  <2>4. \A t \in Slots \ {s} : pc'[t] = pc[t] /\ loc'[t] = loc[t]
    BY <1>4, OthersStay DEF Advance
  <2>5. \A b \in Buckets, p \in Players :
          p # Owner[s] \/ b # loc[s].bucket => queue'[b][p] = queue[b][p]
    BY <1>0, <1>4, <2>1 DEF Enqueue
  <2>6. marker[Owner[s]] = loc[s].bucket
    BY <2>1, <2>2 DEF EntryHasMarker
  <2>7. ASSUME NEW t \in Tabs PROVE TabOK(t)
    <3>1. CASE t = s
      BY <2>3, <3>1
    <3>2. CASE t # s
      <4>1. Owner[t] # Owner[s]
        BY <2>1, <3>2, OwnersDiffer
      <4> QED BY <1>0, <2>2, <2>4, <2>5, <3>2, <4>1, TabStays
    <3> QED BY <3>1, <3>2
  <2>8. EntriesOK
    BY <2>2, <2>5, <2>6 DEF EntryHasMarker
  <2> QED BY <2>7, <2>8
<1>5. ASSUME NEW s \in Slots, Pair(s), BothQueued(loc[s].bucket, loc[s].pair)
      PROVE  EntriesOK /\ \A t \in Tabs : TabOK(t)
  <2>1. expiries = 0 /\ pc'[s] = "create"
    BY <1>5, PairEffect
  <2>2. ASSUME NEW b \in Buckets, NEW p \in Players, queue'[b][p] # Null
        PROVE  marker'[p] = b
    <3>1. queue[b][p] # Null
      BY <1>5, <2>2, PairEffect
    <3>2. marker[p] = b
      BY <2>1, <3>1 DEF EntryHasMarker
    <3>3. p \notin Held(s)
      <4> SUFFICES ASSUME p \in Held(s) PROVE FALSE
        OBVIOUS
      <4>1. queue[loc[s].bucket][p] # Null /\ loc[s].bucket \in Buckets
        BY <1>5, PairEffect
      <4>2. b = loc[s].bucket
        BY <2>1, <3>2, <4>1 DEF EntryHasMarker
      <4> QED BY <1>5, <2>2, <4>2, PairEffect
    <3> QED BY <1>5, <3>2, <3>3, PairEffect
  <2>3. ASSUME NEW t \in Tabs PROVE TabOK(t)
    <3>1. CASE t = s
      BY <2>1, <3>1
    <3>2. CASE t # s
      <4>1. pc'[t] = pc[t] /\ loc'[t] = loc[t]
        BY <1>0, <1>5, <3>2, PairEffect
      <4>2. CASE Owner[t] \notin Held(s)
        <5>1. marker'[Owner[t]] = marker[Owner[t]]
              /\ \A b \in Buckets : queue'[b][Owner[t]] = queue[b][Owner[t]]
          BY <1>0, <1>5, <4>2, PairEffect
        <5> QED BY <2>1, <4>1, <5>1, TabStays
      <4>3. CASE Owner[t] \in Held(s)
        <5>1. pc[t] # "enqueue"
          BY <1>5, <2>1, <4>3, PairEffect DEF EntryHasMarker
        <5>2. pc[t] = "dequeue" => \A b \in Buckets \ {loc[t].bucket} : queue[b][Owner[t]] = Null
          BY <2>1 DEF EntryHasMarker
        <5>3. \A b \in Buckets : queue[b][Owner[t]] = Null => queue'[b][Owner[t]] = Null
          BY <1>0, <1>5, PairEffect
        <5> QED BY <4>1, <5>1, <5>2, <5>3
      <4> QED BY <4>2, <4>3
    <3> QED BY <3>1, <3>2
  <2> QED BY <2>2, <2>3
<1>6. ASSUME NEW s \in Slots, ReadMarker(s)
      PROVE  EntriesOK /\ \A t \in Tabs : TabOK(t)
  <2>1. s \in Tabs /\ Owner[s] \in Players
    BY <1>0, <1>6 DEF ReadMarker, PairInv, SlotsOK, Fitting, Slots
  <2>2. queue' = queue /\ marker' = marker /\ expiries = 0
    BY <1>6 DEF ReadMarker, Local, store
  <2>3. \A t \in Slots \ {s} : pc'[t] = pc[t] /\ loc'[t] = loc[t]
    BY <1>6, OthersStay DEF Advance
  <2>4. pc'[s] # "enqueue" /\ (pc'[s] = "dequeue" => loc'[s].bucket = marker[Owner[s]])
    BY <1>0, <1>6 DEF ReadMarker, Reply, Goto, Blank
  <2>5. TabOK(s)
    BY <2>1, <2>2, <2>4 DEF EntryHasMarker
  <2>6. ASSUME NEW t \in Tabs, t # s PROVE TabOK(t)
    BY <1>0, <2>2, <2>3, <2>6, TabStays
  <2> QED BY <2>2, <2>5, <2>6 DEF EntryHasMarker
<1>7. ASSUME NEW s \in Slots, Dequeue(s)
      PROVE  EntriesOK /\ \A t \in Tabs : TabOK(t)
  <2>1. s \in Tabs /\ Owner[s] \in Players /\ loc[s].bucket \in Buckets
    BY <1>0, <1>7 DEF Dequeue, PairInv, SlotsOK, Fitting, Slots
  <2>2. expiries = 0 /\ pc[s] = "dequeue"
    BY <1>7 DEF Dequeue
  <2>3. pc'[s] = "idle"
    BY <1>0, <1>7 DEF Dequeue, Reply, Goto
  <2>4. \A t \in Slots \ {s} : pc'[t] = pc[t] /\ loc'[t] = loc[t]
    BY <1>7, OthersStay DEF Advance
  <2>5. /\ \A b \in Buckets, p \in Players \ {Owner[s]} : queue'[b][p] = queue[b][p]
        /\ \A b \in Buckets \ {loc[s].bucket} : queue'[b][Owner[s]] = queue[b][Owner[s]]
        /\ queue'[loc[s].bucket][Owner[s]] = Null
        /\ \A p \in Players \ {Owner[s]} : marker'[p] = marker[p]
    BY <1>0, <1>7, <2>1 DEF Dequeue
  <2>6. \A b \in Buckets : queue'[b][Owner[s]] = Null
    BY <2>1, <2>2, <2>5 DEF EntryHasMarker
  <2>7. EntriesOK
    BY <2>2, <2>5, <2>6 DEF EntryHasMarker
  <2>8. ASSUME NEW t \in Tabs PROVE TabOK(t)
    <3>1. CASE t = s
      BY <2>3, <3>1
    <3>2. CASE t # s
      <4>1. Owner[t] # Owner[s]
        BY <2>1, <3>2, OwnersDiffer
      <4> QED BY <1>0, <2>2, <2>4, <2>5, <3>2, <4>1, TabStays
    <3> QED BY <3>1, <3>2
  <2> QED BY <2>7, <2>8
<1>8. ASSUME NEW q \in Players, ExpireMarker(q) PROVE FALSE
  BY <1>0, <1>8 DEF ExpireMarker
<1>9. CASE Tick \/ UNCHANGED vars
  BY <1>9 DEF Tick, vars, store, EntryHasMarker
<1> QED
  BY <1>1, <1>2, <1>3, <1>4, <1>5, <1>6, <1>7, <1>8, <1>9, NextCases

LEMMA MarkersKeepEntries ==
  ASSUME PairInv, MarkerHasEntry, [Next]_vars
  PROVE  MarkerHasEntry'
<1> DEFINE Entered(p) == \/ queue'[marker'[p]][p] # Null
                         \/ \E t \in Tabs : /\ pc'[t] = "enqueue" /\ Owner[t] = p
                                            /\ loc'[t].bucket = marker'[p]
<1> SUFFICES ASSUME crashes' = 0, expiries' = 0, NEW p \in Players, marker'[p] # Null
             PROVE  Entered(p)
  BY DEF MarkerHasEntry
<1>0. /\ pc \in [Slots -> Labels] /\ loc \in [Slots -> Locals]
      /\ queue \in [Buckets -> [Players -> Nat \cup {Null}]]
      /\ marker \in [Players -> Buckets \cup {Null}]
      /\ Tabs \subseteq Slots /\ expiries \in Nat /\ crashes \in Nat
      /\ \A t \in Tabs : Owner[t] \in Players
  BY OwnerAssumption DEF PairInv, SlotsOK, StoreOK, AsideOK, Slots
<1>1. ASSUME NEW s \in Slots, \A t \in Slots \ {s} : pc'[t] = pc[t] /\ loc'[t] = loc[t],
             pc[s] # "enqueue", crashes = 0, expiries = 0, marker'[p] = marker[p],
             \A b \in Buckets : queue'[b][p] = queue[b][p]
      PROVE  Entered(p)
  <2>1. marker[p] \in Buckets
    BY <1>0, <1>1
  <2>2. CASE queue[marker[p]][p] # Null
    BY <1>1, <2>1, <2>2
  <2>3. CASE queue[marker[p]][p] = Null
    <3>1. PICK t \in Tabs : pc[t] = "enqueue" /\ Owner[t] = p /\ loc[t].bucket = marker[p]
      BY <1>1, <2>3 DEF MarkerHasEntry
    <3> QED BY <1>0, <1>1, <3>1
  <2> QED BY <2>2, <2>3
<1>2. ASSUME NEW s \in Slots, Looks(s) PROVE Entered(p)
  BY <1>1, <1>2, LooksChangesNothing DEF Bound
<1>3. ASSUME NEW s \in Slots, Create(s) \/ Emit(s) \/ ReadMarker(s) PROVE Entered(p)
  <2>1. queue' = queue /\ marker' = marker /\ expiries = 0 /\ crashes = 0 /\ pc[s] # "enqueue"
    BY <1>3 DEF Create, Emit, ReadMarker, Local, store
  <2>2. \A t \in Slots \ {s} : pc'[t] = pc[t] /\ loc'[t] = loc[t]
    BY <1>3, OthersStay DEF Advance
  <2> QED BY <1>1, <2>1, <2>2
<1>4. ASSUME NEW s \in Slots, SetMarker(s) PROVE Entered(p)
  <2>1. s \in Tabs /\ Owner[s] \in Players
    BY <1>0, <1>4 DEF SetMarker, PairInv, SlotsOK, Fitting, Slots
  <2>2. \A t \in Slots \ {s} : pc'[t] = pc[t] /\ loc'[t] = loc[t]
    BY <1>4, OthersStay DEF Advance
  <2>3. queue' = queue /\ crashes = 0 /\ expiries = 0 /\ pc[s] # "enqueue"
    BY <1>4 DEF SetMarker, aside
  <2>4. CASE p = Owner[s] /\ marker[Owner[s]] = Null
    <3>1. /\ marker' = [marker EXCEPT ![Owner[s]] = loc[s].bucket]
          /\ pc' = [pc EXCEPT ![s] = "enqueue"]
          /\ loc' = [loc EXCEPT ![s] = [loc[s] EXCEPT !.t = now]]
      BY <1>4, <2>4 DEF SetMarker, Goto
    <3>2. pc'[s] = "enqueue" /\ loc'[s].bucket = loc[s].bucket
      BY <1>0, <2>1, <3>1 DEF Locals
    <3>3. marker'[p] = loc[s].bucket
      BY <1>0, <2>1, <2>4, <3>1
    <3> QED BY <2>1, <2>4, <3>2, <3>3
  <2>5. CASE ~(p = Owner[s] /\ marker[Owner[s]] = Null)
    <3>1. marker'[p] = marker[p]
      BY <1>0, <1>4, <2>1, <2>5 DEF SetMarker
    <3> QED BY <1>1, <2>2, <2>3, <3>1
  <2> QED BY <2>4, <2>5
<1>5. ASSUME NEW s \in Slots, Enqueue(s) PROVE Entered(p)
  <2>1. s \in Tabs /\ Owner[s] \in Players /\ loc[s].bucket \in Buckets /\ loc[s].t \in Nat
    BY <1>0, <1>5 DEF Enqueue, PairInv, SlotsOK, Fitting, Slots, Locals
  <2>2. \A t \in Slots \ {s} : pc'[t] = pc[t] /\ loc'[t] = loc[t]
    BY <1>5, OthersStay DEF Advance
  <2>3. marker' = marker /\ crashes = 0 /\ expiries = 0
    BY <1>5 DEF Enqueue
  <2>4. marker[p] \in Buckets
    BY <1>0, <2>3
  <2>5. queue'[loc[s].bucket][Owner[s]] # Null
    BY <1>0, <1>5, <2>1, NullAssumption DEF Enqueue
  <2>6. \A b \in Buckets : p # Owner[s] \/ b # loc[s].bucket => queue'[b][p] = queue[b][p]
    BY <1>0, <1>5, <2>1 DEF Enqueue
  <2>7. CASE p = Owner[s] /\ marker[p] = loc[s].bucket
    BY <2>3, <2>5, <2>7
  <2>8. CASE ~(p = Owner[s] /\ marker[p] = loc[s].bucket)
    <3>1. CASE queue[marker[p]][p] # Null
      BY <2>3, <2>4, <2>6, <2>8, <3>1
    <3>2. CASE queue[marker[p]][p] = Null
      <4>1. PICK t \in Tabs : pc[t] = "enqueue" /\ Owner[t] = p /\ loc[t].bucket = marker[p]
        BY <2>3, <3>2 DEF MarkerHasEntry
      <4>2. t # s
        BY <2>8, <4>1
      <4> QED BY <1>0, <2>2, <2>3, <4>1, <4>2
    <3> QED BY <3>1, <3>2
  <2> QED BY <2>7, <2>8
<1>6. ASSUME NEW s \in Slots, Pair(s), BothQueued(loc[s].bucket, loc[s].pair) PROVE Entered(p)
  <2>1. p \notin Held(s)
    BY <1>6, PairEffect
  <2>2. marker'[p] = marker[p] /\ \A b \in Buckets : queue'[b][p] = queue[b][p]
    BY <1>6, <2>1, PairEffect
  <2> QED BY <1>1, <1>6, <2>2, PairEffect
<1>7. ASSUME NEW s \in Slots, Dequeue(s) PROVE Entered(p)
  <2>1. s \in Tabs /\ Owner[s] \in Players /\ loc[s].bucket \in Buckets
    BY <1>0, <1>7 DEF Dequeue, PairInv, SlotsOK, Fitting, Slots
  <2>2. p # Owner[s]
    BY <1>0, <1>7, <2>1 DEF Dequeue
  <2>3. marker'[p] = marker[p] /\ \A b \in Buckets : queue'[b][p] = queue[b][p]
    BY <1>0, <1>7, <2>1, <2>2 DEF Dequeue
  <2>4. \A t \in Slots \ {s} : pc'[t] = pc[t] /\ loc'[t] = loc[t]
    BY <1>7, OthersStay DEF Advance
  <2>5. crashes = 0 /\ expiries = 0 /\ pc[s] # "enqueue"
    BY <1>7 DEF Dequeue
  <2> QED BY <1>1, <2>3, <2>4, <2>5
<1>8. ASSUME (\E s \in Slots : Crash(s)) \/ \E q \in Players : ExpireMarker(q) PROVE FALSE
  BY <1>0, <1>8 DEF Crash, ExpireMarker
<1>9. CASE Tick \/ UNCHANGED vars
  BY <1>9 DEF Tick, vars, store, MarkerHasEntry
<1> QED
  BY <1>2, <1>3, <1>4, <1>5, <1>6, <1>7, <1>8, <1>9, NextCases

\* While nothing died and no marker expired, a marker stands for an entry, or for one
\* that a tab is about to make, however many tabs a player has.
THEOREM MarkersAlwaysHaveEntries == Spec => []MarkerHasEntry
<1>1. Init => MarkerHasEntry
  BY DEF Init, MarkerHasEntry
<1>2. PairInv /\ MarkerHasEntry /\ [Next]_vars => MarkerHasEntry'
  BY MarkersKeepEntries
<1> QED BY <1>1, <1>2, TypesHold, PTL DEF Spec

LEMMA EntriesAlwaysHaveMarkers == ASSUME OneTabEach PROVE Spec => []EntryHasMarker
<1>1. Init => EntryHasMarker
  BY DEF Init, EntryHasMarker, Slots
<1>2. PairInv /\ EntryHasMarker /\ [Next]_vars => EntryHasMarker'
  BY EntriesKeepMarkers
<1> QED BY <1>1, <1>2, TypesHold, PTL DEF Spec

\* Of players with one tab each: one account is in one queue until a marker expires,
\* and between requests a marker stands exactly for an entry unless a request died.
THEOREM QueuesAgreeHolds == ASSUME OneTabEach PROVE Spec => []QueuesAgree
<1>1. EntryHasMarker => OneQueueUntilExpiry
  <2> SUFFICES ASSUME EntryHasMarker, expiries = 0, NEW p \in Players
               PROVE  Cardinality(QueuedIn(p)) <= 1
    BY DEF OneQueueUntilExpiry, OneQueue, QueuedIn
  <2>1. QueuedIn(p) \subseteq {marker[p]}
    BY DEF EntryHasMarker, QueuedIn
  <2>2. IsFiniteSet({marker[p]}) /\ Cardinality({marker[p]}) = 1
    BY FS_Singleton
  <2> QED BY <2>1, <2>2, FS_Subset
<1>2. PairInv /\ EntryHasMarker /\ MarkerHasEntry => MarkerIsEntry
  <2> SUFFICES ASSUME PairInv, EntryHasMarker, MarkerHasEntry, Quiet, crashes = 0, expiries = 0,
                      NEW p \in Players, NEW b \in Buckets
               PROVE  marker[p] = b <=> queue[b][p] # Null
    BY DEF MarkerIsEntry
  <2>1. queue[b][p] # Null => marker[p] = b
    BY DEF EntryHasMarker
  <2>2. ASSUME marker[p] = b PROVE queue[b][p] # Null
    <3>1. marker[p] # Null
      BY <2>2, NullAssumption
    <3>2. \A t \in Tabs : pc[t] = "idle"
      BY DEF Quiet, Slots
    <3> QED BY <2>2, <3>1, <3>2 DEF MarkerHasEntry
  <2> QED BY <2>1, <2>2
<1>3. PairInv /\ EntryHasMarker /\ MarkerHasEntry => QueuesAgree
  BY <1>1, <1>2, PairInvGivesTypes DEF QueuesAgree
<1> QED BY <1>3, TypesHold, EntriesAlwaysHaveMarkers, MarkersAlwaysHaveEntries, PTL
=============================================================================
