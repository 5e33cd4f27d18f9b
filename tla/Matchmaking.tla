---------------------------- MODULE Matchmaking -----------------------------
(***************************************************************************)
(* The matchmaking queues in Redis (modules/play/matchmaking.service.ts).  *)
(* A player who joins a bucket takes a marker, enters the sorted set and   *)
(* looks for an opponent at once; a sweeper on every instance pairs those  *)
(* who wait.  Pairing is one Lua script; everything around it is a chain   *)
(* of awaits that other joins, leaves and sweepers interleave with.        *)
(*                                                                         *)
(* A bucket's sorted set and its meta hash are always written together and *)
(* are one variable here: the time at which each member joined.  The score *)
(* of a member is his rating, a constant.                                  *)
(*                                                                         *)
(* Of two definitions of one thing the first is a plausible mistake: the   *)
(* second is the code's, and the specification uses no other.              *)
(***************************************************************************)
EXTENDS Integers, Sequences, FiniteSets

CONSTANTS
  NumPlayers,    \* bound: players, numbered in the order Redis breaks ties
  Rating,        \* [Players -> Nat]
  Buckets,       \* time controls
  Tabs,          \* slots for join and leave requests
  Owner,         \* [Tabs -> Players]
  Sweepers,      \* one per instance
  Null,
  InitialDelta, DeltaStep, StepInterval, MaxDelta,   \* MatchmakingConfig
  MayLeave,      \* TRUE iff players may leave the queue
  MaxTime,       \* bound: the clock stops here
  MaxJoins,      \* bound: times a player enters a queue
  MaxCrashes,    \* bound: requests or sweeps that die half-way
  MaxExpiries    \* bound: markers that expire

Players == 1..NumPlayers
Slots == Tabs \cup Sweepers

ASSUME OwnerAssumption == Owner \in [Tabs -> Players] /\ Tabs \cap Sweepers = {}
ASSUME RatingAssumption == Rating \in [Players -> Nat]
ASSUME NullAssumption == Null \notin Buckets \cup Nat
ASSUME DeltaAssumption ==
  {InitialDelta, DeltaStep, MaxDelta} \subseteq Nat /\ StepInterval \in Nat \ {0}

VARIABLES
  now,
  queue,     \* [Buckets -> [Players -> joining time, or Null]]
  marker,    \* game:mm:user:{player}: the bucket he waits in, or Null
  registry,  \* game:mm:buckets
  pc, loc,   \* where each request or sweep is, and its local variables
  games,     \* games created, in order
  joins,     \* times each player entered a queue
  waits,     \* players who were queued and neither left nor were told of a game
  crashes, expiries

store == <<queue, marker, registry>>
aside == <<games, joins, waits>>
vars  == <<now, queue, marker, registry, pc, loc, games, joins, waits, crashes, expiries>>

Blank == [bucket |-> Null, t |-> 0, found |-> {}, pairs |-> {}, pair |-> <<>>, todo |-> {},
          seen |-> {}]

Goto(s, label, l) ==
  /\ pc' = [pc EXCEPT ![s] = label]
  /\ loc' = [loc EXCEPT ![s] = l]

Reply(s) == Goto(s, "idle", Blank)

Local == UNCHANGED <<now, store, aside, crashes, expiries>>

Members(b) == {p \in Players : queue[b][p] # Null}

Gap(p, q) == IF Rating[p] < Rating[q] THEN Rating[q] - Rating[p] ELSE Rating[p] - Rating[q]

\* currentDelta: the window widens with the wait, up to MaxDelta.
Delta(waited) ==
  LET steps == (IF waited < 0 THEN 0 ELSE waited) \div StepInterval
      delta == InitialDelta + steps * DeltaStep
  IN  IF delta < MaxDelta THEN delta ELSE MaxDelta

Init ==
  /\ now = 0
  /\ queue = [b \in Buckets |-> [p \in Players |-> Null]]
  /\ marker = [p \in Players |-> Null]
  /\ registry = {}
  /\ pc = [s \in Slots |-> "idle"]
  /\ loc = [s \in Slots |-> Blank]
  /\ games = <<>>
  /\ joins = [p \in Players |-> 0]
  /\ waits = {}
  /\ crashes = 0 /\ expiries = 0

-----------------------------------------------------------------------------
(* join *)

Join(s, b) ==
  /\ pc[s] = "idle"
  /\ joins[Owner[s]] < MaxJoins
  /\ Goto(s, "marker", [Blank EXCEPT !.bucket = b])
  /\ Local

\* SET NX: one account, one queue.
SetMarkerAlways(s) ==
  /\ pc[s] = "marker"
  /\ marker' = [marker EXCEPT ![Owner[s]] = loc[s].bucket]
  /\ Goto(s, "enqueue", [loc[s] EXCEPT !.t = now])
  /\ UNCHANGED <<now, queue, registry, aside, crashes, expiries>>
SetMarker(s) ==
  /\ pc[s] = "marker"
  /\ IF marker[Owner[s]] # Null
     THEN Reply(s) /\ UNCHANGED marker
     ELSE /\ marker' = [marker EXCEPT ![Owner[s]] = loc[s].bucket]
          /\ Goto(s, "enqueue", [loc[s] EXCEPT !.t = now])
  /\ UNCHANGED <<now, queue, registry, aside, crashes, expiries>>

Enqueue(s) ==
  LET p == Owner[s] IN
  /\ pc[s] = "enqueue"
  /\ queue' = [queue EXCEPT ![loc[s].bucket][p] = loc[s].t]
  /\ registry' = registry \cup {loc[s].bucket}
  /\ joins' = [joins EXCEPT ![p] = @ + 1]
  /\ waits' = waits \cup {p}
  /\ Goto(s, "search", loc[s])
  /\ UNCHANGED <<now, marker, games, crashes, expiries>>

\* tryMatchFor: the members within the initial window.
InWindow(s) == {q \in Members(loc[s].bucket) : Gap(Owner[s], q) <= Delta(0)}

Search(s) ==
  /\ pc[s] = "search"
  /\ Goto(s, "peek", [loc[s] EXCEPT !.found = InWindow(s)])
  /\ Local

\* zrangebyscore gives the lowest rating first.
ByRating(p, q) == Rating[p] < Rating[q] \/ (Rating[p] = Rating[q] /\ p < q)
Lowest(found) == {q \in found : \A other \in found \ {q} : ByRating(q, other)}

\* The next candidate: oneself and those without meta are skipped.
Peek(s) ==
  LET l == loc[s] IN
  /\ pc[s] = "peek"
  /\ \/ l.found = {} /\ Reply(s)
     \/ \E q \in Lowest(l.found) :
          LET rest == [l EXCEPT !.found = @ \ {q}] IN
          IF q = Owner[s] \/ queue[l.bucket][q] = Null
          THEN Goto(s, "peek", rest)
          ELSE Goto(s, "pair", [rest EXCEPT !.pair = <<q, queue[l.bucket][q], Owner[s], l.t>>])
  /\ Local

-----------------------------------------------------------------------------
(* pairAndCreate, for join and sweep.  A pair is <<a, a's time, b, b's time>>. *)

\* PAIR_SCRIPT: both are still queued; both leave, with their markers.
FirstIsQueued(b, pair) == queue[b][pair[1]] # Null
BothQueued(b, pair) == queue[b][pair[1]] # Null /\ queue[b][pair[3]] # Null

DropMarkers(pair) == [marker EXCEPT ![pair[1]] = Null, ![pair[3]] = Null]

Pair(s) ==
  LET l == loc[s] IN
  /\ pc[s] = "pair"
  /\ IF BothQueued(l.bucket, l.pair)
     THEN /\ queue' = [queue EXCEPT ![l.bucket][l.pair[1]] = Null,
                                    ![l.bucket][l.pair[3]] = Null]
          /\ marker' = DropMarkers(l.pair)
          /\ Goto(s, "create", l)
     ELSE /\ UNCHANGED <<queue, marker>>
          /\ Goto(s, IF s \in Tabs THEN "peek" ELSE "try", [l EXCEPT !.pair = <<>>])
  /\ UNCHANGED <<now, registry, aside, crashes, expiries>>

\* Who waited longer plays White.
WhiteOf(pair) == IF pair[2] <= pair[4] THEN pair[1] ELSE pair[3]
BlackOf(pair) == IF WhiteOf(pair) = pair[1] THEN pair[3] ELSE pair[1]

\* createGameWithClock.
Create(s) ==
  LET l == loc[s] IN
  /\ pc[s] = "create"
  /\ games' = Append(games, [white |-> WhiteOf(l.pair), black |-> BlackOf(l.pair)])
  /\ Goto(s, "emit", l)
  /\ UNCHANGED <<now, store, joins, waits, crashes, expiries>>

\* PLAY_MATCHED_EVENT; the join replies, the sweep goes on without the two.
Without(pairs, pair) == {x \in pairs : {x[1], x[3]} \cap {pair[1], pair[3]} = {}}

Emit(s) ==
  LET l == loc[s] IN
  /\ pc[s] = "emit"
  /\ waits' = waits \ {l.pair[1], l.pair[3]}
  /\ IF s \in Tabs THEN Reply(s)
     ELSE Goto(s, "try", [l EXCEPT !.pairs = Without(@, l.pair), !.pair = <<>>])
  /\ UNCHANGED <<now, store, games, joins, crashes, expiries>>

-----------------------------------------------------------------------------
(* leave *)

Leave(s) ==
  /\ MayLeave
  /\ pc[s] = "idle"
  /\ Goto(s, "which", Blank)
  /\ Local

ReadMarker(s) ==
  /\ pc[s] = "which"
  /\ IF marker[Owner[s]] = Null THEN Reply(s)
     ELSE Goto(s, "dequeue", [Blank EXCEPT !.bucket = marker[Owner[s]]])
  /\ Local

Dequeue(s) ==
  LET p == Owner[s] IN
  /\ pc[s] = "dequeue"
  /\ queue' = [queue EXCEPT ![loc[s].bucket][p] = Null]
  /\ marker' = [marker EXCEPT ![p] = Null]
  /\ waits' = waits \ {p}
  /\ Reply(s)
  /\ UNCHANGED <<now, registry, games, joins, crashes, expiries>>

-----------------------------------------------------------------------------
(* sweep *)

Sweep(s) ==
  /\ pc[s] = "idle"
  /\ registry # {}
  /\ Goto(s, "bucket", [Blank EXCEPT !.todo = registry])
  /\ Local

\* zrange of the next bucket: nobody, one player, or enough to pair.
FewAreForgotten(b) == IF Cardinality(Members(b)) < 2 THEN "forget" ELSE "meta"
AfterRange(b) ==
  CASE Members(b) = {} -> "forget"
    [] Cardinality(Members(b)) = 1 -> "bucket"
    [] OTHER -> "meta"

SweepBucket(s) ==
  /\ pc[s] = "bucket"
  /\ IF loc[s].todo = {} THEN Reply(s)
     ELSE \E b \in loc[s].todo :
            LET l == [Blank EXCEPT !.bucket = b, !.todo = loc[s].todo \ {b},
                                    !.seen = Members(b)] IN
            Goto(s, AfterRange(b), l)
  /\ Local

\* An empty bucket leaves the registry.
Forget(s) ==
  /\ pc[s] = "forget"
  /\ registry' = registry \ {loc[s].bucket}
  /\ Goto(s, "bucket", loc[s])
  /\ UNCHANGED <<now, queue, marker, aside, crashes, expiries>>

\* The pairs a sweep tries, among the members it saw whose meta is still there: who
\* waits longer comes first, and the wider of the two windows counts.
Sooner(p, t, q, u) == t < u \/ (t = u /\ ByRating(p, q))

Fits(b, p, q, at) ==
  LET first == IF queue[b][p] < queue[b][q] THEN queue[b][p] ELSE queue[b][q]
  IN  Gap(p, q) <= Delta(at - first)

PairsOf(b, seen) ==
  LET live == seen \cap Members(b)
      since(p) == queue[b][p]
      inOrder == {x \in live \X live : Sooner(x[1], since(x[1]), x[2], since(x[2]))}
  IN  {<<x[1], since(x[1]), x[2], since(x[2])>> :
         x \in {y \in inOrder : Fits(b, y[1], y[2], now)}}

ReadMeta(s) ==
  /\ pc[s] = "meta"
  /\ Goto(s, "try", [loc[s] EXCEPT !.pairs = PairsOf(loc[s].bucket, loc[s].seen), !.seen = {}])
  /\ Local

\* The two loops: whose first has waited longest, then whose second has.
Before(x, y) ==
  IF x[1] = y[1] THEN Sooner(x[3], x[4], y[3], y[4]) ELSE Sooner(x[1], x[2], y[1], y[2])
First(pairs) == {x \in pairs : \A y \in pairs \ {x} : Before(x, y)}

Try(s) ==
  LET l == loc[s] IN
  /\ pc[s] = "try"
  /\ \/ l.pairs = {} /\ Goto(s, "bucket", l)
     \/ \E x \in First(l.pairs) : Goto(s, "pair", [l EXCEPT !.pairs = @ \ {x}, !.pair = x])
  /\ Local

-----------------------------------------------------------------------------
(* The environment. *)

Tick ==
  /\ now < MaxTime
  /\ now' = now + 1
  /\ UNCHANGED <<store, pc, loc, aside, crashes, expiries>>

\* A request or a sweep dies between two awaits (createGameWithClock throws,
\* Redis fails, the process is killed).
Crash(s) ==
  /\ pc[s] # "idle"
  /\ crashes < MaxCrashes
  /\ crashes' = crashes + 1
  /\ Reply(s)
  /\ UNCHANGED <<now, store, aside, expiries>>

\* A marker lives an hour from its player's join, the bucket an hour from the
\* last join of anybody.
ExpireMarker(p) ==
  /\ marker[p] # Null
  /\ expiries < MaxExpiries
  /\ expiries' = expiries + 1
  /\ marker' = [marker EXCEPT ![p] = Null]
  /\ UNCHANGED <<now, queue, registry, pc, loc, aside, crashes>>

Advance(s) ==
  \/ SetMarker(s) \/ Enqueue(s) \/ Search(s) \/ Peek(s)
  \/ Pair(s) \/ Create(s) \/ Emit(s)
  \/ ReadMarker(s) \/ Dequeue(s)
  \/ SweepBucket(s) \/ Forget(s) \/ ReadMeta(s) \/ Try(s)

Next ==
  \/ \E s \in Tabs : Leave(s) \/ \E b \in Buckets : Join(s, b)
  \/ \E s \in Sweepers : Sweep(s)
  \/ \E s \in Slots : Advance(s) \/ Crash(s)
  \/ \E p \in Players : ExpireMarker(p)
  \/ Tick

Spec == Init /\ [][Next]_vars

\* An await returns, the sweep interval comes round and time passes.
Fairness ==
  /\ \A s \in Slots : WF_vars(Advance(s))
  /\ \A s \in Sweepers : WF_vars(Sweep(s))
  /\ WF_vars(Tick)

FairSpec == Spec /\ Fairness

-----------------------------------------------------------------------------
(* Properties. *)

Labels == {"idle", "marker", "enqueue", "search", "peek", "pair", "create", "emit",
           "which", "dequeue", "bucket", "forget", "meta", "try"}

\* What a pair holds: two players and the times they joined at.
Pairs == Players \X Nat \X Players \X Nat

Locals ==
  [bucket : Buckets \cup {Null}, t : Nat, found : SUBSET Players, pairs : SUBSET Pairs,
   pair : Pairs \cup {<<>>}, todo : SUBSET Buckets, seen : SUBSET Players]

\* The keys in Redis, the games and the requests are well formed.
TypeOK ==
  /\ now \in Nat
  /\ queue \in [Buckets -> [Players -> Nat \cup {Null}]]
  /\ marker \in [Players -> Buckets \cup {Null}]
  /\ registry \subseteq Buckets
  /\ pc \in [Slots -> Labels]
  /\ loc \in [Slots -> Locals]
  /\ \A s \in Slots :
       /\ pc[s] \notin {"idle", "which", "bucket"} => loc[s].bucket \in Buckets
       /\ pc[s] \in {"pair", "create", "emit"} => loc[s].pair \in Pairs
  /\ games \in Seq([white : Players, black : Players])
  /\ joins \in [Players -> Nat]
  /\ waits \subseteq Players
  /\ crashes \in Nat /\ expiries \in Nat

Quiet == \A s \in Slots : pc[s] = "idle"

GamesOf(p) == {n \in 1..Len(games) : p \in {games[n].white, games[n].black}}

\* However many joins and sweepers try, an entry in a queue ends in at most one
\* game, against somebody else (PAIR_SCRIPT).
PairedOnce ==
  /\ \A p \in Players : Cardinality(GamesOf(p)) <= joins[p]
  /\ \A n \in 1..Len(games) : games[n].white # games[n].black

\* One account, one queue (the marker, SET NX).
OneQueue == \A p \in Players : Cardinality({b \in Buckets : queue[b][p] # Null}) <= 1

\* A marker outlives its entry, so one account is in one queue until a marker
\* expires; a request that dies half-way does not undo that.
OneQueueUntilExpiry == expiries = 0 => OneQueue

\* Between requests a marker stands exactly for an entry of its player, as long
\* as no request died and no marker expired.
MarkerIsEntry ==
  Quiet /\ crashes = 0 /\ expiries = 0 => \A p \in Players, b \in Buckets : marker[p] = b <=> queue[b][p] # Null

\* One account, one queue, one marker.
QueuesAgree == TypeOK /\ OneQueueUntilExpiry /\ MarkerIsEntry

\* Between requests, a player who joined is queued until he leaves or is told of
\* his game.
NobodyVanishes ==
  Quiet => \A p \in waits : \E b \in Buckets : queue[b][p] # Null

\* An entry in a queue ends in one game, or with its owner's leave; a request that
\* dies may take the entries of two players with it.
EntriesEndOnce == PairedOnce /\ (crashes = 0 => NobodyVanishes)

\* When two players leave the queue as a pair, the one who has been in it longer is
\* the one who will play White.
LongerWaitIsWhite ==
  [][\A s \in Slots : pc[s] = "pair" /\ pc'[s] = "create" =>
       LET since == queue[loc[s].bucket] IN
       since[WhiteOf(loc[s].pair)] <= since[BlackOf(loc[s].pair)]]_vars

\* Two players who wait in a bucket until the wider of their windows covers both
\* do not both wait on for ever (the sweep).
Waiting(b, p, q) == {p, q} \subseteq Members(b) /\ Fits(b, p, q, MaxTime)

WaitersMeet ==
  \A b \in Buckets, p, q \in Players :
    p < q => (Waiting(b, p, q) ~> ~Waiting(b, p, q))
=============================================================================
