----------------------------- MODULE SwissDutch -----------------------------
(***************************************************************************)
(* The Swiss pairing engine (core/pairing/swiss-dutch.engine and swiss/),  *)
(* and the history the arbiter's service builds its input from             *)
(* (modules/arbiter/pairing-state.builder): the rounds of one section.     *)
(*                                                                         *)
(* A player is his pairing number.  Points are counted in halves, as in    *)
(* the code's scoreX2.  The maximum-weight matching of a bracket is here   *)
(* what it is by definition; Blossom is the algorithm.  A weight is the    *)
(* sequence of its levels, compared from the left, instead of one BigInt   *)
(* with a base for each level.                                             *)
(*                                                                         *)
(* Of two definitions of one thing the first is a plausible mistake: the   *)
(* second is the code's, and the specification uses no other.              *)
(***************************************************************************)
EXTENDS Integers, FiniteSets, SequencesExt

CONSTANTS
  Fields    \* the sections: [players, rounds, results, byes, leavers], `leavers' a bound

VARIABLES
  field,      \* the section, from Fields
  rounds,     \* a sequence of sets of [white, black, result]; black is 0 for a bye
  withdrawn,  \* who has left
  brackets,   \* how the engine came to the last round
  state       \* "ready", "play", or how the engine refused: "impossible", "thrown"

vars == <<field, rounds, withdrawn, brackets, state>>

Numbers == 1..field.players
Other(colour) == IF colour = "W" THEN "B" ELSE "W"

-----------------------------------------------------------------------------
(* The history of a player: outcomeFor, buildPairingStates. *)

OverBoard == {"WHITE_WIN", "BLACK_WIN", "DRAW"}

WonBy(result) ==
  CASE result \in {"WHITE_WIN", "WHITE_WIN_FORFEIT"} -> "W"
    [] result \in {"BLACK_WIN", "BLACK_WIN_FORFEIT"} -> "B"
    [] OTHER -> "nobody"

Side(e, p) == IF e.white = p THEN "W" ELSE "B"

Gained(e, p) ==
  IF Side(e, p) = WonBy(e.result) \/ e.result = "BYE_FULL" THEN 2
  ELSE IF e.result \in {"DRAW", "BYE_HALF"} THEN 1 ELSE 0

EntriesOf(p, r) == {e \in rounds[r] : p \in {e.white, e.black}}
RoundsOf(p, upTo) == SelectSeq([r \in 1..upTo |-> r], LAMBDA r : EntriesOf(p, r) # {})
EntryOf(p, r) == CHOOSE e \in EntriesOf(p, r) : TRUE

PointsAfter(p, r) ==
  FoldLeft(LAMBDA sum, x : sum + Gained(EntryOf(p, x), p), 0, RoundsOf(p, r))

ColoursIn(mine, p) == [i \in DOMAIN mine |-> Side(EntryOf(p, mine[i]), p)]
Colours(p) ==
  ColoursIn(SelectSeq(RoundsOf(p, Len(rounds)), LAMBDA r : EntryOf(p, r).result \in OverBoard), p)

Opponents(p) ==
  UNION {{e.white, e.black} : e \in UNION {EntriesOf(p, r) : r \in DOMAIN rounds}} \ {p, 0}

\* The points at the start of the round tell who floats; who got points without a
\* game floats down.
FloatFrom(e, p, ahead) ==
  IF e.result \in OverBoard
  THEN IF ahead > 0 THEN "Down" ELSE IF ahead < 0 THEN "Up" ELSE "None"
  ELSE IF Gained(e, p) > 0 THEN "Down" ELSE "None"

Ahead(e, r) == PointsAfter(e.white, r) - (IF e.black = 0 THEN 0 ELSE PointsAfter(e.black, r))
FloatAt(e, p, r) == FloatFrom(e, p, IF e.white = p THEN Ahead(e, r - 1) ELSE -Ahead(e, r - 1))

Float(p, r) ==
  IF r < 1 THEN "None" ELSE IF EntriesOf(p, r) = {} THEN "None" ELSE FloatAt(EntryOf(p, r), p, r)

\* Who has had a full point without a game gets no bye from the engine (C2).
HadBye(p) ==
  \E r \in DOMAIN rounds : \E e \in EntriesOf(p, r) : e.result \notin OverBoard /\ Gained(e, p) = 2

-----------------------------------------------------------------------------
(* prepareSwissPlayers, and the preference for a colour (colors.ts). *)

Difference(colours) ==
  Len(SelectSeq(colours, LAMBDA c : c = "W")) - Len(SelectSeq(colours, LAMBDA c : c = "B"))

\* Strength 3 is absolute, 2 strong, 1 mild, 0 none.
Preference(colours) ==
  LET n == Len(colours)
      diff == Difference(colours)
      pref(c, strength) == [colour |-> c, strength |-> strength]
  IN CASE n = 0 -> pref("none", 0)
       [] diff > 1 -> pref("B", 3)
       [] diff < -1 -> pref("W", 3)
       [] n >= 2 /\ diff \in -1..1 /\ colours[n] = colours[n - 1] -> pref(Other(colours[n]), 3)
       [] OTHER -> IF diff = 0 THEN pref(Other(colours[n]), 1)
                   ELSE pref(IF diff = 1 THEN "B" ELSE "W", 2)

Player(p, rank, points, colours) ==
  [id |-> p, rank |-> rank, points |-> points, met |-> Opponents(p), colours |-> colours,
   diff |-> Difference(colours), wants |-> Preference(colours),
   top |-> Len(rounds) + 1 = field.rounds /\ points > Len(rounds),
   unplayed |-> Len(rounds) - Len(colours),
   prev |-> Float(p, Len(rounds)), prevPrev |-> Float(p, Len(rounds) - 1), pab |-> ~HadBye(p)]

Points(p) == PointsAfter(p, Len(rounds))
Precedes(p, q, x, y) == x > y \/ (x = y /\ p < q)
Prepared(ordered) ==
  [i \in DOMAIN ordered |-> Player(ordered[i], i, Points(ordered[i]), Colours(ordered[i]))]

\* The players of the next round in the order of Article 1.2.
Ranking ==
  Prepared(SortSeq(SelectSeq([i \in Numbers |-> i], LAMBDA p : p \notin withdrawn),
                   LAMBDA p, q : Precedes(p, q, Points(p), Points(q))))

BothAbsolute(a, b) ==
  /\ a.wants = b.wants /\ a.wants.strength = 3
  /\ ~a.top /\ ~b.top

CanMeetAnyColour(a, b) == b.id \notin a.met
CanMeet(a, b) == b.id \notin a.met /\ ~BothAbsolute(a, b)

-----------------------------------------------------------------------------
(* Colours (Article 5.2), and what they cost (C10 to C13). *)

Magnitude(x) == IF x < 0 THEN -x ELSE x

FirstIsWhite(a, b) ==
  LET stronger(x, y) ==
        \/ x.wants.strength > y.wants.strength
        \/ x.wants.strength = 3 /\ y.wants.strength = 3 /\ Magnitude(x.diff) > Magnitude(y.diff)
      back(x, k) == x.colours[Len(x.colours) + 1 - k]
      differ == {k \in 1..Min({Len(a.colours), Len(b.colours)}) : back(a, k) # back(b, k)}
      higher == IF a.rank < b.rank THEN a ELSE b
      higherIsWhite == IF higher.wants.colour = "none" THEN higher.id % 2 = 1
                       ELSE higher.wants.colour = "W"
  IN CASE a.wants.colour # b.wants.colour ->
            IF a.wants.colour = "none" THEN b.wants.colour = "B" ELSE a.wants.colour = "W"
       [] a.wants.colour = b.wants.colour /\ stronger(a, b) -> a.wants.colour = "W"
       [] a.wants.colour = b.wants.colour /\ stronger(b, a) -> b.wants.colour = "B"
       [] OTHER -> IF differ # {} THEN back(a, Min(differ)) = "B"
                   ELSE (higher = a) = higherIsWhite

Exceeds(p, got) == Magnitude(p.diff + (IF got = "W" THEN 1 ELSE -1)) > 2
ThreeInARow(p, got) ==
  LET n == Len(p.colours) IN n >= 2 /\ p.colours[n] = got /\ p.colours[n - 1] = got
Unwanted(p, got) == p.wants.colour = Other(got)
UnwantedStrong(p, got) == Unwanted(p, got) /\ p.wants.strength = 2

Count(test(_, _), a, gets, b) ==
  (IF test(a, gets) THEN 1 ELSE 0) + (IF test(b, Other(gets)) THEN 1 ELSE 0)
PenaltiesIf(a, gets, b) ==
  <<Count(Exceeds, a, gets, b), Count(ThreeInARow, a, gets, b),
    Count(Unwanted, a, gets, b), Count(UnwantedStrong, a, gets, b)>>
Penalties(a, b) == PenaltiesIf(a, IF FirstIsWhite(a, b) THEN "W" ELSE "B", b)

-----------------------------------------------------------------------------
(* The weight of an edge (bracket-weights.ts).  A bracket is [slots, carried, last,    *)
(* dummy]: its players in order, how many of them came down from above, whether it is  *)
(* the last, and whether somebody in it gets the bye; scale is [n, least, most].       *)

ScaleOf(n, scores) == [n |-> n, least |-> Min(scores), most |-> Max(scores)]
Scale(players) == ScaleOf(Len(players), {players[i].points : i \in DOMAIN players})

\* Article 3.2: where S2 begins.
Split(b) ==
  LET half == Len(b.slots) \div 2
  IN IF b.carried > 0 THEN Min({b.carried, half}) ELSE half

\* The last levels: for every place in the bracket, how good its partner's place is.
TieBreak(b, n, i, j) ==
  LET rank == IF j - 1 >= Split(b) THEN j - 1 ELSE 2 * n - (j - 1)
  IN [k \in 1..n |-> IF k = i THEN 2 * n + 2 - rank ELSE IF k = j THEN 2 * n + 2 ELSE 0]

\* The pair of the places i and j, i the higher one: C6, C5, C7, SD, C9, C10 to C13,
\* C14 to C21 and the tie-break.
Minus(s) == [k \in DOMAIN s |-> -s[k]]

WeightOfGap(gap, down, up, worth) ==
  LET cost(bad, much) == IF gap > 0 /\ bad THEN -much ELSE 0
  IN [sd |-> cost(TRUE, worth), c15 |-> cost(up.prev = "Up", 1), c17 |-> cost(up.prevPrev = "Up", 1),
      rest |-> <<cost(down.prev = "Down", worth), cost(up.prev = "Up", worth),
                 cost(down.prevPrev = "Down", worth), cost(up.prevPrev = "Up", worth)>>]

Levels(b, i, j, paired, gap) ==
  LET rested(float(_)) == Cardinality({k \in {i, j} : k > b.carried /\ float(b.slots[k]) = "Down"})
  IN <<1, 0, paired, gap.sd, 0>> \o Minus(Penalties(b.slots[i], b.slots[j]))
     \o <<rested(LAMBDA p : p.prev), gap.c15, rested(LAMBDA p : p.prevPrev), gap.c17>> \o gap.rest

GapOf(x, y, scale) ==
  IF x.points > y.points THEN WeightOfGap(x.points - y.points, x, y, (scale.n + 1)^(x.points - y.points))
  ELSE WeightOfGap(y.points - x.points, y, x, (scale.n + 1)^(y.points - x.points))

Weight(b, scale, i, j) ==
  LET v(p) == (scale.n + 1)^(p.points - scale.least)
  IN Levels(b, i, j, v(b.slots[i]) + v(b.slots[j]), GapOf(b.slots[i], b.slots[j], scale))
     \o TieBreak(b, scale.n, i, j)

\* The bye for the place i: few points (C5), then few games left out (C9).
ByeWeight(b, scale, i) ==
  LET p == b.slots[i]
  IN <<1, scale.most - p.points, 0, 0, Max({0, Len(rounds) - p.unplayed})>>
     \o [k \in 1..(12 + scale.n) |-> 0]

-----------------------------------------------------------------------------
(* The matching of a bracket.  An edge is [ends, w]; the place after the last one is *)
(* the dummy, whose partner gets the bye.                                            *)

\* <<1, 2>>, <<1, 3>>, ... <<size, size + 1>>
Places(size) == FlattenSeq([i \in 1..size |-> [j \in 1..(size + 1 - i) |-> <<i, i + j>>]])

Edge(b, scale, ends) ==
  [ends |-> ends, w |-> IF ends[2] <= Len(b.slots) THEN Weight(b, scale, ends[1], ends[2])
                        ELSE ByeWeight(b, scale, ends[1])]

EdgesOf(b, scale) ==
  LET possible(e) == IF e[2] <= Len(b.slots) THEN CanMeet(b.slots[e[1]], b.slots[e[2]])
                     ELSE b.dummy /\ b.slots[e[1]].pab
  IN FoldLeft(LAMBDA s, e : IF possible(e) THEN Append(s, Edge(b, scale, e)) ELSE s,
              <<>>, Places(Len(b.slots)))

Outweighs(v, w) == \E i \in DOMAIN v : v[i] > w[i] /\ \A j \in 1..(i - 1) : v[j] = w[j]
Sum(v, w) == [i \in DOMAIN v |-> v[i] + w[i]]

\* The heaviest matching, and whether another one is as heavy.
Added(e, rest) == [w |-> Sum(rest.w, e.w), pairs |-> rest.pairs \cup {e.ends}, tie |-> rest.tie]
Better(with, without) ==
  IF Outweighs(with.w, without.w) THEN with
  ELSE IF Outweighs(without.w, with.w) THEN without ELSE [with EXCEPT !.tie = TRUE]

RECURSIVE Heaviest(_, _)
Heaviest(edges, zero) ==
  IF edges = <<>> THEN [w |-> zero, pairs |-> {}, tie |-> FALSE]
  ELSE LET e == Head(edges)
           apart(f) == f.ends[1] \notin ToSet(e.ends) /\ f.ends[2] \notin ToSet(e.ends)
       IN Better(Added(e, Heaviest(SelectSeq(Tail(edges), apart), zero)), Heaviest(Tail(edges), zero))

Matching(b, scale) == Heaviest(EdgesOf(b, scale), [k \in 1..(17 + scale.n) |-> 0])

\* Article 3.4.1: the upper half against the lower, when nothing speaks against it.
Straight(b) ==
  LET half == Len(b.slots) \div 2 IN {<<i, half + i>> : i \in 1..half}

Flawless(b) ==
  \A e \in Straight(b) : /\ CanMeet(b.slots[e[1]], b.slots[e[2]])
                         /\ Penalties(b.slots[e[1]], b.slots[e[2]]) = <<0, 0, 0, 0>>

TakesShortcut(b) ==
  /\ ~b.dummy /\ b.carried = 0 /\ Len(b.slots) % 2 = 0
  /\ Cardinality({b.slots[i].points : i \in DOMAIN b.slots}) = 1
  /\ Flawless(b)

Pairs(b, scale) == IF TakesShortcut(b) THEN Straight(b) ELSE Matching(b, scale).pairs

Covered(pairs) == UNION {ToSet(e) : e \in pairs}

-----------------------------------------------------------------------------
(* pairAllBrackets: from the top group down; who is left over comes down to the next *)
(* one.  When the last does not close, the last two groups become one.               *)

Cuts(players, firsts) ==
  [g \in DOMAIN firsts |->
     SubSeq(players, firsts[g], IF g = Len(firsts) THEN Len(players) ELSE firsts[g + 1] - 1)]
Groups(players) ==
  Cuts(players, SelectSeq([i \in DOMAIN players |-> i],
                          LAMBDA i : i = 1 \/ players[i].points # players[i - 1].points))

MergeLastTwo(groups) ==
  LET n == Len(groups) IN SubSeq(groups, 1, n - 2) \o <<groups[n - 1] \o groups[n]>>

WithPairs(b, scale) == [bracket |-> b, pairs |-> Pairs(b, scale)]
Chosen(slots, places) == [i \in DOMAIN places |-> slots[places[i]]]
Floaters(t) ==
  Chosen(t.bracket.slots, SelectSeq([i \in DOMAIN t.bracket.slots |-> i], LAMBDA i : i \notin Covered(t.pairs)))

Bracket(carried, residents, last, scale) ==
  [slots |-> carried \o residents, carried |-> Len(carried), last |-> last,
   dummy |-> last /\ scale.n % 2 = 1]

\* attempt: the brackets with their pairs.
Attempt(groups, scale) ==
  FoldLeftDomain(
    LAMBDA tried, g :
      Append(tried, WithPairs(Bracket(IF g = 1 THEN <<>> ELSE Floaters(tried[g - 1]),
                                      groups[g], g = Len(groups), scale), scale)),
    <<>>, groups)

Closes(tried) ==
  LET b == Last(tried).bracket
  IN Covered(Last(tried).pairs) = 1..(Len(b.slots) + (IF b.dummy THEN 1 ELSE 0))

\* Nothing when even one bracket of all the players does not close.
OrNothing(tried) == IF Closes(tried) THEN tried ELSE <<>>
RECURSIVE Cascade(_, _)
Cascade(groups, scale) ==
  LET settled(tried) == IF Closes(tried) THEN tried
                        ELSE IF Len(groups) = 1 THEN <<>> ELSE Cascade(MergeLastTwo(groups), scale)
  IN settled(Attempt(groups, scale))

\* The boards of the round, colours given.
Game(white, black) == [white |-> white.id, black |-> black.id, result |-> "UNPLAYED"]
Board(slots, e) ==
  IF e[2] > Len(slots) THEN [white |-> slots[e[1]].id, black |-> 0, result |-> "BYE_FULL"]
  ELSE IF FirstIsWhite(slots[e[1]], slots[e[2]]) THEN Game(slots[e[1]], slots[e[2]])
  ELSE Game(slots[e[2]], slots[e[1]])

Boards(tried) == UNION {{Board(t.bracket.slots, e) : e \in t.pairs} : t \in ToSet(tried)}

\* verifyAbsoluteCriteria, what the engine does to its own answer.
Verified(players, boards) ==
  LET the(id) == players[CHOOSE i \in DOMAIN players : players[i].id = id]
      games == {e \in boards : e.black # 0}
      byes == boards \ games
      stays(p, got) == ~Exceeds(p, got) /\ ~ThreeInARow(p, got)
  IN /\ \A e \in games : /\ the(e.white).id \notin the(e.black).met
                         /\ \/ the(e.white).top \/ the(e.black).top
                            \/ stays(the(e.white), "W") /\ stays(the(e.black), "B")
     /\ \A e \in byes : the(e.white).pab
     /\ Cardinality(byes) <= 1
     /\ 2 * Cardinality(games) + Cardinality(byes) = Len(players)
     /\ UNION {{e.white, e.black} : e \in boards} \ {0} = {players[i].id : i \in DOMAIN players}

-----------------------------------------------------------------------------
(* The section. *)

Init ==
  /\ field \in Fields
  /\ rounds = <<>> /\ withdrawn = {} /\ brackets = <<>> /\ state = "ready"

\* generatePairings of the next round.
Publish(players, tried, boards) ==
  IF tried = <<>> THEN state' = "impossible" /\ UNCHANGED <<rounds, brackets>>
  ELSE IF ~Verified(players, boards) THEN state' = "thrown" /\ UNCHANGED <<rounds, brackets>>
  ELSE state' = "play" /\ rounds' = Append(rounds, boards) /\ brackets' = tried

Publishing(players, tried) == Publish(players, tried, Boards(tried))

Pairing(players) ==
  Publishing(players, IF Len(rounds) = field.rounds \/ players = <<>> THEN <<>>
                      ELSE Cascade(Groups(players), Scale(players)))

PairRound ==
  /\ state = "ready"
  /\ Pairing(Ranking)
  /\ UNCHANGED <<field, withdrawn>>

\* The arbiter enters the results and closes the round.
EnterResults ==
  /\ state = "play"
  /\ \E results \in [Last(rounds) -> field.results \cup field.byes] :
       /\ \A e \in Last(rounds) : results[e] \in IF e.black = 0 THEN field.byes ELSE field.results
       /\ rounds' = [rounds EXCEPT ![Len(rounds)] =
                       {[e EXCEPT !.result = results[e]] : e \in Last(rounds)}]
  /\ state' = "ready" /\ brackets' = <<>>
  /\ UNCHANGED <<field, withdrawn>>

Withdraw(p) ==
  /\ state \in {"ready", "impossible"}
  /\ p \notin withdrawn /\ Cardinality(withdrawn) < field.leavers
  /\ withdrawn' = withdrawn \cup {p}
  /\ state' = "ready"
  /\ UNCHANGED <<field, rounds, brackets>>

Next == PairRound \/ EnterResults \/ \E p \in Numbers : Withdraw(p)

Spec == Init /\ [][Next]_vars

-----------------------------------------------------------------------------
(* Properties. *)

Active == Numbers \ withdrawn

\* What the engine answers is legal over the whole section: nobody meets anybody twice,
\* nobody in the tournament is left out, and no second point comes without a game from
\* the engine; its own check of its answer never fails (verifyAbsoluteCriteria).
RoundsAreLegal ==
  /\ state # "thrown"
  /\ state = "play" =>
       /\ \A r \in 1..(Len(rounds) - 1) : \A e \in rounds[r], f \in Last(rounds) :
            e.black # 0 => {e.white, e.black} # {f.white, f.black}
       /\ \A p \in Active : Cardinality(EntriesOf(p, Len(rounds))) = 1
       /\ \A e \in Last(rounds) : e.black = 0 =>
            \A r \in 1..(Len(rounds) - 1) : \A f \in rounds[r] :
              e.white \in {f.white, f.black} => f.result \in OverBoard \/ Gained(f, e.white) < 2

\* Can these players be paired so that C1 to C3 hold?
RECURSIVE CanBePaired(_, _)
CanBePaired(players, byes) ==
  IF players = {} THEN byes = 0
  ELSE LET p == CHOOSE x \in players : TRUE
       IN \/ byes > 0 /\ p.pab /\ CanBePaired(players \ {p}, byes - 1)
          \/ \E q \in players \ {p} : CanMeet(p, q) /\ CanBePaired(players \ {p, q}, byes)

\* The engine gives up only when no complete pairing exists (C4, the merge cascade of
\* score-brackets.ts).
GivesUpOnlyWhenImpossible ==
  state = "impossible" =>
    \/ Len(rounds) = field.rounds
    \/ Active = {}
    \/ ~CanBePaired(ToSet(Ranking), Cardinality(Active) % 2)

\* The players as the engine saw them for the last round, in their order.
Paired ==
  FlattenSeq([i \in DOMAIN brackets |->
    LET b == brackets[i].bracket IN SubSeq(b.slots, b.carried + 1, Len(b.slots))])

\* Of the pairings of a bracket the one taken is the best and no other one is as good:
\* the matching need not choose, and the short cut takes what the matching would
\* (the TB level of bracket-weights.ts, tryStraightCandidate).
OnlyBest(best, pairs) == best.pairs = pairs /\ ~best.tie
PairingIsTheBest ==
  state = "play" =>
    \A i \in DOMAIN brackets :
      OnlyBest(Matching(brackets[i].bracket, Scale(Paired)), brackets[i].pairs)

\* The bye goes to the lowest score that a complete pairing can give it to (C5).
ByeGoesLow ==
  state = "play" =>
    \A e \in Last(rounds) : e.black = 0 =>
      LET players == ToSet(Paired)
          got == CHOOSE p \in players : p.id = e.white
      IN ~ \E p \in players : p.pab /\ p.points < got.points /\ CanBePaired(players \ {p}, 0)
=============================================================================
