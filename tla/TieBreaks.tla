----------------------------- MODULE TieBreaks -----------------------------
(***************************************************************************)
(* The table of a Swiss section: the games of every player as the arbiter's *)
(* service lists them (modules/arbiter/result-mapping), the ten tie-breaks  *)
(* and the order they give (core/tiebreak/tiebreak.calculator).            *)
(*                                                                         *)
(* All of it is in halves, products of two scores in quarters, as in the   *)
(* code.  A value is <<v>>, or <<>> where the tie-break does not apply.     *)
(* The id that decides at last is here the pairing number.                 *)
(***************************************************************************)
EXTENDS SwissDutch

\* Whoever has a number is in the table, also when he has left.
Participants == 1..field.players

\* buildScoreViews: one record for each round in which there is something to count.
Counts(e) == e.result # "UNPLAYED"
Counted(p) == SelectSeq(RoundsOf(p, Len(rounds)), LAMBDA r : Counts(EntryOf(p, r)))

RecordOf(e, p) ==
  [against |-> IF e.white = p THEN e.black ELSE e.white, gained |-> Gained(e, p),
   over |-> e.result \in OverBoard, black |-> Side(e, p) = "B"]
GamesOf(p) == LET mine == Counted(p) IN [i \in DOMAIN mine |-> RecordOf(EntryOf(p, mine[i]), p)]

\* buildContext.
Total(games, worth(_)) == FoldLeft(LAMBDA sum, g : sum + worth(g), 0, games)
Scores(table) == [p \in DOMAIN table |-> Total(table[p], LAMBDA g : g.gained)]
Length(table) == Max({Len(table[p]) : p \in DOMAIN table})
Context(table) == [games |-> table, score |-> Scores(table), rounds |-> Length(table)]
Table == Context([p \in Participants |-> GamesOf(p)])

-----------------------------------------------------------------------------
(* The tie-breaks of player p in the table t. *)

\* Whoever did not play meets a virtual opponent: his own points of before, the
\* opposite result, and draws from then on.
VirtualOpponent(t, p, i) ==
  Total(SubSeq(t.games[p], 1, i - 1), LAMBDA g : g.gained) + (2 - t.games[p][i].gained) + (t.rounds - i)
Contributions(t, p) ==
  [i \in DOMAIN t.games[p] |-> LET g == t.games[p][i] IN
     IF g.over THEN t.score[g.against] ELSE VirtualOpponent(t, p, i)]

SumOf(numbers) == FoldLeft(+, 0, numbers)
Cut(numbers, low, high) ==
  IF Len(numbers) <= low + high THEN 0
  ELSE SumOf(SubSeq(SortSeq(numbers, <), low + 1, Len(numbers) - high))

SonnebornBerger(t, p) == Total(t.games[p], LAMBDA g : IF g.over THEN t.score[g.against] * g.gained ELSE 0)
Koya(t, p) == Total(t.games[p], LAMBDA g : IF g.over /\ t.score[g.against] >= t.rounds THEN g.gained ELSE 0)
Cumulative(t, p) ==
  SumOf([i \in DOMAIN t.games[p] |-> Total(SubSeq(t.games[p], 1, i), LAMBDA g : g.gained)])
Wins(t, p) == Total(t.games[p], LAMBDA g : IF g.gained = 2 /\ g.against # 0 THEN 1 ELSE 0)
BlackGames(t, p) == Total(t.games[p], LAMBDA g : IF g.over /\ g.black THEN 1 ELSE 0)

\* The average, times a number all counts divide; nobody met, nothing scored.
Multiple == 60
AverageOfOpponents(t, p) ==
  LET met == SelectSeq(t.games[p], LAMBDA g : g.over)
  IN IF met = <<>> THEN 0
     ELSE (Multiple * Total(met, LAMBDA g : field.ratings[g.against])) \div Len(met)

\* The games inside a group of equal points; for nobody of it unless all have met.
Group(t, p) == {q \in DOMAIN t.games : t.score[q] = t.score[p]}
Met(t, p) == {g.against : g \in {x \in ToSet(t.games[p]) : x.over}}
Inside(t, p, group) == Total(t.games[p], LAMBDA g : IF g.over /\ g.against \in group THEN g.gained ELSE 0)
MiniTable(t, p, group, complete) == IF complete THEN <<Inside(t, p, group)>> ELSE <<>>
EncounterOfOne(t, p, group) == MiniTable(t, p, group, group \ {p} \subseteq Met(t, p))
DirectEncounter(t, p, group) == MiniTable(t, p, group, \A q \in group : group \ {q} \subseteq Met(t, q))

Value(key, t, p) ==
  CASE key = "BUCHHOLZ" -> <<SumOf(Contributions(t, p))>>
    [] key = "BUCHHOLZ_CUT1" -> <<Cut(Contributions(t, p), 1, 0)>>
    [] key = "MEDIAN_BUCHHOLZ" -> <<Cut(Contributions(t, p), 1, 1)>>
    [] key = "SONNEBORN_BERGER" -> <<SonnebornBerger(t, p)>>
    [] key = "DIRECT_ENCOUNTER" -> DirectEncounter(t, p, Group(t, p))
    [] key = "CUMULATIVE" -> <<Cumulative(t, p)>>
    [] key = "ARO" -> <<AverageOfOpponents(t, p)>>
    [] key = "KOYA" -> <<Koya(t, p)>>
    [] key = "WINS" -> <<Wins(t, p)>>
    [] key = "BLACK_GAMES" -> <<BlackGames(t, p)>>

\* What a section may ask for; nothing known means the default.
DefaultOrder == <<"BUCHHOLZ", "BUCHHOLZ_CUT1", "SONNEBORN_BERGER", "DIRECT_ENCOUNTER", "WINS">>
Resolved(order) == IF order = <<>> THEN DefaultOrder ELSE order

\* rank: points, then the first tie-break that applies to both and differs, then the id.
Row(t, p, keys) == <<<<t.score[p]>>>> \o [k \in DOMAIN keys |-> Value(keys[k], t, p)]
Rows(t, keys) == [p \in DOMAIN t.games |-> Row(t, p, keys)]
Decides(v, w, k) == v[k] # <<>> /\ w[k] # <<>> /\ v[k] # w[k]
Deciding(v, w) == {k \in DOMAIN v : Decides(v, w, k)}
Above(rows, p, q) ==
  LET by == Deciding(rows[p], rows[q])
  IN IF by = {} THEN p < q ELSE rows[p][Min(by)][1] > rows[q][Min(by)][1]

-----------------------------------------------------------------------------
(* Properties. *)

\* The comparison that skips a tie-break which does not apply is still an order: no
\* players stand in a circle, every place is taken once, and the order the rows come in
\* decides nothing (rank, the `continue').
Place(rows, p) == Cardinality({q \in DOMAIN rows : q # p /\ Above(rows, q, p)}) + 1
PlacesAreTakenOnce(rows) == {Place(rows, p) : p \in DOMAIN rows} = DOMAIN rows

\* The virtual opponent counts rounds by the place of a game in its player's list: that
\* is the number of the round, although who has left has a shorter list.
PlaceIsRound == \A p \in Participants : \A i \in DOMAIN Counted(p) : Counted(p)[i] = i

\* Every game over the board is in two lists: what the players draw from each other's
\* scores is what each score is drawn from, and the two results make up one point.
BothSides(t) ==
  \A p \in DOMAIN t.games : \A i \in DOMAIN t.games[p] : LET g == t.games[p][i] IN
    g.over => /\ i \in DOMAIN t.games[g.against]
              /\ LET h == t.games[g.against][i] IN
                   h.over /\ h.against = p /\ h.black # g.black /\ h.gained + g.gained = 2

TableIsSound(order) ==
  state = "ready" /\ rounds # <<>> =>
    /\ PlaceIsRound
    /\ BothSides(Table)
    /\ PlacesAreTakenOnce(Rows(Table, Resolved(order)))
=============================================================================
