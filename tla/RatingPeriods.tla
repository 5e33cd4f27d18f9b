---------------------------- MODULE RatingPeriods ----------------------------
(***************************************************************************)
(* One rating pool (modules/rating): an environment and a time category,   *)
(* its rating periods, the games that fall into them, the ratings and the  *)
(* history rows that explain them.                                         *)
(*                                                                         *)
(* Glicko-2 itself is a function of real numbers that nothing here looks   *)
(* into.  A rating is the list of periods folded into it, each with the    *)
(* games that were counted and what the opponents were rated: one list is  *)
(* one number.  The deviation is below ESTABLISHED_MAX_RD after a period   *)
(* with games and above it after an idle one.  Peaks and tau are left out. *)
(*                                                                         *)
(* Of two definitions of one thing the first is a plausible mistake: the   *)
(* second is the code's, and the specification uses no other.              *)
(***************************************************************************)
EXTENDS Integers, Sequences, FiniteSets, SequencesExt

CONSTANTS
  Requests,    \* slots for requests in flight
  Players,
  Games,
  SeatsOf,     \* [Games -> [white, black : Players]]
  PlayedAt,    \* [Games -> Nat]: endedAt, or completedAt of the round
  Windows,     \* the ranges [from, to) an official may ask a period for
  MinGames,    \* ESTABLISHED_MIN_GAMES
  Null,
  MaxPeriods,  \* bound: no further period is created
  MaxCommits   \* bound: no further computation is begun

VARIABLES
  environment, \* "OTB" or "ONLINE"
  games,       \* the Pairing or OnlineGame row of each game
  periods,     \* the RatingPeriod rows, as created
  ratings,     \* the PlayerRating rows, by player
  history,     \* the RatingHistory rows, by player and period
  locks,       \* periods whose advisory lock is taken
  announced,   \* RatingRecomputed events, by period
  commits,     \* computations committed so far
  overlapped,  \* history: something was committed while a request was reading
  disordered,  \* history: a period was computed after a later one
  pc, loc

tables == <<games, periods, ratings, history, locks, announced>>
marks  == <<commits, overlapped, disordered>>
vars   == <<environment, tables, marks, pc, loc>>

Blank == [kind |-> "none", window |-> Null, period |-> 0, since |-> 0, games |-> Null,
          rated |-> Null, playing |-> Null, prior |-> Null]

Goto(r, label, l) ==
  /\ pc' = [pc EXCEPT ![r] = label]
  /\ loc' = [loc EXCEPT ![r] = l]

Reply(r) == Goto(r, "idle", Blank)

Local == UNCHANGED <<environment, tables, marks>>

\* The row a game has while it is being played: a rated game, a tournament that
\* stands.
Unfinished == [status |-> "ACTIVE", winner |-> Null, counts |-> TRUE]

Init ==
  /\ environment \in {"OTB", "ONLINE"}
  /\ games = [g \in Games |-> Unfinished]
  /\ periods = <<>>
  /\ ratings = <<>> /\ history = <<>>
  /\ locks = {}
  /\ announced = [n \in 1..MaxPeriods |-> 0]
  /\ commits = 0 /\ overlapped = FALSE /\ disordered = FALSE
  /\ pc = [r \in Requests |-> "idle"]
  /\ loc = [r \in Requests |-> Blank]

-----------------------------------------------------------------------------
(* Which games count, and for how much. *)

Decisive == {"CHECKMATE", "RESIGNATION", "TIMEOUT", "ABANDONED"}
Drawn == {"STALEMATE", "DRAW_AGREED", "THREEFOLD_REPETITION", "FIFTY_MOVE_RULE",
          "INSUFFICIENT_MATERIAL", "TIMEOUT_VS_INSUFFICIENT_MATERIAL"}
OverBoard == {"WHITE_WIN", "BLACK_WIN", "DRAW"}

WinOf(color) == IF color = "WHITE" THEN "WHITE_WIN" ELSE "BLACK_WIN"

OnlineRatedResult(status, winner) ==
  CASE status \in Drawn -> "DRAW"
    [] status \in Decisive /\ winner # Null -> WinOf(winner)
    [] OTHER -> Null

\* A forfeit, a bye, an aborted game and one that both left do not count.
RatedResult(g) ==
  IF environment = "ONLINE" THEN OnlineRatedResult(games[g].status, games[g].winner)
  ELSE IF games[g].status \in OverBoard THEN games[g].status ELSE Null

ScoreForWhite(result, side) ==
  CASE result = "DRAW" -> 1 [] result = "WHITE_WIN" -> 2 [] OTHER -> 0
\* In half points.
ScoreFor(result, side) ==
  IF result = "DRAW" THEN 1
  ELSE IF (side = "WHITE") <=> (result = "WHITE_WIN") THEN 2 ELSE 0

Within(at, window) == window.from <= at /\ at < window.to

\* gamesForPeriod.
GamesFor(window) ==
  {[game |-> g, result |-> RatedResult(g)] :
     g \in {h \in Games : Within(PlayedAt[h], window) /\ games[h].counts /\ RatedResult(h) # Null}}

PlayersOf(rows) ==
  UNION {{SeatsOf[row.game].white, SeatsOf[row.game].black} : row \in rows}

-----------------------------------------------------------------------------
(* createPeriod *)

Overlap(a, b) == a.from < b.to /\ a.to > b.from

Overlapping(window) == \E n \in DOMAIN periods : Overlap(periods[n].window, window)

BeginCreate(r) ==
  /\ pc[r] = "idle" /\ Len(periods) < MaxPeriods
  /\ \E w \in Windows :
       Goto(r, "overlap", [Blank EXCEPT !.kind = "create", !.window = w, !.since = Len(periods)])
  /\ Local

FindOverlapping(r) ==
  /\ pc[r] = "overlap"
  /\ IF Overlapping(loc[r].window) THEN Reply(r) ELSE Goto(r, "create", loc[r])
  /\ Local

\* The only index is (environment, timeCategory, startsAt).
StartFree(window) == \A n \in DOMAIN periods : periods[n].window.from # window.from

CreatePeriod(r) ==
  /\ pc[r] = "create" /\ Len(periods) < MaxPeriods
  /\ Reply(r)
  /\ IF StartFree(loc[r].window)
     THEN /\ periods' = Append(periods, [window |-> loc[r].window, computed |-> FALSE,
                                          generation |-> 0])
          /\ overlapped' = (overlapped \/ Len(periods) # loc[r].since)
     ELSE UNCHANGED <<periods, overlapped>>
  /\ UNCHANGED <<environment, games, ratings, history, locks, announced, commits, disordered>>

-----------------------------------------------------------------------------
(* computePeriod *)

\* findPeriodById, after the check of the actor and the reason.
BeginCompute(r) ==
  /\ pc[r] = "idle" /\ commits < MaxCommits
  /\ \E n \in DOMAIN periods :
       Goto(r, "games", [Blank EXCEPT !.kind = "compute", !.period = n, !.since = commits])
  /\ Local

CollectGames(r) ==
  /\ pc[r] = "games"
  /\ Goto(r, "states", [loc[r] EXCEPT !.games = GamesFor(periods[loc[r].period].window)])
  /\ Local

\* The three queries of buildPrePeriodStates are sent together and answered in
\* any order.
RatingsOf(ps) == [p \in ps \cap DOMAIN ratings |-> ratings[p]]

ReadRated(r) ==
  /\ pc[r] = "states" /\ loc[r].rated = Null
  /\ Goto(r, "states", [loc[r] EXCEPT !.rated = RatingsOf(Players)])
  /\ Local

ReadPlaying(r) ==
  /\ pc[r] = "states" /\ loc[r].playing = Null
  /\ Goto(r, "states", [loc[r] EXCEPT !.playing = RatingsOf(PlayersOf(loc[r].games))])
  /\ Local

ReadPrior(r) ==
  /\ pc[r] = "states" /\ loc[r].prior = Null
  /\ Goto(r, "states",
          [loc[r] EXCEPT !.prior =
             [p \in {x \in Players : <<x, loc[r].period>> \in DOMAIN history} |->
                history[<<p, loc[r].period>>]]])
  /\ Local

Sharp(folds) == folds # <<>> /\ Last(folds).inputs # {}

Established(played, folds) == played >= MinGames /\ Sharp(folds)

NewPlayer == [folds |-> <<>>, played |-> 0, provisional |-> TRUE]

StateOfCurrent(l, p) ==
  IF p \in DOMAIN l.playing THEN l.playing[p]
  ELSE IF p \in DOMAIN l.rated THEN l.rated[p] ELSE NewPlayer
\* The state before the period: what the history remembers of it, else the
\* current rating, else a new player's.
StateOf(l, p) ==
  LET current == StateOfCurrent(l, p)
      rated   == p \in DOMAIN l.playing \cup DOMAIN l.rated
      counted == current.played - Cardinality(l.prior[p].inputs)
      played  == IF counted > 0 THEN counted ELSE 0
  IN IF rated /\ p \in DOMAIN l.prior
     THEN [folds |-> l.prior[p].before, played |-> played,
           provisional |-> ~Established(played, l.prior[p].before)]
     ELSE current

\* groupGamesByPlayer and the inputGames of one player: each game with what the
\* opponent's rating was before the period.
InputsOf(l, p) ==
  {[game |-> row.game, score |-> ScoreFor(row.result, "WHITE"),
    opponent |-> SeatsOf[row.game].black, rated |-> StateOf(l, SeatsOf[row.game].black).folds] :
     row \in {x \in l.games : SeatsOf[x.game].white = p}}
  \cup
  {[game |-> row.game, score |-> ScoreFor(row.result, "BLACK"),
    opponent |-> SeatsOf[row.game].white, rated |-> StateOf(l, SeatsOf[row.game].white).folds] :
     row \in {x \in l.games : SeatsOf[x.game].black = p}}

\* computePeriodResults for one player.
ResultOf(l, p) ==
  LET state  == StateOf(l, p)
      inputs == InputsOf(l, p)
      after  == Append(state.folds, [period |-> l.period, inputs |-> inputs])
      total  == state.played + Cardinality(inputs)
  IN [before |-> state.folds, inputs |-> inputs,
      rating |-> [folds |-> after, played |-> total,
                  provisional |-> state.provisional /\ ~Established(total, after)]]

Computed(l) == DOMAIN l.playing \cup DOMAIN l.rated \cup PlayersOf(l.games)

TakeLock(r) ==
  LET l == loc[r] IN
  /\ pc[r] = "states" /\ Null \notin {l.rated, l.playing, l.prior}
  /\ IF l.period \in locks
     THEN Reply(r) /\ UNCHANGED locks
     ELSE Goto(r, "apply", l) /\ locks' = locks \cup {l.period}
  /\ UNCHANGED <<environment, games, periods, ratings, history, announced, marks>>

\* The first computation is generation 0.
GenerationOf(row) == IF row.computed THEN row.generation + 1 ELSE row.generation

Later(n, m) == periods[n].window.from > periods[m].window.from

RowsOfPlayed(l, results) ==
  [at \in {p \in Computed(l) : results[p].inputs # {}} \X {l.period} |->
     [before |-> results[at[1]].before, inputs |-> results[at[1]].inputs]]
\* An idle player's deviation grows: that is explained too.
RowsOf(l, results) ==
  [at \in Computed(l) \X {l.period} |->
     [before |-> results[at[1]].before, inputs |-> results[at[1]].inputs]]

\* applyPeriodResults: ratings upserted with absolute values, history deleted and
\* inserted, the period, the event: one transaction.
ApplyResults(r) ==
  LET l == loc[r]
      results == [p \in Computed(l) |-> ResultOf(l, p)]
  IN
  /\ pc[r] = "apply"
  /\ ratings' = [p \in Computed(l) |-> results[p].rating] @@ ratings
  /\ history' = RowsOf(l, results) @@ history
  /\ periods' = [periods EXCEPT ![l.period].computed = TRUE,
                                ![l.period].generation = GenerationOf(periods[l.period])]
  /\ announced' = [announced EXCEPT ![l.period] = @ + 1]
  /\ locks' = locks \ {l.period}
  /\ commits' = commits + 1
  /\ overlapped' = (overlapped \/ l.since # commits)
  /\ disordered' = (disordered
                      \/ \E n \in DOMAIN periods : periods[n].computed /\ Later(n, l.period))
  /\ Reply(r)
  /\ UNCHANGED <<environment, games>>

\* The process dies; the lock of its transaction goes with it.
Crash(r) ==
  /\ pc[r] = "apply"
  /\ locks' = locks \ {loc[r].period}
  /\ Reply(r)
  /\ UNCHANGED <<environment, games, periods, ratings, history, announced, marks>>

-----------------------------------------------------------------------------
(* The games come from elsewhere. *)

Outcomes ==
  IF environment = "ONLINE"
  THEN {<<"CHECKMATE", "BLACK">>, <<"DRAW_AGREED", Null>>, <<"ABANDONED", Null>>}
  ELSE {<<"BLACK_WIN", Null>>, <<"DRAW", Null>>, <<"WHITE_WIN_FORFEIT", Null>>}

\* A game ends, or the round of a pairing is completed.
EndGame(g) ==
  /\ games[g] = Unfinished
  /\ \E o \in Outcomes :
       games' = [games EXCEPT ![g] = [status |-> o[1], winner |-> o[2], counts |-> TRUE]]
  /\ UNCHANGED <<environment, periods, ratings, history, locks, announced, marks, pc, loc>>

\* The tournament of a pairing is cancelled or deleted.
CancelTournament(g) ==
  /\ environment = "OTB" /\ games[g].counts
  /\ games' = [games EXCEPT ![g].counts = FALSE]
  /\ UNCHANGED <<environment, periods, ratings, history, locks, announced, marks, pc, loc>>

Step(r) ==
  \/ BeginCreate(r) \/ FindOverlapping(r) \/ CreatePeriod(r)
  \/ BeginCompute(r) \/ CollectGames(r)
  \/ ReadRated(r) \/ ReadPlaying(r) \/ ReadPrior(r)
  \/ TakeLock(r) \/ ApplyResults(r) \/ Crash(r)

Next ==
  \/ \E r \in Requests : Step(r)
  \/ \E g \in Games : EndGame(g) \/ CancelTournament(g)

Spec == Init /\ [][Next]_vars

-----------------------------------------------------------------------------
(* Properties. *)

PeriodsOf(p) == [i \in DOMAIN ratings[p].folds |-> ratings[p].folds[i].period]

TypeOK ==
  /\ DOMAIN ratings \subseteq Players
  /\ \A p \in DOMAIN ratings :
       /\ PeriodsOf(p) \in Seq(1..MaxPeriods)
       /\ ratings[p].played \in Nat /\ ratings[p].provisional \in BOOLEAN
  /\ DOMAIN history \subseteq Players \X (1..MaxPeriods)
  /\ Len(periods) <= MaxPeriods
  /\ \A n \in DOMAIN periods :
       /\ periods[n].window \in Windows
       /\ periods[n].computed \in BOOLEAN
       /\ announced[n] = periods[n].generation + (IF periods[n].computed THEN 1 ELSE 0)
  /\ locks = {loc[r].period : r \in {q \in Requests : pc[q] = "apply"}}

\* "Why did my rating drop?": whatever computations overlap, the current rating
\* of a player is what the history row of its last period says it became
\* (applyPeriodResults).
RatingIsExplained ==
  \A p \in DOMAIN ratings :
    LET n == Last(ratings[p].folds).period IN
    /\ <<p, n>> \in DOMAIN history
    /\ ratings[p].folds = Append(history[<<p, n>>].before, [period |-> n,
                                 inputs |-> history[<<p, n>>].inputs])

\* The computed periods, the earliest first.
Chronicle == SetToSortSeq({n \in DOMAIN periods : periods[n].computed}, LAMBDA n, m : Later(m, n))

CountedFor(p) == FoldLeft(LAMBDA sum, f : sum + Cardinality(f.inputs), 0, ratings[p].folds)

\* As long as periods are computed in order, and one request at a time, a rating
\* folds every computed period from its player's first one on, once and in order,
\* however often the latest is computed again; it counts its games.
RatingsCoverPeriods ==
  ~overlapped /\ ~disordered =>
    \A p \in DOMAIN ratings :
      /\ IsSuffix(PeriodsOf(p), Chronicle)
      /\ ratings[p].played = CountedFor(p)

\* Of every game that is counted the two players' rows of that period share one
\* point, each is held against what the other was rated before the period, and no
\* game is counted in two periods.
GamesCountOnce ==
  ~overlapped =>
    /\ \A m, n \in DOMAIN periods :
         m # n => ~Overlap(periods[m].window, periods[n].window)
    /\ \A at \in DOMAIN history : \A i \in history[at].inputs :
         LET n     == at[2]
             other == <<i.opponent, n>>
         IN
         /\ Within(PlayedAt[i.game], periods[n].window)
         /\ other \in DOMAIN history
         /\ history[other].before = i.rated
         /\ [game |-> i.game, score |-> 2 - i.score, opponent |-> at[1],
              rated |-> history[at].before] \in history[other].inputs

\* A player who is established stays so.  It does not hold: AroundDivergences.
EstablishedStays ==
  [][\A p \in DOMAIN ratings : ~ratings[p].provisional => ~ratings'[p].provisional]_vars

\* A rating folds no period twice.  It does not hold: AroundDivergences.
NoPeriodTwice == \A p \in DOMAIN ratings : IsInjective(PeriodsOf(p))

\* Periods of a pool never overlap.  It does not hold: AroundDivergences.
PeriodsDisjoint ==
  \A m, n \in DOMAIN periods : m # n => ~Overlap(periods[m].window, periods[n].window)

\* A rating folds every computed period.  It does not hold: AroundDivergences.
NoPeriodLost ==
  ~overlapped => \A p \in DOMAIN ratings : IsSuffix(PeriodsOf(p), Chronicle)
=============================================================================
