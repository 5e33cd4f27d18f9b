------------------------- MODULE TournamentSection -------------------------
(***************************************************************************)
(* One section of a tournament (modules/tournament, modules/arbiter):      *)
(* registrations, the status of the tournament, the rounds with their      *)
(* boards and results, and the standings.  Pairing is round-robin.         *)
(*                                                                         *)
(* Requests interleave between awaits.  A step reads or writes the tables  *)
(* once: the transactions run at READ COMMITTED, so a read inside one is a *)
(* step of its own, and what it writes takes effect when it commits.  The  *)
(* step a request begins with does its first read and the checks on it; a  *)
(* request these turn away leaves no trace and is not a step.              *)
(*                                                                         *)
(* Of two definitions of one thing the first is a plausible mistake: the   *)
(* second is the code's, and the specification uses no other.              *)
(***************************************************************************)
EXTENDS RoundRobin

CONSTANTS
  Requests,    \* slots for requests in flight
  Handles,     \* [Requests -> SUBSET Kinds]: what a slot may run
  NumPlayers,  \* players who may register, the highest rating first
  MaxPlayers,  \* section.maxPlayers
  HasFee,      \* TRUE iff the tournament has an entry fee
  Legs,        \* 1: ROUND_ROBIN, 2: DOUBLE_ROUND_ROBIN
  GameResults, \* results the arbiters enter for a game
  ByeResults,  \* ... and for a bye
  MaxRounds,   \* bound: rounds anybody asks for
  MaxCrashes   \* bound: requests that die between two awaits

Players == 1..NumPlayers
Kinds == {"register", "withdraw", "status", "generate", "result", "complete"}

\* Half-points of the white side and of both; a bye belongs to "white".
WhiteScore ==
  [WHITE_WIN |-> 2, BLACK_WIN |-> 0, DRAW |-> 1, WHITE_WIN_FORFEIT |-> 2,
   BLACK_WIN_FORFEIT |-> 0, DOUBLE_FORFEIT |-> 0,
   BYE_FULL |-> 2, BYE_HALF |-> 1, BYE_ZERO |-> 0, UNPLAYED |-> 0]
BlackScore ==
  [WHITE_WIN |-> 0, BLACK_WIN |-> 2, DRAW |-> 1, WHITE_WIN_FORFEIT |-> 0,
   BLACK_WIN_FORFEIT |-> 2, DOUBLE_FORFEIT |-> 0,
   BYE_FULL |-> 0, BYE_HALF |-> 0, BYE_ZERO |-> 0, UNPLAYED |-> 0]

AllByeResults == {"BYE_FULL", "BYE_HALF", "BYE_ZERO"}
AllGameResults == DOMAIN WhiteScore \ (AllByeResults \cup {"UNPLAYED"})

ASSUME SectionHandles == Handles \in [Requests -> SUBSET Kinds]
ASSUME SectionNumbers == NumPlayers \in Nat /\ MaxPlayers \in Nat \ {0} /\ Legs \in {1, 2}
ASSUME SectionResults == GameResults \subseteq AllGameResults /\ ByeResults \subseteq AllByeResults
ASSUME SectionFee == HasFee \in BOOLEAN
ASSUME SectionBounds == {MaxRounds, MaxCrashes} \subseteq Nat

VARIABLES
  tstatus,    \* the status of the tournament
  regs,       \* the Registration of each registered player
  rounds,     \* the Rounds, each with its status and its boards
  standings,  \* the Standing of each player who has one: half-points
  announced,  \* of each round: RoundCompleted events enqueued
  pc, loc,    \* the await each request is stopped at, its local variables
  crashes

tables == <<tstatus, regs, rounds, standings, announced>>
vars == <<tstatus, regs, rounds, standings, announced, pc, loc, crashes>>

Nobody == 0
Blank == [player |-> Nobody, to |-> "DRAFT", round |-> 0, board |-> 0, result |-> "UNPLAYED",
          reason |-> FALSE, seen |-> "UNPLAYED", open |-> FALSE,
          who |-> {}, boards |-> <<>>, scores |-> <<>>]

Goto(r, label, l) ==
  /\ pc' = [pc EXCEPT ![r] = label]
  /\ loc' = [loc EXCEPT ![r] = l]

\* The request replied, was rejected, or threw.
Reply(r) == Goto(r, "idle", Blank)

Local == UNCHANGED <<tables, crashes>>

Begin(r, kind, label, l) ==
  /\ pc[r] = "idle" /\ kind \in Handles[r]
  /\ Goto(r, label, l)
  /\ Local

Init ==
  /\ tstatus = "REGISTRATION_OPEN"
  /\ regs = <<>> /\ rounds = <<>> /\ standings = <<>>
  /\ announced = [i \in 1..MaxRounds |-> 0]
  /\ pc = [r \in Requests |-> "idle"]
  /\ loc = [r \in Requests |-> Blank]
  /\ crashes = 0

-----------------------------------------------------------------------------
(* register and withdraw *)

BeginRegister(r) ==
  /\ tstatus = "REGISTRATION_OPEN"
  /\ \E p \in Players : Begin(r, "register", "count", [Blank EXCEPT !.player = p])

\* Not registered yet, and the section is not full.
CountRegistrations(r) ==
  /\ pc[r] = "count"
  /\ IF \/ loc[r].player \in DOMAIN regs
        \/ Cardinality({p \in DOMAIN regs : ~regs[p].withdrawn}) >= MaxPlayers
     THEN Reply(r)
     ELSE Goto(r, "register", loc[r])
  /\ Local

\* createRegistration; (sectionId, playerId) is unique.
Register(r) ==
  LET p == loc[r].player IN
  /\ pc[r] = "register"
  /\ IF p \in DOMAIN regs THEN UNCHANGED regs
     ELSE regs' = [q \in DOMAIN regs \cup {p} |->
                     IF q = p THEN [confirmed |-> ~HasFee, withdrawn |-> FALSE, number |-> 0]
                              ELSE regs[q]]
  /\ Reply(r)
  /\ UNCHANGED <<tstatus, rounds, standings, announced, crashes>>

BeginWithdraw(r) ==
  \E p \in DOMAIN regs :
    /\ ~regs[p].withdrawn
    /\ Begin(r, "withdraw", "withdraw", [Blank EXCEPT !.player = p])

Withdraw(r) ==
  /\ pc[r] = "withdraw"
  /\ regs' = [regs EXCEPT ![loc[r].player].withdrawn = TRUE]
  /\ Reply(r)
  /\ UNCHANGED <<tstatus, rounds, standings, announced, crashes>>

-----------------------------------------------------------------------------
(* changeStatus *)

Successors ==
  [DRAFT |-> {"REGISTRATION_OPEN", "CANCELLED"},
   REGISTRATION_OPEN |-> {"REGISTRATION_CLOSED", "CANCELLED"},
   REGISTRATION_CLOSED |-> {"IN_PROGRESS", "CANCELLED"},
   IN_PROGRESS |-> {"COMPLETED", "CANCELLED"},
   COMPLETED |-> {}, CANCELLED |-> {}]

BeginStatus(r) ==
  \E to \in Successors[tstatus] : Begin(r, "status", "status", [Blank EXCEPT !.to = to])

ChangeStatus(r) ==
  /\ pc[r] = "status"
  /\ tstatus' = loc[r].to
  /\ Reply(r)
  /\ UNCHANGED <<regs, rounds, standings, announced, crashes>>

-----------------------------------------------------------------------------
(* generateRound *)

BeginGenerate(r) ==
  /\ tstatus = "IN_PROGRESS"
  /\ Begin(r, "generate", "latest", Blank)

\* The latest round, if there is one, is completed.  (No request gets past the
\* bound on rounds.)
LatestDone == rounds = <<>> \/ rounds[Len(rounds)].status = "COMPLETED"

ReadLatest(r) ==
  /\ pc[r] = "latest"
  /\ IF LatestDone /\ Len(rounds) < MaxRounds
     THEN Goto(r, "active", [loc[r] EXCEPT !.round = Len(rounds) + 1])
     ELSE Reply(r)
  /\ Local

Active == {p \in DOMAIN regs : regs[p].confirmed /\ ~regs[p].withdrawn}
Numbered == {p \in DOMAIN regs : regs[p].number # 0}

\* Without a number among the active players, numbers are given out first.
ReadActive(r) ==
  /\ pc[r] = "active"
  /\ Goto(r, IF Active \cap Numbered = {} THEN "unnumbered" ELSE "seats", loc[r])
  /\ Local

\* assignPairingNumbers, the read: given already, given in part, or not at all.
ReadUnnumbered(r) ==
  /\ pc[r] = "unnumbered"
  /\ IF Active # {} /\ Active \subseteq Numbered THEN Goto(r, "seats", loc[r])
     ELSE IF Active \cap Numbered # {} THEN Reply(r)
     ELSE Goto(r, "numbers", [loc[r] EXCEPT !.who = Active])
  /\ Local

\* They are updated one by one in their order; (sectionId, pairingNumber) is unique.
NoIndex(who) == TRUE
NumbersFree(who) ==
  \A p \in Numbered :
    regs[p].number <= Cardinality(who) => p \in who /\ Place(who, p) <= regs[p].number

AssignNumbers(r) ==
  LET who == loc[r].who IN
  /\ pc[r] = "numbers"
  /\ IF NumbersFree(who)
     THEN /\ regs' = [p \in DOMAIN regs |->
                        IF p \in who THEN [regs[p] EXCEPT !.number = Place(who, p)] ELSE regs[p]]
          /\ Goto(r, "seats", [loc[r] EXCEPT !.who = {}])
     ELSE /\ Reply(r)
          /\ UNCHANGED regs
  /\ UNCHANGED <<tstatus, rounds, standings, announced, crashes>>

\* numberedRegistrations, by number.  Who has withdrawn keeps the seat.
Seats ==
  LET numbers == Ascending({regs[p].number : p \in Numbered})
  IN  [i \in DOMAIN numbers |-> CHOOSE p \in Numbered : regs[p].number = numbers[i]]

GameBoard(p, q) == [white |-> p, black |-> q, result |-> "UNPLAYED"]
ByeBoard(p) == [white |-> p, black |-> Nobody, result |-> "BYE_FULL"]

\* The engine is pure: it runs on what has just been read.
ReadSeats(r) ==
  LET seats  == Seats
      active == {s \in DOMAIN seats : ~regs[seats[s]].withdrawn}
      round  == loc[r].round
      games  == Games(Len(seats), round, active)
      byes   == Byes(Len(seats), round, active)
  IN
  /\ pc[r] = "seats"
  /\ IF CanPair(Len(seats), Legs, round, active)
     THEN Goto(r, "create",
               [loc[r] EXCEPT !.boards =
                  [b \in DOMAIN games |-> GameBoard(seats[games[b][1]], seats[games[b][2]])]
                  \o [b \in DOMAIN byes |-> ByeBoard(seats[byes[b]])]])
     ELSE Reply(r)
  /\ Local

\* createRoundWithPairings; (sectionId, number) is unique.
RoundFree(n) == n = Len(rounds) + 1

CreateRound(r) ==
  /\ pc[r] = "create"
  /\ IF RoundFree(loc[r].round)
     THEN /\ rounds' = Append(rounds, [status |-> "PAIRED", boards |-> loc[r].boards])
          /\ Goto(r, "participants", Blank)
     ELSE /\ Reply(r)
          /\ UNCHANGED rounds
  /\ UNCHANGED <<tstatus, regs, standings, announced, crashes>>

-----------------------------------------------------------------------------
(* enterResult *)

\* findPairingContext.
BeginResult(r) ==
  \E i \in DOMAIN rounds : \E b \in DOMAIN rounds[i].boards :
    \E result \in GameResults \cup ByeResults, reason \in BOOLEAN :
      Begin(r, "result", "check",
            [Blank EXCEPT !.round = i, !.board = b, !.result = result, !.reason = reason,
                          !.seen = rounds[i].boards[b].result])

\* A bye has a bye's result; to change a result takes a reason.
Applicable(l) ==
  (rounds[l.round].boards[l.board].black = Nobody) <=> l.result \in AllByeResults
Explained(l) == l.seen = "UNPLAYED" \/ l.reason

CheckResult(r) ==
  /\ pc[r] = "check"
  /\ IF tstatus = "IN_PROGRESS" /\ Applicable(loc[r]) /\ Explained(loc[r])
     THEN Goto(r, "before", loc[r])
     ELSE Reply(r)
  /\ Local

\* The transaction reads the row again, for the audit.
ReadBefore(r) ==
  /\ pc[r] = "before"
  /\ Goto(r, "enter", [loc[r] EXCEPT !.seen = rounds[loc[r].round].boards[loc[r].board].result])
  /\ Local

\* The audit refuses 'result.updated' without a reason, and nothing is written.
AuditAccepts(l) == Explained(l)

EnterResult(r) ==
  LET l == loc[r] IN
  /\ pc[r] = "enter"
  /\ IF AuditAccepts(l)
     THEN /\ rounds' = [rounds EXCEPT ![l.round].boards[l.board].result = l.result]
          /\ Goto(r, "participants", Blank)
     ELSE /\ Reply(r)
          /\ UNCHANGED rounds
  /\ UNCHANGED <<tstatus, regs, standings, announced, crashes>>

-----------------------------------------------------------------------------
(* completeRound *)

AllPlayed(i) == \A b \in DOMAIN rounds[i].boards : rounds[i].boards[b].result # "UNPLAYED"

\* findRound: open still, with a result on every board.
OpenStill(i) == rounds[i].status = "PAIRED"
Completable(i) == rounds[i].status = "PAIRED" /\ AllPlayed(i)

BeginComplete(r) ==
  \E i \in DOMAIN rounds :
    Begin(r, "complete", "close", [Blank EXCEPT !.round = i, !.open = Completable(i)])

CheckComplete(r) ==
  /\ pc[r] = "close"
  /\ IF tstatus = "IN_PROGRESS" /\ loc[r].open THEN Goto(r, "complete", loc[r]) ELSE Reply(r)
  /\ Local

\* The round and its outbox event, in one transaction.
CompleteRound(r) ==
  LET i == loc[r].round IN
  /\ pc[r] = "complete"
  /\ rounds' = [rounds EXCEPT ![i].status = "COMPLETED"]
  /\ announced' = [announced EXCEPT ![i] = @ + 1]
  /\ Goto(r, "participants", Blank)
  /\ UNCHANGED <<tstatus, regs, standings, crashes>>

-----------------------------------------------------------------------------
(* recomputeStandings, at the end of all three *)

\* buildScoreViews: what the boards of all rounds give each player.
BoardScore(board, p) ==
  IF board.white = p THEN WhiteScore[board.result]
  ELSE IF board.black = p THEN BlackScore[board.result]
  ELSE 0
RoundScore(round, p) ==
  FoldLeft(LAMBDA sum, board : sum + BoardScore(board, p), 0, round.boards)
CompletedRounds == SelectSeq(rounds, LAMBDA round : round.status = "COMPLETED")
ScoreSoFar(p) == FoldLeft(LAMBDA sum, round : sum + RoundScore(round, p), 0, CompletedRounds)
ScoreOf(p) == FoldLeft(LAMBDA sum, round : sum + RoundScore(round, p), 0, rounds)

ReadParticipants(r) ==
  /\ pc[r] = "participants"
  /\ IF Numbered = {} THEN Reply(r)
     ELSE Goto(r, "history", [Blank EXCEPT !.who = Numbered])
  /\ Local

ReadHistory(r) ==
  /\ pc[r] = "history"
  /\ Goto(r, "upsert",
          [Blank EXCEPT !.scores = [p \in loc[r].who |-> ScoreOf(p)]])
  /\ Local

UpsertStandings(r) ==
  LET scores == loc[r].scores IN
  /\ pc[r] = "upsert"
  /\ standings' = [p \in DOMAIN standings \cup DOMAIN scores |->
                     IF p \in DOMAIN scores THEN scores[p] ELSE standings[p]]
  /\ Reply(r)
  /\ UNCHANGED <<tstatus, regs, rounds, announced, crashes>>

-----------------------------------------------------------------------------
(* The environment. *)

\* The entry fee is paid: billing confirms the registration, whenever that is.
Confirm(p) ==
  /\ p \in DOMAIN regs /\ ~regs[p].confirmed
  /\ regs' = [regs EXCEPT ![p].confirmed = TRUE]
  /\ UNCHANGED <<tstatus, rounds, standings, announced, pc, loc, crashes>>

\* A request dies between two awaits; an open transaction rolls back.
Crash(r) ==
  /\ pc[r] # "idle"
  /\ crashes < MaxCrashes
  /\ crashes' = crashes + 1
  /\ Reply(r)
  /\ UNCHANGED tables

Step(r) ==
  \/ BeginRegister(r) \/ CountRegistrations(r) \/ Register(r)
  \/ BeginWithdraw(r) \/ Withdraw(r)
  \/ BeginStatus(r) \/ ChangeStatus(r)
  \/ BeginGenerate(r) \/ ReadLatest(r) \/ ReadActive(r) \/ ReadUnnumbered(r)
  \/ AssignNumbers(r) \/ ReadSeats(r) \/ CreateRound(r)
  \/ BeginResult(r) \/ CheckResult(r) \/ ReadBefore(r) \/ EnterResult(r)
  \/ BeginComplete(r) \/ CheckComplete(r) \/ CompleteRound(r)
  \/ ReadParticipants(r) \/ ReadHistory(r) \/ UpsertStandings(r)
  \/ Crash(r)

Next ==
  \/ \E r \in Requests : Step(r)
  \/ \E p \in Players : Confirm(p)

Spec == Init /\ [][Next]_vars

-----------------------------------------------------------------------------
(* Properties. *)

Labels == {"idle", "count", "register", "withdraw", "status", "latest", "active",
           "unnumbered", "numbers", "seats", "create", "check", "before", "enter",
           "close", "complete", "participants", "history", "upsert"}
Results == DOMAIN WhiteScore
Board == [white : Players, black : Players \cup {Nobody}, result : Results]
Round == [status : {"PAIRED", "COMPLETED"}, boards : Seq(Board)]

\* The rows and the requests are well formed; pairing numbers are 1, 2, 3, ...
\* and no two players share one.
TypeOK ==
  /\ tstatus \in DOMAIN Successors
  /\ DOMAIN regs \subseteq Players
  /\ regs \in [DOMAIN regs -> [confirmed : BOOLEAN, withdrawn : BOOLEAN, number : Nat]]
  /\ {regs[p].number : p \in Numbered} = 1..Cardinality(Numbered)
  /\ rounds \in Seq(Round)
  /\ Len(rounds) <= MaxRounds
  /\ DOMAIN standings \subseteq Numbered
  /\ standings \in [DOMAIN standings -> Nat]
  /\ announced \in [1..MaxRounds -> Nat]
  /\ pc \in [Requests -> Labels]
  /\ loc \in [Requests -> [player : Players \cup {Nobody}, to : DOMAIN Successors,
                round : 0..MaxRounds, board : Nat, result : Results, reason : BOOLEAN,
                seen : Results, open : BOOLEAN, who : SUBSET Players, boards : Seq(Board),
                scores : {loc[r].scores : r \in Requests}]]
  /\ crashes \in Nat

\* A round is opened only when every earlier one is completed, a completed round
\* has a result on every board and keeps it, and its end is announced
\* (generateRound, completeRound).
RoundsInOrder ==
  \A i \in DOMAIN rounds :
    /\ i < Len(rounds) => rounds[i].status = "COMPLETED"
    /\ rounds[i].status = "COMPLETED" => AllPlayed(i) /\ announced[i] > 0

\* However the requests interleave, nobody sits at two boards of a round, or on
\* both sides of one (createRoundWithPairings, of what the engine was given).
OnceEach(boards) ==
  /\ \A b \in DOMAIN boards : boards[b].white # boards[b].black
  /\ \A b, c \in DOMAIN boards : b # c =>
       {boards[b].white, boards[b].black} \cap {boards[c].white, boards[c].black} \subseteq {Nobody}
RoundsAreSound == RoundsInOrder /\ \A i \in DOMAIN rounds : OnceEach(rounds[i].boards)

Seated(round) ==
  SelectSeq(FlattenSeq([b \in DOMAIN round.boards |->
                          <<round.boards[b].white, round.boards[b].black>>]),
            LAMBDA p : p # Nobody)

\* The players who have a number and have not withdrawn are all in a new round,
\* and nobody is in it twice.
EveryoneSits ==
  Len(rounds') > Len(rounds) =>
    LET seated == Seated(rounds'[Len(rounds')]) IN
    IsInjective(seated) /\ ToSet(seated) = {p \in Numbered : ~regs[p].withdrawn}
EveryoneOnce == [][EveryoneSits]_vars

\* The boards of all rounds for which the test holds.
BoardsWhere(Test(_)) ==
  UNION {{<<i, b>> : b \in {k \in DOMAIN rounds[i].boards : Test(rounds[i].boards[k])}} : i \in DOMAIN rounds}

GamesOf(p, q) == BoardsWhere(LAMBDA board : board.white = p /\ board.black = q)

\* Over all rounds two players meet at most once in a leg, with the colours
\* turned in the second, whoever confirms late or withdraws on the way.
NoRematch ==
  \A p, q \in Players : p # q =>
    /\ Cardinality(GamesOf(p, q)) <= 1
    /\ Cardinality(GamesOf(p, q) \cup GamesOf(q, p)) <= Legs

\* However many players come, 2 to 8, the tables of the section are complete and
\* fair in one leg and in two (generateBergerTables, pair).
TablesAreFair == Init => \A n \in 2..8 : FairTables(n)

\* A pairing number, once given, is never given again or taken away.
NumbersStay == [][\A p \in Numbered : regs'[p].number = regs[p].number]_vars

Calm == crashes = 0 /\ \A r \in Requests : pc[r] = "idle"

\* Between two requests the standings are those of the results, those of
\* completed rounds and of the open one alike: two half-points for a win, on the
\* board or by forfeit, and for a full bye, one for a draw and a half bye.
WonBy(board, p) ==
  \/ board.white = p /\ board.result \in {"WHITE_WIN", "WHITE_WIN_FORFEIT", "BYE_FULL"}
  \/ board.black = p /\ board.result \in {"BLACK_WIN", "BLACK_WIN_FORFEIT"}
DrawnBy(board, p) ==
  \/ p \in {board.white, board.black} /\ board.result = "DRAW"
  \/ board.white = p /\ board.result = "BYE_HALF"

StandingsMatchResults ==
  Calm /\ rounds # <<>> =>
    standings = [p \in Numbered |->
                   2 * Cardinality(BoardsWhere(LAMBDA board : WonBy(board, p)))
                   + Cardinality(BoardsWhere(LAMBDA board : DrawnBy(board, p)))]

\* The section never holds more players than it may.
NotOverfull == Cardinality({p \in DOMAIN regs : ~regs[p].withdrawn}) <= MaxPlayers

\* The numbers are given before the first round and do not change afterwards.
NumbersFrozen == [][rounds # <<>> => Numbered' = Numbered]_vars

\* A result that stands is changed only by a request that gives a reason.
ChangesHaveReasons ==
  [][\A i \in DOMAIN rounds : \A b \in DOMAIN rounds[i].boards :
       LET before == rounds[i].boards[b].result IN
       before # "UNPLAYED" /\ rounds'[i].boards[b].result # before =>
         \E r \in Requests : pc[r] = "enter" /\ pc'[r] # "enter" /\ loc[r].reason]_vars

\* COMPLETED and CANCELLED are terminal.
StatusFollowsMachine == [][tstatus' = tstatus \/ tstatus' \in Successors[tstatus]]_vars

\* RoundCompleted is enqueued once for a round.
AnnouncedOnce == \A i \in 1..MaxRounds : announced[i] <= 1

\* Rounds and results change only while the tournament is in progress.
OnlyInProgress == [][rounds' # rounds => tstatus = "IN_PROGRESS"]_vars
=============================================================================
