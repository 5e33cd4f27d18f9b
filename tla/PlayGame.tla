------------------------------ MODULE PlayGame ------------------------------
(***************************************************************************)
(* One online game (modules/play): the row and the move log in PostgreSQL, *)
(* the live clock and the draw-offer flag in Redis, and the requests that  *)
(* read and write them.  A request runs from one `await' to the next, so   *)
(* every database or Redis call is a step of its own and requests of both  *)
(* players, of the flag timers and of the sweepers interleave freely.      *)
(*                                                                         *)
(* A position is abstracted to its side to move, which the number of plies *)
(* determines, and to which sides still have mating material.  Whether a   *)
(* move is legal and whether it ends the game is a choice of Append.       *)
(*                                                                         *)
(* Of two definitions of one thing the first is a plausible mistake: the   *)
(* second is the code's, and the specification uses no other.              *)
(***************************************************************************)
EXTENDS ChessClock, Sequences

CONSTANTS
  Cfg,        \* clock configuration of the game (clockConfig(game))
  Requests,   \* slots for requests in flight
  Handles,    \* [Requests -> SUBSET Kinds]: what a slot may run
  Actors,     \* who sends player requests: the sides, and perhaps a stranger
  Null,
  MaxTime,    \* bound: the wall clock stops here
  Horizon,    \* bound: players send no move after this time
  MaxPly,     \* bound: players send no move once the log is this long
  MaxCrashes, \* bound: requests that die between two awaits
  MaxLosses   \* bound: times Redis loses the game's keys

PlayerKinds == {"move", "resign", "offer", "accept", "abort", "claim"}
ServerKinds == {"flag", "abandon"}
Kinds == PlayerKinds \cup ServerKinds
Timed == {"move", "claim", "flag"}   \* handlers that read the time first

ASSUME CfgAssumption == Cfg \in ClockConfig
ASSUME HandlesAssumption == Handles \in [Requests -> SUBSET Kinds]
ASSUME ActorsAssumption == Sides \subseteq Actors
ASSUME NullAssumption == Null \notin Sides
ASSUME BoundsAssumption ==
  {MaxTime, Horizon, MaxPly, MaxCrashes, MaxLosses} \subseteq Nat

VARIABLES
  now,      \* Date.now()
  row,      \* the OnlineGame row
  moves,    \* the Move rows, by ply
  clock,    \* game:clock:{id}: a versioned ClockState, or Null
  draw,     \* game:draw:{id}: who offers a draw (and since which ply), or Null
  pc,       \* the await each request is stopped at
  loc,      \* the local variables of each request
  audit,    \* number of 'game.finished' audit rows
  emitted,  \* number of PLAY_GAME_FINISHED_EVENTs
  crashes, losses,
  alone     \* so far no request of the game has begun before another was over

db    == <<row, moves, audit>>
redis == <<clock, draw>>
vars  == <<now, row, moves, clock, draw, pc, loc, audit, emitted, crashes, losses,
           alone>>

PositionEnds == {"CHECKMATE", "POSITION_DRAW"}
Statuses == {"ACTIVE", "RESIGNATION", "DRAW_AGREED", "ABORTED", "TIMEOUT",
             "TIMEOUT_VS_INSUFFICIENT_MATERIAL", "ABANDONED"} \cup PositionEnds

Verdict == [status : Statuses \ {"ACTIVE"}, winner : Sides \cup {Null}]
Labels == {"idle", "create", "find", "offered", "getoffer", "load", "rebuild",
           "append", "init", "cas", "heal", "cleardraw", "list", "read",
           "pgn", "finish", "clear", "emit"}

Active == row.status = "ACTIVE"

\* UPDATE ... WHERE id = ... AND status = 'ACTIVE' matches the row.
AnyRow == TRUE
WhereActive == Active

\* sideToMove(fen) after n plies, and the side that made ply n.
Turn(n) == IF n % 2 = 0 THEN "w" ELSE "b"
MoverOf(n) == Other(Turn(n))

\* The clockAfterMs of the last move of a side, baseMs before its first.
LastLeft(log, side) ==
  LET n == IF MoverOf(Len(log)) = side THEN Len(log) ELSE Len(log) - 1
  IN  IF n < 1 THEN Cfg.base ELSE log[n].left

\* reconstructClock: the clock rebuilt from the log; time lost is forgiven.
Reconstruct(log, turn, at) ==
  [left |-> [s \in Sides |-> LastLeft(log, s)], turn |-> turn, last |-> at]

\* FIDE 6.9: a flag against a side that cannot mate is a draw.
TimeoutByLoserMaterial(loser, mat) ==
  IF mat[loser]
  THEN [status |-> "TIMEOUT", winner |-> Other(loser)]
  ELSE [status |-> "TIMEOUT_VS_INSUFFICIENT_MATERIAL", winner |-> Null]
TimeoutOf(loser, mat) ==
  IF mat[Other(loser)]
  THEN [status |-> "TIMEOUT", winner |-> Other(loser)]
  ELSE [status |-> "TIMEOUT_VS_INSUFFICIENT_MATERIAL", winner |-> Null]

-----------------------------------------------------------------------------
(* Requests: local state and control. *)

Blank == [kind |-> "flag", actor |-> "w", at |-> 0, ply |-> 0, seen |-> 0,
          mat |-> [s \in Sides |-> TRUE], ver |-> 0,
          st |-> CreateClock(Cfg, "w", 0), fin |-> Null]

Quiet == \A r \in Requests : pc[r] = "idle"

\* The request runs on to its next await.  One that begins beside another overlaps it.
Goto(r, label, l) ==
  /\ pc' = [pc EXCEPT ![r] = label]
  /\ loc' = [loc EXCEPT ![r] = l]
  /\ alone' = (alone /\ (pc[r] = "idle" => Quiet))

\* The request is over: it replied, was rejected, or threw.
Reply(r) == Goto(r, "idle", Blank)

At(r, label) == pc[r] = label

\* A local step: nothing outside the request changes.
Local == UNCHANGED <<now, db, redis, emitted, crashes, losses>>

Init ==
  /\ now = 0
  /\ row = [status |-> "ACTIVE", winner |-> Null, left |-> Null, pgn |-> Null,
            mat |-> [s \in Sides |-> TRUE]]
  /\ moves = <<>>
  /\ clock = Null /\ draw = Null
  /\ \E creator \in Requests :
       pc = [r \in Requests |-> IF r = creator THEN "create" ELSE "idle"]
  /\ loc = [r \in Requests |-> Blank]
  /\ audit = 0 /\ emitted = 0 /\ crashes = 0 /\ losses = 0
  /\ alone = TRUE

\* createGameWithClock: the row exists, now the clock entry is written.
Create(r) ==
  /\ At(r, "create")
  /\ clock' = [ver |-> 1, st |-> loc[r].st]
  /\ Reply(r)
  /\ UNCHANGED <<now, db, draw, emitted, crashes, losses>>

\* A request arrives.  makeMove, claimTimeout and checkFlag read the time first.
Begin(r) ==
  /\ At(r, "idle")
  /\ \E kind \in Handles[r] \ {"abandon"}, actor \in Actors :
       /\ kind = "move" => now <= Horizon /\ Len(moves) < MaxPly
       /\ kind = "flag" => actor = "w"   \* checkFlag has no actor
       /\ Goto(r, "find", [Blank EXCEPT !.kind = kind, !.actor = actor,
                             !.at = IF kind \in Timed THEN now ELSE 0])
  /\ Local

\* abandonAfterDisconnect(goneSide, opponentConnected).
BeginAbandon(r) ==
  /\ At(r, "idle")
  /\ "abandon" \in Handles[r]
  /\ \E gone \in Sides : \E winner \in {Other(gone), Null} :
       Goto(r, "find", [Blank EXCEPT !.kind = "abandon", !.actor = gone,
                          !.fin = [status |-> "ABANDONED", winner |-> winner]])
  /\ Local

-----------------------------------------------------------------------------
(* repo.findGame, and what each handler does with the row it read. *)

\* The row as the request now remembers it.
Snapshot(r) == [loc[r] EXCEPT !.ply = Len(moves), !.mat = row.mat]

\* The game is active and the user is one of its players.
Admitted(l) == Active /\ l.actor \in Sides

\* The start of finishNoMove: it reads the time again.
BeginFinish(r, l, verdict) ==
  Goto(r, "list", [Blank EXCEPT !.ply = l.ply, !.at = now, !.fin = verdict])

Find(r, kind) == At(r, "find") /\ loc[r].kind = kind /\ Local

\* makeMove: White's first move is free and starts Black's clock.
FindForMove(r) ==
  /\ Find(r, "move")
  /\ LET l == Snapshot(r) IN
     IF ~Admitted(l) \/ Turn(l.ply) # l.actor THEN Reply(r)
     ELSE IF l.ply = 0
       THEN Goto(r, "append", [l EXCEPT !.st = CreateClock(Cfg, "b", l.at)])
       ELSE Goto(r, "load", l)

FindForResign(r) ==
  /\ Find(r, "resign")
  /\ LET l == Snapshot(r) IN
     IF ~Admitted(l) THEN Reply(r)
     ELSE BeginFinish(r, l, [status |-> "RESIGNATION", winner |-> Other(l.actor)])

FindForOffer(r) ==
  /\ Find(r, "offer")
  /\ LET l == Snapshot(r) IN
     IF ~Admitted(l) THEN Reply(r) ELSE Goto(r, "offered", loc[r])

FindForAccept(r) ==
  /\ Find(r, "accept")
  /\ LET l == Snapshot(r) IN
     IF ~Admitted(l) THEN Reply(r)
     ELSE Goto(r, "getoffer", [loc[r] EXCEPT !.ply = l.ply])

\* abort: only before the second move.
AbortOpen(ply) == ply < 2

FindForAbort(r) ==
  /\ Find(r, "abort")
  /\ LET l == Snapshot(r) IN
     IF ~Admitted(l) \/ ~AbortOpen(l.ply) THEN Reply(r)
     ELSE BeginFinish(r, l, [status |-> "ABORTED", winner |-> Null])

\* claimTimeout: the clock does not run before White's first move.
FindForClaim(r) ==
  /\ Find(r, "claim")
  /\ LET l == Snapshot(r) IN
     IF ~Admitted(l) \/ l.ply = 0 THEN Reply(r) ELSE Goto(r, "load", l)

\* checkFlag, from a flag timer or from sweepExpiredFlags.
FindForFlag(r) ==
  /\ Find(r, "flag")
  /\ LET l == Snapshot(r) IN
     IF ~Active \/ l.ply = 0 THEN Reply(r) ELSE Goto(r, "load", l)

\* abandonAfterDisconnect, from a grace timer or from sweepAbandonedGames.
FindForAbandon(r) ==
  /\ Find(r, "abandon")
  /\ LET l == Snapshot(r) IN
     IF ~Active THEN Reply(r) ELSE BeginFinish(r, l, l.fin)

FindGame(r) ==
  \/ FindForMove(r) \/ FindForResign(r) \/ FindForOffer(r) \/ FindForAccept(r)
  \/ FindForAbort(r) \/ FindForClaim(r) \/ FindForFlag(r) \/ FindForAbandon(r)

-----------------------------------------------------------------------------
(* The clock as makeMove, claimTimeout and checkFlag use it. *)

\* finishByTimeout, with the board the request read: FIDE 6.9 is decided here.
BeginTimeout(r, l, loser, st) ==
  Goto(r, "pgn", [Blank EXCEPT !.st = st, !.fin = TimeoutOf(loser, l.mat)])

\* makeMove: a move that arrives after the flag fell ends the game.
WeighMove(r, l, st) ==
  /\ l.kind = "move"
  /\ LET a == ApplyMove(Cfg, st, l.at) IN
     IF a.flagged THEN BeginTimeout(r, l, l.actor, a.state)
                  ELSE Goto(r, "append", [l EXCEPT !.st = a.state])

\* claimTimeout: the opponent's clock decides, whoever is to move.

WeighClaim(r, l, st) ==
  /\ l.kind = "claim"
  /\ LET opponent == Other(l.actor) IN
     IF Remaining(Cfg, st, opponent, l.at) > 0 THEN Reply(r)
     ELSE BeginTimeout(r, l, opponent, [st EXCEPT !.left[opponent] = 0])

\* checkFlag: the side the clock says is to move.
WeighFlagOfOther(r, l, st) ==
  /\ l.kind = "flag"
  /\ IF Remaining(Cfg, st, Other(st.turn), l.at) > 0 THEN Reply(r)
     ELSE BeginTimeout(r, l, st.turn, AfterFlag(st))

WeighFlag(r, l, st) ==
  /\ l.kind = "flag"
  /\ IF Remaining(Cfg, st, st.turn, l.at) > 0 THEN Reply(r)
     ELSE BeginTimeout(r, l, st.turn, AfterFlag(st))

Weigh(r, l, st) == WeighMove(r, l, st) \/ WeighClaim(r, l, st) \/ WeighFlag(r, l, st)

LoadClock(r) ==
  /\ At(r, "load")
  /\ IF clock = Null THEN Goto(r, "rebuild", loc[r])
     ELSE Weigh(r, [loc[r] EXCEPT !.ver = clock.ver], clock.st)
  /\ Local

\* No entry: listMoves and reconstructClock.  Only a move writes it back.
RebuildClock(r) ==
  /\ At(r, "rebuild")
  /\ Weigh(r, loc[r], Reconstruct(moves, Turn(loc[r].ply), loc[r].at))
  /\ Local

-----------------------------------------------------------------------------
(* appendMove and the Redis writes that follow it. *)

\* validateMove rejects the move.
RejectIllegal(r) == At(r, "append") /\ Reply(r) /\ Local

\* The unique (gameId, ply) key is free and the game is on.
CanAppendAnyPly(ply)     == WhereActive
CanAppendToAnyGame(ply)  == Len(moves) = ply
CanAppend(ply)           == Len(moves) = ply /\ WhereActive

\* Otherwise the transaction rolls back: stale_seq.
AppendConflict(r) ==
  /\ At(r, "append")
  /\ ~CanAppend(loc[r].ply)
  /\ Reply(r)
  /\ Local

\* clockAfterMs of the new move: what the mover has left.
LoggedLeftOfOther(l) == l.st.left[Other(l.actor)]
LoggedLeft(l) == l.st.left[l.actor]

\* The row after a move that ends the game; the PGN has that move too.
RowEndedByMove(l, end, log, mat) ==
  [status |-> end, winner |-> IF end = "CHECKMATE" THEN l.actor ELSE Null,
   left |-> l.st.left, pgn |-> Len(log), mat |-> mat]

\* The move row, the position and, if the move ends the game, the verdict and
\* the audit row, in one transaction.  A capture may cost the opponent its
\* mating material.
AppendMove(r) ==
  LET l == loc[r]
      appended == Append(moves, [side |-> l.actor, left |-> LoggedLeft(l), at |-> l.at])
  IN
  /\ At(r, "append")
  /\ CanAppend(l.ply)
  /\ \E end \in {"ACTIVE"} \cup PositionEnds, mates \in BOOLEAN :
       LET mat == [l.mat EXCEPT ![Other(l.actor)] = @ /\ mates] IN
       IF end = "ACTIVE"
       THEN /\ row' = [row EXCEPT !.mat = mat]
            /\ Goto(r, IF l.ver = 0 THEN "init" ELSE "cas",
                    [Blank EXCEPT !.ver = l.ver, !.st = l.st])
            /\ audit' = audit
       ELSE /\ row' = RowEndedByMove(l, end, appended, mat)
            /\ Goto(r, "clear", Blank)
            /\ audit' = audit + 1
  /\ moves' = appended
  /\ UNCHANGED <<now, redis, emitted, crashes, losses>>

\* ClockStore.init after the first move or after a rebuild: a plain SET.
InitClock(r) ==
  /\ At(r, "init")
  /\ clock' = [ver |-> 1, st |-> loc[r].st]
  /\ Goto(r, "cleardraw", Blank)
  /\ UNCHANGED <<now, db, draw, emitted, crashes, losses>>

\* ClockStore.update: compare-and-set on the version the request loaded.
UpdateClock(r) ==
  LET matches == clock # Null /\ clock.ver = loc[r].ver IN
  /\ At(r, "cas")
  /\ clock' = IF matches THEN [ver |-> clock.ver + 1, st |-> loc[r].st] ELSE clock
  /\ Goto(r, IF matches THEN "cleardraw" ELSE "heal", Blank)
  /\ UNCHANGED <<now, db, draw, emitted, crashes, losses>>

\* The self-heal of a failed compare-and-set: the entry is dropped.
HealClock(r) ==
  /\ At(r, "heal")
  /\ clock' = Null /\ draw' = Null
  /\ Goto(r, "cleardraw", Blank)
  /\ UNCHANGED <<now, db, emitted, crashes, losses>>

\* A move declines any standing draw offer.
ClearDrawForgotten(r) ==
  /\ At(r, "cleardraw")
  /\ Reply(r)
  /\ Local
ClearDraw(r) ==
  /\ At(r, "cleardraw")
  /\ draw' = Null
  /\ Reply(r)
  /\ UNCHANGED <<now, db, clock, emitted, crashes, losses>>

-----------------------------------------------------------------------------
(* Draw offers. *)

SetOffer(r) ==
  /\ At(r, "offered")
  /\ draw' = [by |-> loc[r].actor, ply |-> Len(moves)]
  /\ Reply(r)
  /\ UNCHANGED <<now, db, clock, emitted, crashes, losses>>

\* acceptDraw: only a standing offer of the other side can be accepted.
Acceptable(side) == draw # Null /\ draw.by # side

GetOffer(r) ==
  /\ At(r, "getoffer")
  /\ IF ~Acceptable(loc[r].actor) THEN Reply(r)
     ELSE BeginFinish(r, loc[r], [status |-> "DRAW_AGREED", winner |-> Null])
  /\ Local

-----------------------------------------------------------------------------
(* finishNoMove, finishByTimeout and finishGame. *)

\* finishNoMove: listMoves, for the PGN and for a possible rebuild.
ListMoves(r) ==
  /\ At(r, "list")
  /\ Goto(r, "read", [loc[r] EXCEPT !.seen = Len(moves),
                        !.st = Reconstruct(moves, Turn(loc[r].ply), loc[r].at)])
  /\ Local

\* finishNoMove: the final clock, live at the time the handler read.
ReadClock(r) ==
  LET l  == loc[r]
      st == IF clock = Null THEN l.st ELSE clock.st
      final(s) == IF l.ply = 0 THEN Cfg.base ELSE Remaining(Cfg, st, s, l.at)
  IN
  /\ At(r, "read")
  /\ Goto(r, "finish", [l EXCEPT !.st = [left |-> [s \in Sides |-> final(s)],
                                         turn |-> st.turn, last |-> l.at],
                                  !.ply = 0, !.at = 0])
  /\ Local

\* finishByTimeout: listMoves, for the PGN.
ListForPgn(r) ==
  /\ At(r, "pgn")
  /\ Goto(r, "finish", [loc[r] EXCEPT !.seen = Len(moves)])
  /\ Local

\* The game is over already: idempotent, nobody announces it again.
FinishLostAnnounces(r) ==
  At(r, "finish") /\ ~WhereActive /\ Goto(r, "clear", Blank) /\ Local
FinishLost(r) ==
  At(r, "finish") /\ ~WhereActive /\ Reply(r) /\ Local

\* UPDATE ... WHERE status = 'ACTIVE' and the audit row, in one transaction.
FinishGame(r) ==
  LET l == loc[r] IN
  /\ At(r, "finish")
  /\ WhereActive
  /\ row' = [status |-> l.fin.status, winner |-> l.fin.winner,
             left |-> l.st.left, pgn |-> l.seen, mat |-> row.mat]
  /\ audit' = audit + 1
  /\ Goto(r, "clear", Blank)
  /\ UNCHANGED <<now, moves, redis, emitted, crashes, losses>>

\* ClockStore.clear after the end of the game.
ClearClockSilently(r) ==
  /\ At(r, "clear")
  /\ clock' = Null /\ draw' = Null
  /\ Reply(r)
  /\ UNCHANGED <<now, db, emitted, crashes, losses>>
ClearClock(r) ==
  /\ At(r, "clear")
  /\ clock' = Null /\ draw' = Null
  /\ Goto(r, "emit", Blank)
  /\ UNCHANGED <<now, db, emitted, crashes, losses>>

\* emitFinished, and the caller's broadcast of game:ended.
EmitFinished(r) ==
  /\ At(r, "emit")
  /\ emitted' = emitted + 1
  /\ Reply(r)
  /\ UNCHANGED <<now, db, redis, crashes, losses>>

-----------------------------------------------------------------------------
(* The environment. *)

Tick ==
  /\ now < MaxTime
  /\ now' = now + 1
  /\ UNCHANGED <<db, redis, pc, loc, emitted, crashes, losses, alone>>

\* A request dies between two awaits: an exception or the instance is killed.
Crash(r) ==
  /\ pc[r] # "idle"
  /\ crashes < MaxCrashes
  /\ crashes' = crashes + 1
  /\ Reply(r)
  /\ UNCHANGED <<now, db, redis, emitted, losses>>

\* Redis loses the game's keys: restart, eviction or the 24-hour TTL.
LoseRedis ==
  /\ clock # Null
  /\ losses < MaxLosses
  /\ losses' = losses + 1
  /\ clock' = Null /\ draw' = Null
  /\ UNCHANGED <<now, db, pc, loc, emitted, crashes, alone>>

\* The next await of the request completes.
Advance(r) ==
  \/ Create(r) \/ FindGame(r) \/ LoadClock(r) \/ RebuildClock(r)
  \/ RejectIllegal(r) \/ AppendConflict(r) \/ AppendMove(r)
  \/ InitClock(r) \/ UpdateClock(r) \/ HealClock(r) \/ ClearDraw(r)
  \/ SetOffer(r) \/ GetOffer(r) \/ ListMoves(r) \/ ReadClock(r) \/ ListForPgn(r)
  \/ FinishLost(r) \/ FinishGame(r) \/ ClearClock(r) \/ EmitFinished(r)

Next ==
  \/ \E r \in Requests : Begin(r) \/ BeginAbandon(r) \/ Advance(r) \/ Crash(r)
  \/ Tick
  \/ LoseRedis

Spec == Init /\ [][Next]_vars

-----------------------------------------------------------------------------
(* Properties. *)

Verdicts == Verdict \cup {Null}
MoveRow == [side : Sides, left : Nat, at : Nat]
ClockEntry == [ver : Nat \ {0}, st : ClockState]
Row == [status : Statuses, winner : Sides \cup {Null},
        left : [Sides -> Nat] \cup {Null}, pgn : Nat \cup {Null},
        mat : [Sides -> BOOLEAN]]
Locals == [kind : Kinds, actor : Actors, at : Nat, ply : Nat, seen : Nat,
           mat : [Sides -> BOOLEAN], ver : Nat, st : ClockState, fin : Verdicts]

\* The row, the log, the Redis keys and every request are well formed.
TypeOK ==
  /\ now \in Nat /\ audit \in Nat /\ emitted \in Nat
  /\ crashes \in Nat /\ losses \in Nat /\ alone \in BOOLEAN
  /\ row \in Row
  /\ moves \in Seq(MoveRow)
  /\ clock \in ClockEntry \cup {Null}
  /\ draw \in [by : Actors, ply : Nat] \cup {Null}
  /\ pc \in [Requests -> Labels]
  /\ loc \in [Requests -> Locals]

\* However many requests race to end the game, exactly one ends it: one audit
\* row, and at most one game-finished event and broadcast (repository.finishGame,
\* appendMove: WHERE status = 'ACTIVE').
SingleFinish ==
  /\ audit = IF Active THEN 0 ELSE 1
  /\ emitted <= audit

\* Only a request that dies on its way from finishGame to emitFinished can
\* leave a finished game unannounced.
EndIsAnnounced == Quiet /\ ~Active => emitted + crashes >= 1

\* Whatever requests overlap, ply n is White's for odd n and Black's for even
\* n: the turn check on a possibly old row plus the unique (gameId, ply) key.
TurnsAlternate == \A n \in 1..Len(moves) : moves[n].side = MoverOf(n)

\* A finished game never changes: neither its verdict nor its moves.
GameOverIsFinal == [][~Active => UNCHANGED <<row, moves>>]_vars

\* The clock the move log implies: what each side had left after its last
\* move, running since the last move arrived.
LogClock ==
  [left |-> [s \in Sides |-> LastLeft(moves, s)],
   turn |-> Turn(Len(moves)),
   last |-> IF moves = <<>> THEN 0 ELSE moves[Len(moves)].at]

\* Between requests the Redis entry is the clock the log implies: same side to move,
\* same times.
CacheMatchesLog == Quiet /\ Active /\ clock # Null => clock.st = LogClock

\* Between requests the Redis entry runs for the side that is to move: a failed
\* compare-and-set drops the entry, so a lost race cannot leave a wrong one.
CacheTurnHeals == Quiet /\ Active /\ clock # Null => clock.st.turn = Turn(Len(moves))

\* No move is charged more than the time since the previous one, and every move
\* earns its increment: Redis losses give time away and never take it.
NeverOvercharged ==
  \A n \in 2..Len(moves) :
    moves[n].left >= LastLeft(SubSeq(moves, 1, n - 1), moves[n].side)
                     - Chargeable(Cfg, NonNegative(moves[n].at - moves[n - 1].at))
                     + Increment(Cfg)

TimedOut(loser) == row.status = "TIMEOUT" /\ row.winner = Other(loser)

\* A side that loses on time has none left, by the log and the wall clock.
LoserHadNoTime ==
  \A s \in Sides :
    TimedOut(s) => moves # <<>> /\ Remaining(Cfg, LogClock, s, now) = 0

\* A side that loses on time had overrun it: a move that uses exactly the time
\* left is still in time (chess-clock.isFlagged).
LoserOverran == \A s \in Sides : TimedOut(s) => IsFlagged(Cfg, LogClock, now)

\* A game is aborted only before its second move.
AbortWindow == row.status = "ABORTED" => Len(moves) < 2

\* A draw is agreed only on an offer made in the position on the board: every
\* move withdraws a standing offer (makeMove: clearDrawOffer).
OfferStands ==
  Active /\ row'.status = "DRAW_AGREED" /\ losses = 0 => draw # Null /\ draw.ply = Len(moves)
DrawNeedsStandingOffer == [][OfferStands]_vars

\* Only a side that can still mate wins on time (FIDE 6.9, finishByTimeout).
TimeoutNeedsMaterial == row.status = "TIMEOUT" => row.mat[row.winner]

\* One request at a time, and none of them died.
InTurn == alone /\ crashes = 0

\* As long as requests come one at a time and none dies, the cached clock is the clock
\* of the move log whatever Redis loses, and nobody is charged more than the real time
\* of his moves (makeMove, reconstructClock).
ClockAddsUp == InTurn => CacheMatchesLog /\ NeverOvercharged

\* Then, too, who loses on time had none left, and lost it to an opponent who could have
\* mated (finishByTimeout).
TimeoutIsEarned == InTurn => LoserHadNoTime /\ TimeoutNeedsMaterial

\* Then a draw is agreed only on an offer made in the position on the board (acceptDraw).
DrawIsAgreed == [][InTurn => OfferStands]_vars

\* The PGN stored with the verdict holds every move of the game.
PgnComplete == ~Active => row.pgn = Len(moves)

\* The end of a game takes its live keys out of Redis.
RedisCleanAfterEnd == Quiet /\ ~Active => clock = Null /\ draw = Null

-----------------------------------------------------------------------------
(* The abstract life of a game, and liveness. *)

Life == INSTANCE GameLifecycle
          WITH plies <- Len(moves), over <- ~Active, announced <- emitted

\* The requests implement the life of a game: it moves on, ends once, and is
\* announced at most once, after its end.
ImplementsLifecycle == Life!Spec

\* Node completes an await once its database or Redis call returns; the
\* sweeper of a living instance comes round again; the wall clock moves.
Fairness ==
  /\ \A r \in Requests : WF_vars(Advance(r))
  /\ \A r \in Requests :
       "flag" \in Handles[r] => WF_vars(Begin(r) /\ loc'[r].kind = "flag")
  /\ WF_vars(Tick)

FairSpec == Spec /\ Fairness

\* The side to move has used up the time the log leaves it.
TimeIsUp == Active /\ moves # <<>> /\ IsFlagged(Cfg, LogClock, now)

\* A game whose clock ran out does not hang: it ends, even if nobody claims.
FlagIsDeclared == TimeIsUp ~> ~Active
=============================================================================
