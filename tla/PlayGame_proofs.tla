--------------------------- MODULE PlayGame_proofs ---------------------------
(***************************************************************************)
(* Theorems about PlayGame, for every clock configuration, every set of    *)
(* requests and every bound: type correctness, a single end of the game,   *)
(* alternating turns, the finality of the end, and the refinement of       *)
(* GameLifecycle; and, as long as requests come one at a time and none of  *)
(* them dies, that the clock in Redis is the clock of the move log, that a *)
(* flag is earned and that a draw stands, however often Redis loses its    *)
(* keys.                                                                   *)
(***************************************************************************)
EXTENDS PlayGame, SequenceTheorems, TLAPS

USE HandlesAssumption, ActorsAssumption, NullAssumption, CfgAssumption

-----------------------------------------------------------------------------
(* The chess clock. *)

\* The clock operators keep their types: charges and remaining times are
\* natural numbers (clamped at zero), and a move or a flag leaves a clock state.
LEMMA ClockTypesOK ==
  ASSUME NEW st \in ClockState, NEW at \in Int, NEW side \in Sides
  PROVE  /\ Elapsed(st, at) \in Nat
         /\ Charge(Cfg, st, at) \in Nat
         /\ Remaining(Cfg, st, side, at) \in Nat
         /\ AfterFlag(st) \in ClockState
         /\ Charge(Cfg, st, at) <= st.left[st.turn] => AfterMove(Cfg, st, at) \in ClockState
         /\ ApplyMove(Cfg, st, at).state \in ClockState
<1>1. Elapsed(st, at) \in Nat
  BY DEF Elapsed, NonNegative, ClockState
<1>2. Charge(Cfg, st, at) \in Nat
  BY <1>1 DEF Charge, Chargeable, NonNegative, ClockConfig
<1>3. st.left \in [Sides -> Nat] /\ st.turn \in Sides /\ st.last \in Int
  BY DEF ClockState
<1>4. Remaining(Cfg, st, side, at) \in Nat
  BY <1>2, <1>3 DEF Remaining, NonNegative
<1>5. AfterFlag(st) \in ClockState
  BY <1>3 DEF AfterFlag, ClockState
<1>6. ASSUME Charge(Cfg, st, at) <= st.left[st.turn]
      PROVE  AfterMove(Cfg, st, at) \in ClockState
  <2>1. Increment(Cfg) \in Nat
    BY DEF Increment, ClockConfig
  <2>2. [st.left EXCEPT ![st.turn] = @ - Charge(Cfg, st, at) + Increment(Cfg)]
          \in [Sides -> Nat]
    BY <1>2, <1>3, <1>6, <2>1
  <2>3. Other(st.turn) \in Sides
    BY DEF Other, Sides
  <2> QED
    BY <2>2, <2>3 DEF AfterMove, ClockState
<1>7. ApplyMove(Cfg, st, at).state \in ClockState
  <2>1. CASE Charge(Cfg, st, at) > st.left[st.turn]
    BY <2>1, <1>5 DEF ApplyMove
  <2>2. CASE ~(Charge(Cfg, st, at) > st.left[st.turn])
    <3>1. Charge(Cfg, st, at) <= st.left[st.turn]
      BY <2>2, <1>2, <1>3
    <3> QED
      BY <2>2, <3>1, <1>6 DEF ApplyMove
  <2> QED
    BY <2>1, <2>2
<1> QED
  BY <1>1, <1>2, <1>4, <1>5, <1>6, <1>7

\* The initial clock and the clock rebuilt from the log are clock states.
LEMMA RebuiltClockOK ==
  ASSUME NEW log \in Seq(MoveRow), NEW turn \in Sides, NEW at \in Int
  PROVE  /\ CreateClock(Cfg, turn, at) \in ClockState
         /\ Reconstruct(log, turn, at) \in ClockState
<1>1. Cfg.base \in Nat
  BY DEF ClockConfig
<1>2. \A s \in Sides : LastLeft(log, s) \in Nat
  <2> TAKE s \in Sides
  <2> DEFINE n == IF MoverOf(Len(log)) = s THEN Len(log) ELSE Len(log) - 1
  <2>1. Len(log) \in Nat
    OBVIOUS
  <2>2. CASE n < 1
    BY <2>2, <1>1 DEF LastLeft
  <2>3. CASE ~(n < 1)
    <3>1. n \in 1..Len(log)
      BY <2>1, <2>3
    <3>2. log[n] \in MoveRow
      BY <3>1
    <3> QED
      BY <2>3, <3>2 DEF LastLeft, MoveRow
  <2> QED
    BY <2>2, <2>3
<1> QED
  BY <1>1, <1>2 DEF CreateClock, Reconstruct, ClockState

-----------------------------------------------------------------------------
(* Requests: their local variables. *)

\* A fresh request has well-formed locals.
LEMMA BlankOK == Blank \in Locals
<1>1. "w" \in Sides /\ "w" \in Actors /\ "flag" \in Kinds
  BY DEF Sides, Kinds, ServerKinds
<1>2. CreateClock(Cfg, "w", 0) \in ClockState
  BY <1>1 DEF CreateClock, ClockConfig, ClockState
<1> QED
  BY <1>1, <1>2 DEF Blank, Locals, Verdicts

\* The parts of TypeOK that a request's control and locals make up.
RequestsOK ==
  /\ pc \in [Requests -> Labels] /\ loc \in [Requests -> Locals]
  /\ alone \in BOOLEAN

\* A jump with well-formed locals leaves the requests well formed.
LEMMA GotoOK ==
  ASSUME RequestsOK, NEW r \in Requests, NEW label \in Labels, NEW l \in Locals,
         Goto(r, label, l)
  PROVE  RequestsOK'
BY DEF RequestsOK, Goto

\* A reply leaves the requests well formed.
LEMMA ReplyOK ==
  ASSUME RequestsOK, NEW r \in Requests, Reply(r)
  PROVE  RequestsOK'
<1>1. "idle" \in Labels
  BY DEF Labels
<1> QED
  BY <1>1, BlankOK, GotoOK DEF Reply

\* A request that arrives has well-formed locals.
LEMMA ArrivalOK ==
  ASSUME NEW k \in Kinds, NEW a \in Actors, NEW n \in Nat
  PROVE  [Blank EXCEPT !.kind = k, !.actor = a, !.at = n] \in Locals
BY BlankOK DEF Locals

\* Moving a field of the locals within its type keeps them well formed.
LEMMA LocalsOK ==
  ASSUME NEW l \in Locals
  PROVE  /\ \A k \in Kinds, a \in Actors, v \in Verdicts :
              [l EXCEPT !.kind = k, !.actor = a, !.fin = v] \in Locals
         /\ \A n \in Nat, mat \in [Sides -> BOOLEAN] :
              [l EXCEPT !.ply = n, !.mat = mat] \in Locals
         /\ \A n \in Nat, at \in Nat, v \in Verdicts :
              [l EXCEPT !.ply = n, !.at = at, !.fin = v] \in Locals
         /\ \A n \in Nat : [l EXCEPT !.ply = n] \in Locals
         /\ \A n \in Nat : [l EXCEPT !.ver = n] \in Locals
         /\ \A n \in Nat : [l EXCEPT !.seen = n] \in Locals
         /\ \A st \in ClockState : [l EXCEPT !.st = st] \in Locals
         /\ \A st \in ClockState, v \in Verdicts : [l EXCEPT !.st = st, !.fin = v] \in Locals
         /\ \A st \in ClockState, n \in Nat : [l EXCEPT !.ver = n, !.st = st] \in Locals
         /\ \A st \in ClockState, n \in Nat : [l EXCEPT !.seen = n, !.st = st] \in Locals
         /\ \A st \in ClockState, n \in Nat, at \in Nat :
              [l EXCEPT !.st = st, !.ply = n, !.at = at] \in Locals
BY DEF Locals

-----------------------------------------------------------------------------
(* Type correctness. *)

\* The rest of TypeOK: the row, the log, the Redis keys and the counters.
DataOK ==
  /\ now \in Nat /\ audit \in Nat /\ emitted \in Nat
  /\ crashes \in Nat /\ losses \in Nat
  /\ row \in Row
  /\ moves \in Seq(MoveRow)
  /\ clock \in ClockEntry \cup {Null}
  /\ draw \in [by : Actors, ply : Nat] \cup {Null}

\* A local step leaves the data well formed.
LEMMA LocalOK == DataOK /\ Local => DataOK'
BY DEF DataOK, Local, db, redis

\* What a request reads in one go is well formed.
LEMMA SnapshotOK ==
  ASSUME DataOK, RequestsOK, NEW r \in Requests
  PROVE  /\ Snapshot(r) \in Locals
         /\ Snapshot(r).ply \in Nat /\ Turn(Snapshot(r).ply) \in Sides
         /\ Reconstruct(moves, Turn(loc[r].ply), loc[r].at) \in ClockState
<1>1. loc[r] \in Locals
  BY DEF RequestsOK
<1>2. Len(moves) \in Nat /\ row.mat \in [Sides -> BOOLEAN]
  BY DEF DataOK, Row
<1>3. Snapshot(r) \in Locals
  BY <1>1, <1>2, LocalsOK DEF Snapshot
<1>4. \A n \in Nat : Turn(n) \in Sides
  BY DEF Turn, Sides
<1>5. loc[r].ply \in Nat /\ loc[r].at \in Nat /\ Snapshot(r).ply \in Nat
  BY <1>1, <1>3 DEF Locals
<1> QED
  BY <1>3, <1>4, <1>5, RebuiltClockOK DEF DataOK

\* Starting to end a game keeps the requests well formed.
LEMMA BeginFinishOK ==
  ASSUME DataOK, RequestsOK, NEW r \in Requests, NEW l \in Locals, NEW v \in Verdicts,
         BeginFinish(r, l, v)
  PROVE  RequestsOK'
<1>1. [Blank EXCEPT !.ply = l.ply, !.at = now, !.fin = v] \in Locals
  BY BlankOK, LocalsOK DEF Locals, DataOK
<1> QED
  BY <1>1, GotoOK DEF BeginFinish, Labels

\* So does starting to end it on time.
LEMMA BeginTimeoutOK ==
  ASSUME RequestsOK, NEW r \in Requests, NEW l \in Locals, NEW loser \in Sides,
         NEW st \in ClockState, BeginTimeout(r, l, loser, st)
  PROVE  RequestsOK'
<1>1. TimeoutOf(loser, l.mat) \in Verdicts
  BY DEF TimeoutOf, Verdicts, Verdict, Statuses, Other, Sides
<1>2. [Blank EXCEPT !.st = st, !.fin = TimeoutOf(loser, l.mat)] \in Locals
  BY <1>1, BlankOK, LocalsOK
<1> QED
  BY <1>2, GotoOK DEF BeginTimeout, Labels

\* And so does weighing the clock in a move, a claim or a flag check.
LEMMA WeighOK ==
  ASSUME RequestsOK, NEW r \in Requests, NEW l \in Locals, NEW st \in ClockState,
         l.kind \in {"move", "claim"} => l.actor \in Sides,
         Weigh(r, l, st)
  PROVE  RequestsOK'
<1>0. l.at \in Int /\ st.turn \in Sides
  BY DEF Locals, ClockState
<1>1. AfterFlag(st) \in ClockState
  BY <1>0, ClockTypesOK
<1>2. CASE WeighMove(r, l, st)
  <2>1. ApplyMove(Cfg, st, l.at).state \in ClockState
    BY <1>0, ClockTypesOK
  <2>2. [l EXCEPT !.st = ApplyMove(Cfg, st, l.at).state] \in Locals
    BY <2>1, LocalsOK
  <2>3. l.actor \in Sides
    BY <1>2 DEF WeighMove
  <2>4. CASE ApplyMove(Cfg, st, l.at).flagged
    BY <1>2, <2>1, <2>3, <2>4, BeginTimeoutOK DEF WeighMove
  <2>5. CASE ~ApplyMove(Cfg, st, l.at).flagged
    <3>1. Goto(r, "append", [l EXCEPT !.st = ApplyMove(Cfg, st, l.at).state])
      BY <1>2, <2>5 DEF WeighMove
    <3>2. "append" \in Labels
      BY DEF Labels
    <3> QED
      BY <2>2, <3>1, <3>2, GotoOK
  <2> QED
    BY <2>4, <2>5
<1>3. CASE WeighClaim(r, l, st)
  <2>1. Other(l.actor) \in Sides
    BY DEF Other, Sides
  <2>2. [st EXCEPT !.left[Other(l.actor)] = 0] \in ClockState
    BY <2>1 DEF ClockState
  <2>3. CASE Remaining(Cfg, st, Other(l.actor), l.at) > 0
    BY <1>3, <2>3, ReplyOK DEF WeighClaim
  <2>4. CASE ~(Remaining(Cfg, st, Other(l.actor), l.at) > 0)
    BY <1>3, <2>1, <2>2, <2>4, BeginTimeoutOK DEF WeighClaim
  <2> QED
    BY <2>3, <2>4
<1>4. CASE WeighFlag(r, l, st)
  <2>1. CASE Remaining(Cfg, st, st.turn, l.at) > 0
    BY <1>4, <2>1, ReplyOK DEF WeighFlag
  <2>2. CASE ~(Remaining(Cfg, st, st.turn, l.at) > 0)
    BY <1>0, <1>1, <1>4, <2>2, BeginTimeoutOK DEF WeighFlag
  <2> QED
    BY <2>1, <2>2
<1> QED
  BY <1>2, <1>3, <1>4 DEF Weigh

\* What TypeOK needs besides: a request that weighs the clock acts for a side
\* (a mover for the side whose turn it read), and one that ends the game
\* carries a verdict.
ControlOK(label, l) ==
  /\ label = "append" => l.kind = "move"
  /\ label \in {"load", "rebuild", "append"} =>
       /\ l.kind = "move" => l.actor = Turn(l.ply)
       /\ l.kind = "claim" => l.actor \in Sides
  /\ label = "find" /\ l.kind = "abandon" => l.fin \in Verdict
  /\ label \in {"list", "read", "pgn", "finish"} => l.fin \in Verdict

ControlInv == \A r \in Requests : ControlOK(pc[r], loc[r])

TypeInv == DataOK /\ RequestsOK /\ ControlInv

\* The initial state is well formed.
LEMMA TypeInit == Init => TypeInv
<1> SUFFICES ASSUME Init PROVE TypeInv
  OBVIOUS
<1>1. RequestsOK
  BY BlankOK DEF Init, RequestsOK, Labels
<1>2. DataOK
  <2>1. <<>> \in Seq(MoveRow)
    OBVIOUS
  <2> QED
    BY <2>1 DEF Init, DataOK, Row, Statuses
<1>3. ControlInv
  BY DEF Init, ControlInv, ControlOK
<1> QED
  BY <1>1, <1>2, <1>3 DEF TypeInv

\* What finding the row does to a request.
LEMMA FindOK ==
  ASSUME TypeInv, NEW r \in Requests, FindGame(r)
  PROVE  RequestsOK'
<1> DEFINE l == Snapshot(r)
<1>1. l \in Locals /\ loc[r] \in Locals /\ l.at \in Nat /\ l.ply \in Nat
  BY SnapshotOK DEF TypeInv, RequestsOK, Locals
<1>2. RequestsOK /\ DataOK
  BY DEF TypeInv
<1>3. {"append", "load", "offered", "getoffer"} \subseteq Labels
  BY DEF Labels
<1> HIDE DEF l
<1>4. \A w \in Sides : [status |-> "RESIGNATION", winner |-> w] \in Verdicts
  BY DEF Verdicts, Verdict, Statuses
<1>5. [status |-> "ABORTED", winner |-> Null] \in Verdicts
  BY DEF Verdicts, Verdict, Statuses
<1>6. l.fin \in Verdicts
  BY <1>1 DEF Locals
<1>7. CASE FindForMove(r)
  <2>1. CreateClock(Cfg, "b", l.at) \in ClockState
    BY <1>1 DEF CreateClock, ClockState, ClockConfig, Sides
  <2>2. [l EXCEPT !.st = CreateClock(Cfg, "b", l.at)] \in Locals
    BY <1>1, <2>1, LocalsOK
  <2> QED
    BY <1>1, <1>2, <1>3, <1>7, <2>2, GotoOK, ReplyOK DEF FindForMove, l
<1>8. CASE FindForResign(r)
  <2>1. Other(l.actor) \in Sides
    BY DEF Other, Sides
  <2> QED
    BY <1>1, <1>2, <1>4, <1>8, <2>1, BeginFinishOK, ReplyOK DEF FindForResign, l
<1>9. CASE FindForOffer(r)
  BY <1>1, <1>2, <1>3, <1>9, GotoOK, ReplyOK DEF FindForOffer
<1>10. CASE FindForAccept(r)
  <2>1. [loc[r] EXCEPT !.ply = l.ply] \in Locals
    BY <1>1, LocalsOK
  <2> QED
    BY <1>2, <1>3, <1>10, <2>1, GotoOK, ReplyOK DEF FindForAccept, l
<1>11. CASE FindForAbort(r)
  BY <1>1, <1>2, <1>5, <1>11, BeginFinishOK, ReplyOK DEF FindForAbort, l
<1>12. CASE FindForClaim(r)
  BY <1>1, <1>2, <1>3, <1>12, GotoOK, ReplyOK DEF FindForClaim, l
<1>13. CASE FindForFlag(r)
  BY <1>1, <1>2, <1>3, <1>13, GotoOK, ReplyOK DEF FindForFlag, l
<1>14. CASE FindForAbandon(r)
  BY <1>1, <1>2, <1>6, <1>14, BeginFinishOK, ReplyOK DEF FindForAbandon, l
<1> QED
  BY <1>7, <1>8, <1>9, <1>10, <1>11, <1>12, <1>13, <1>14 DEF FindGame

\* Every step keeps the requests well formed.
LEMMA StepRequests ==
  ASSUME TypeInv, Next
  PROVE  RequestsOK'
<1>1. RequestsOK /\ DataOK
  BY DEF TypeInv
<1>2. ASSUME NEW r \in Requests, Begin(r)
      PROVE  RequestsOK'
  <2>1. PICK kind \in Handles[r] \ {"abandon"}, actor \in Actors :
          Goto(r, "find", [Blank EXCEPT !.kind = kind, !.actor = actor,
                             !.at = IF kind \in Timed THEN now ELSE 0])
    BY <1>2 DEF Begin
  <2>2. kind \in Kinds
    BY HandlesAssumption
  <2>5. (IF kind \in Timed THEN now ELSE 0) \in Nat
    BY <1>1 DEF DataOK
  <2>3. \A n \in Nat : [Blank EXCEPT !.kind = kind, !.actor = actor, !.at = n] \in Locals
    BY <2>2, ArrivalOK
  <2>4. [Blank EXCEPT !.kind = kind, !.actor = actor,
           !.at = IF kind \in Timed THEN now ELSE 0] \in Locals
    BY <2>5, <2>3
  <2> QED
    BY <1>1, <2>1, <2>4, GotoOK DEF Labels
<1>3. ASSUME NEW r \in Requests, BeginAbandon(r)
      PROVE  RequestsOK'
  <2>0. PICK gone \in Sides : \E winner \in {Other(gone), Null} :
          Goto(r, "find", [Blank EXCEPT !.kind = "abandon", !.actor = gone,
                             !.fin = [status |-> "ABANDONED", winner |-> winner]])
    BY <1>3 DEF BeginAbandon
  <2>1. PICK winner \in {Other(gone), Null} :
          Goto(r, "find", [Blank EXCEPT !.kind = "abandon", !.actor = gone,
                             !.fin = [status |-> "ABANDONED", winner |-> winner]])
    BY <2>0
  <2>2. gone \in Actors /\ "abandon" \in Kinds
    BY ActorsAssumption DEF Kinds, ServerKinds
  <2>3. [status |-> "ABANDONED", winner |-> winner] \in Verdicts
    BY DEF Verdicts, Verdict, Statuses, Other, Sides
  <2>4. [Blank EXCEPT !.kind = "abandon", !.actor = gone,
           !.fin = [status |-> "ABANDONED", winner |-> winner]] \in Locals
    BY <2>2, <2>3, BlankOK, LocalsOK
  <2> QED
    BY <1>1, <2>1, <2>4, GotoOK DEF Labels
<1>4. ASSUME NEW r \in Requests, Advance(r)
      PROVE  RequestsOK'
  <2> DEFINE l == loc[r]
  <2>1. l \in Locals /\ l.st \in ClockState /\ l.ply \in Nat /\ l.at \in Nat
    BY <1>1 DEF RequestsOK, Locals
  <2>2. Len(moves) \in Nat
    BY <1>1 DEF DataOK
  <2>3. CASE Create(r)
    BY <1>1, <2>3, ReplyOK DEF Create
  <2>4. CASE FindGame(r)
    BY <2>4, FindOK
  <2>5. CASE LoadClock(r)
    <3>1. CASE clock = Null
      BY <1>1, <2>1, <2>5, <3>1, GotoOK DEF LoadClock, Labels
    <3>2. CASE clock # Null
      <4>1. clock.ver \in Nat /\ clock.st \in ClockState
        BY <1>1, <3>2 DEF DataOK, ClockEntry
      <4> DEFINE m == [l EXCEPT !.ver = clock.ver]
      <4>2. m \in Locals
        BY <2>1, <4>1, LocalsOK
      <4>3. m.kind = l.kind /\ m.actor = l.actor /\ m.ply = l.ply
        BY <2>1 DEF Locals
      <4>4. Weigh(r, m, clock.st)
        BY <2>5, <3>2 DEF LoadClock
      <4>5. l.kind \in {"move", "claim"} => l.actor \in Sides
        BY <2>1, <2>5 DEF TypeInv, ControlInv, ControlOK, LoadClock, At, Turn, Sides
      <4> HIDE DEF m, l
      <4> QED
        BY <1>1, <4>1, <4>2, <4>3, <4>4, <4>5, WeighOK
    <3> QED
      BY <3>1, <3>2
  <2>6. CASE RebuildClock(r)
    <3>1. Reconstruct(moves, Turn(l.ply), l.at) \in ClockState
      BY <1>1, SnapshotOK
    <3>2. l.kind \in {"move", "claim"} => l.actor \in Sides
      BY <2>1, <2>6 DEF TypeInv, ControlInv, ControlOK, RebuildClock, At, Turn, Sides
    <3> QED
      BY <1>1, <2>1, <2>6, <3>1, <3>2, WeighOK DEF RebuildClock
  <2>7. CASE RejectIllegal(r) \/ AppendConflict(r)
    BY <1>1, <2>7, ReplyOK DEF RejectIllegal, AppendConflict
  <2>8. CASE AppendMove(r)
    <3>1. l.ver \in Nat
      BY <2>1 DEF Locals
    <3>2. [Blank EXCEPT !.ver = l.ver, !.st = l.st] \in Locals
      BY <2>1, <3>1, BlankOK, LocalsOK
    <3>3. {"init", "cas", "clear"} \subseteq Labels
      BY DEF Labels
    <3>4. \/ Goto(r, "clear", Blank)
          \/ Goto(r, IF l.ver = 0 THEN "init" ELSE "cas", [Blank EXCEPT !.ver = l.ver, !.st = l.st])
      BY <2>8 DEF AppendMove
    <3> QED
      BY <1>1, <3>2, <3>3, <3>4, BlankOK, GotoOK
  <2>9. CASE InitClock(r) \/ UpdateClock(r) \/ HealClock(r)
    BY <1>1, <2>9, BlankOK, GotoOK DEF InitClock, UpdateClock, HealClock, Labels
  <2>10. CASE ClearDraw(r) \/ SetOffer(r) \/ FinishLost(r) \/ EmitFinished(r)
    BY <1>1, <2>10, ReplyOK DEF ClearDraw, SetOffer, FinishLost, EmitFinished
  <2>11. CASE GetOffer(r)
    <3>1. [status |-> "DRAW_AGREED", winner |-> Null] \in Verdicts
      BY DEF Verdicts, Verdict, Statuses
    <3> QED
      BY <1>1, <2>1, <2>11, <3>1, BeginFinishOK, ReplyOK DEF GetOffer
  <2>12. CASE ListMoves(r)
    <3>1. Reconstruct(moves, Turn(l.ply), l.at) \in ClockState
      BY <1>1, SnapshotOK
    <3>2. [l EXCEPT !.seen = Len(moves), !.st = Reconstruct(moves, Turn(l.ply), l.at)] \in Locals
      BY <2>1, <2>2, <3>1, LocalsOK
    <3> QED
      BY <1>1, <2>12, <3>2, GotoOK DEF ListMoves, Labels
  <2>13. CASE ReadClock(r)
    <3> DEFINE st == IF clock = Null THEN l.st ELSE clock.st
               final(s) == IF l.ply = 0 THEN Cfg.base ELSE Remaining(Cfg, st, s, l.at)
               end == [left |-> [s \in Sides |-> final(s)], turn |-> st.turn, last |-> l.at]
    <3>1. st \in ClockState
      BY <1>1, <2>1 DEF DataOK, ClockEntry
    <3>2. \A s \in Sides : final(s) \in Nat
      <4> HIDE DEF st
      <4>1. l.at \in Int /\ Cfg.base \in Nat
        BY <2>1, CfgAssumption DEF ClockConfig
      <4> QED
        BY <4>1, <3>1, ClockTypesOK
    <3>3. end \in ClockState
      BY <2>1, <3>1, <3>2 DEF ClockState
    <3>4. [l EXCEPT !.st = end, !.ply = 0, !.at = 0] \in Locals
      BY <2>1, <3>3, LocalsOK
    <3>5. Goto(r, "finish", [l EXCEPT !.st = end, !.ply = 0, !.at = 0])
      BY <2>13 DEF ReadClock
    <3> QED
      BY <1>1, <3>4, <3>5, GotoOK DEF Labels
  <2>14. CASE ListForPgn(r)
    <3>1. [l EXCEPT !.seen = Len(moves)] \in Locals
      BY <2>1, <2>2, LocalsOK
    <3> QED
      BY <1>1, <2>14, <3>1, GotoOK DEF ListForPgn, Labels
  <2>15. CASE FinishGame(r) \/ ClearClock(r)
    BY <1>1, <2>15, BlankOK, GotoOK DEF FinishGame, ClearClock, Labels
  <2> QED
    BY <1>4, <2>3, <2>4, <2>5, <2>6, <2>7, <2>8, <2>9, <2>10, <2>11, <2>12, <2>13,
       <2>14, <2>15 DEF Advance
<1>5. ASSUME NEW r \in Requests, Crash(r)
      PROVE  RequestsOK'
  BY <1>1, <1>5, ReplyOK DEF Crash
<1>6. CASE Tick \/ LoseRedis
  BY <1>1, <1>6 DEF Tick, LoseRedis, RequestsOK
<1> QED
  BY <1>2, <1>3, <1>4, <1>5, <1>6 DEF Next

\* Every step keeps the row, the log, the Redis keys and the counters well formed.
LEMMA StepData ==
  ASSUME TypeInv, Next
  PROVE  DataOK'
<1>1. RequestsOK /\ DataOK
  BY DEF TypeInv
<1>2. ASSUME NEW r \in Requests, Advance(r)
      PROVE  DataOK'
  <2> DEFINE l == loc[r]
  <2>1. l \in Locals /\ l.st \in ClockState /\ l.actor \in Actors /\ l.st.left \in [Sides -> Nat]
    BY <1>1 DEF RequestsOK, Locals, ClockState
  <2>2. Len(moves) \in Nat /\ row \in Row /\ clock \in ClockEntry \cup {Null}
    BY <1>1 DEF DataOK
  <2>3. CASE Create(r) \/ InitClock(r)
    <3>1. [ver |-> 1, st |-> l.st] \in ClockEntry
      BY <2>1 DEF ClockEntry
    <3> QED
      BY <1>1, <2>3, <3>1 DEF Create, InitClock, DataOK, db
  <2>4. CASE Local
    BY <1>1, <2>4, LocalOK
  <2>5. CASE AppendMove(r)
    <3>1. PICK end \in {"ACTIVE"} \cup PositionEnds, mates \in BOOLEAN :
            LET mat == [l.mat EXCEPT ![Other(l.actor)] = @ /\ mates]
                log == Append(moves, [side |-> l.actor, left |-> LoggedLeft(l), at |-> l.at])
            IN  \/ row' = [row EXCEPT !.mat = mat] /\ audit' = audit
                \/ row' = RowEndedByMove(l, end, log, mat) /\ audit' = audit + 1
                   /\ end # "ACTIVE"
      BY <2>5 DEF AppendMove
    <3> DEFINE mat == [l.mat EXCEPT ![Other(l.actor)] = @ /\ mates]
               move == [side |-> l.actor, left |-> LoggedLeft(l), at |-> l.at]
               log == Append(moves, move)
    <3>2. l.actor \in Sides
      BY <2>1, <2>5 DEF TypeInv, ControlInv, ControlOK, AppendMove, At, Turn, Sides, Locals
    <3>3. move \in MoveRow
      BY <2>1, <3>2 DEF MoveRow, LoggedLeft, Locals
    <3>4. moves' \in Seq(MoveRow) /\ moves' = log
      BY <1>1, <2>5, <3>3 DEF AppendMove, DataOK
    <3>5. mat \in [Sides -> BOOLEAN]
      BY <2>1, <3>2 DEF Locals, Other, Sides
    <3>6. [row EXCEPT !.mat = mat] \in Row
      BY <2>2, <3>5 DEF Row
    <3>7. end # "ACTIVE" => RowEndedByMove(l, end, log, mat) \in Row
      <4>1. end # "ACTIVE" => end \in Statuses
        BY DEF Statuses
      <4>2. Len(log) \in Nat
        BY <3>4
      <4> HIDE DEF mat, log, l
      <4> QED
        BY <2>1, <3>2, <3>5, <4>1, <4>2 DEF RowEndedByMove, Row
    <3>8. row' \in Row
      BY <3>1, <3>6, <3>7
    <3>9. audit' \in Nat
      BY <1>1, <3>1 DEF DataOK
    <3> QED
      BY <1>1, <2>5, <3>4, <3>8, <3>9 DEF AppendMove, DataOK, redis
  <2>6. CASE UpdateClock(r)
    <3> DEFINE matches == clock # Null /\ clock.ver = l.ver
    <3>1. clock' = IF matches THEN [ver |-> clock.ver + 1, st |-> l.st] ELSE clock
      BY <2>6 DEF UpdateClock
    <3>2. matches => [ver |-> clock.ver + 1, st |-> l.st] \in ClockEntry
      BY <2>1, <2>2 DEF ClockEntry
    <3> QED
      BY <1>1, <2>2, <2>6, <3>1, <3>2 DEF UpdateClock, DataOK, db
  <2>7. CASE HealClock(r) \/ ClearDraw(r) \/ ClearClock(r)
    BY <1>1, <2>7 DEF HealClock, ClearDraw, ClearClock, DataOK, db
  <2>8. CASE SetOffer(r)
    BY <1>1, <2>1, <2>2, <2>8 DEF SetOffer, DataOK, db
  <2>9. CASE FinishGame(r)
    <3>1. l.fin \in Verdict
      BY <2>9 DEF TypeInv, ControlInv, ControlOK, FinishGame, At
    <3>2. row' \in Row
      BY <2>1, <2>2, <2>9, <3>1 DEF FinishGame, Row, Verdict, Locals
    <3> QED
      BY <1>1, <2>9, <3>2 DEF FinishGame, DataOK, redis
  <2>10. CASE EmitFinished(r)
    BY <1>1, <2>10 DEF EmitFinished, DataOK, db, redis
  <2>11. CASE FindGame(r)
    BY <2>4, <2>11 DEF FindGame, FindForMove, FindForResign, FindForOffer, FindForAccept,
       FindForAbort, FindForClaim, FindForFlag, FindForAbandon, Find
  <2>12. CASE \/ LoadClock(r) \/ RebuildClock(r) \/ RejectIllegal(r) \/ AppendConflict(r)
              \/ GetOffer(r) \/ ListMoves(r) \/ ReadClock(r) \/ ListForPgn(r) \/ FinishLost(r)
    BY <2>4, <2>12 DEF LoadClock, RebuildClock, RejectIllegal, AppendConflict, GetOffer,
       ListMoves, ReadClock, ListForPgn, FinishLost
  <2> QED
    BY <1>2, <2>3, <2>5, <2>6, <2>7, <2>8, <2>9, <2>10, <2>11, <2>12 DEF Advance
<1>3. ASSUME NEW r \in Requests, Begin(r) \/ BeginAbandon(r)
      PROVE  DataOK'
  BY <1>1, <1>3, LocalOK DEF Begin, BeginAbandon
<1>4. ASSUME NEW r \in Requests, Crash(r)
      PROVE  DataOK'
  BY <1>1, <1>4 DEF Crash, DataOK, db, redis
<1>5. CASE Tick \/ LoseRedis
  BY <1>1, <1>5 DEF Tick, LoseRedis, DataOK, db, redis
<1> QED
  BY <1>2, <1>3, <1>4, <1>5 DEF Next

\* A jump to a place its locals fit keeps the control invariant.
LEMMA GotoControl ==
  ASSUME RequestsOK, ControlInv, NEW r \in Requests, NEW label, NEW l,
         Goto(r, label, l), ControlOK(label, l)
  PROVE  ControlInv'
<1> SUFFICES ASSUME NEW q \in Requests PROVE ControlOK(pc[q], loc[q])'
  BY DEF ControlInv
<1>1. CASE q = r
  <2>1. pc'[q] = label /\ loc'[q] = l
    BY <1>1 DEF Goto, RequestsOK
  <2> QED
    BY <2>1 DEF ControlOK
<1>2. CASE q # r
  <2>1. pc'[q] = pc[q] /\ loc'[q] = loc[q]
    BY <1>2 DEF Goto, RequestsOK
  <2>2. ControlOK(pc[q], loc[q])
    BY DEF ControlInv
  <2> QED
    BY <2>1, <2>2 DEF ControlOK
<1> QED
  BY <1>1, <1>2

\* A reply, or a jump to a place that makes no demand, keeps it.
LEMMA FreeControl ==
  ASSUME NEW label \in {"idle", "offered", "getoffer", "init", "cas", "heal", "cleardraw",
                        "clear", "emit"}, NEW l
  PROVE  ControlOK(label, l)
BY DEF ControlOK

LEMMA ReplyControl ==
  ASSUME RequestsOK, ControlInv, NEW r \in Requests, Reply(r)
  PROVE  ControlInv'
BY FreeControl, GotoControl DEF Reply

\* Ending a game carries the verdict along.
LEMMA EndingControl ==
  ASSUME NEW label \in {"list", "read", "pgn", "finish"}, NEW l, l.fin \in Verdict
  PROVE  ControlOK(label, l)
BY DEF ControlOK

LEMMA BeginFinishControl ==
  ASSUME RequestsOK, ControlInv, NEW r \in Requests, NEW l, NEW v \in Verdict,
         BeginFinish(r, l, v)
  PROVE  ControlInv'
<1>1. [Blank EXCEPT !.ply = l.ply, !.at = now, !.fin = v].fin = v
  BY DEF Blank
<1> QED
  BY <1>1, EndingControl, GotoControl DEF BeginFinish

LEMMA BeginTimeoutControl ==
  ASSUME RequestsOK, ControlInv, NEW r \in Requests, NEW l, NEW loser \in Sides, NEW st,
         BeginTimeout(r, l, loser, st)
  PROVE  ControlInv'
<1>1. TimeoutOf(loser, l.mat) \in Verdict
  BY DEF TimeoutOf, Verdict, Statuses, Other, Sides
<1>2. [Blank EXCEPT !.st = st, !.fin = TimeoutOf(loser, l.mat)].fin = TimeoutOf(loser, l.mat)
  BY DEF Blank
<1> QED
  BY <1>1, <1>2, EndingControl, GotoControl DEF BeginTimeout

LEMMA WeighControl ==
  ASSUME RequestsOK, ControlInv, NEW r \in Requests, NEW l \in Locals, NEW st \in ClockState,
         ControlOK("load", l), Weigh(r, l, st)
  PROVE  ControlInv'
<1>1. st.turn \in Sides /\ l.ply \in Nat
  BY DEF ClockState, Locals
<1>2. CASE WeighMove(r, l, st)
  <2>1. l.kind = "move" /\ l.actor = Turn(l.ply) /\ l.actor \in Sides
    BY <1>1, <1>2 DEF WeighMove, ControlOK, Turn, Sides
  <2> DEFINE m == [l EXCEPT !.st = ApplyMove(Cfg, st, l.at).state]
  <2>2. m.kind = l.kind /\ m.actor = l.actor /\ m.ply = l.ply
    BY DEF Locals
  <2>3. ControlOK("append", m)
    BY <2>1, <2>2 DEF ControlOK
  <2>4. CASE ApplyMove(Cfg, st, l.at).flagged
    BY <1>2, <2>1, <2>4, BeginTimeoutControl DEF WeighMove
  <2>5. CASE ~ApplyMove(Cfg, st, l.at).flagged
    BY <1>2, <2>3, <2>5, GotoControl DEF WeighMove
  <2> QED
    BY <2>4, <2>5
<1>3. CASE WeighClaim(r, l, st)
  <2>1. Other(l.actor) \in Sides
    BY DEF Other, Sides
  <2> QED
    BY <1>3, <2>1, BeginTimeoutControl, ReplyControl DEF WeighClaim
<1>4. CASE WeighFlag(r, l, st)
  BY <1>1, <1>4, BeginTimeoutControl, ReplyControl DEF WeighFlag
<1> QED
  BY <1>2, <1>3, <1>4 DEF Weigh

\* Finding the row keeps it: the turn check makes a mover act for its side.
LEMMA FindControl ==
  ASSUME TypeInv, NEW r \in Requests, FindGame(r)
  PROVE  ControlInv'
<1> DEFINE l == Snapshot(r)
<1>1. RequestsOK /\ ControlInv /\ l \in Locals /\ loc[r] \in Locals /\ l.ply \in Nat
  BY SnapshotOK DEF TypeInv, RequestsOK
<1>2. l.kind = loc[r].kind /\ l.actor = loc[r].actor /\ l.fin = loc[r].fin
  BY <1>1 DEF Snapshot, Locals
<1>3. Other(l.actor) \in Sides
  BY DEF Other, Sides
<1> HIDE DEF l
<1>4. CASE FindForMove(r)
  <2>1. l.kind = "move"
    BY <1>2, <1>4 DEF FindForMove, Find
  <2> DEFINE m == [l EXCEPT !.st = CreateClock(Cfg, "b", l.at)]
  <2>2. m.kind = l.kind /\ m.actor = l.actor /\ m.ply = l.ply
    BY <1>1 DEF Locals
  <2>3. Turn(l.ply) = l.actor => ControlOK("load", l) /\ ControlOK("append", m)
    BY <2>1, <2>2 DEF ControlOK
  <2> QED
    BY <1>1, <1>4, <2>3, GotoControl, ReplyControl DEF FindForMove, l
<1>5. CASE FindForResign(r)
  <2>1. [status |-> "RESIGNATION", winner |-> Other(l.actor)] \in Verdict
    BY <1>3 DEF Verdict, Statuses
  <2> QED
    BY <1>1, <1>5, <2>1, BeginFinishControl, ReplyControl DEF FindForResign, l
<1>6. CASE FindForOffer(r)
  BY <1>1, <1>6, FreeControl, GotoControl, ReplyControl DEF FindForOffer
<1>7. CASE FindForAccept(r)
  BY <1>1, <1>7, FreeControl, GotoControl, ReplyControl DEF FindForAccept
<1>8. CASE FindForAbort(r)
  <2>1. [status |-> "ABORTED", winner |-> Null] \in Verdict
    BY DEF Verdict, Statuses
  <2> QED
    BY <1>1, <1>8, <2>1, BeginFinishControl, ReplyControl DEF FindForAbort, l
<1>9. CASE FindForClaim(r)
  <2>1. l.kind = "claim"
    BY <1>2, <1>9 DEF FindForClaim, Find
  <2>2. l.actor \in Sides => ControlOK("load", l)
    BY <2>1 DEF ControlOK
  <2> QED
    BY <1>1, <1>9, <2>2, GotoControl, ReplyControl DEF FindForClaim, Admitted, l
<1>10. CASE FindForFlag(r)
  <2>1. l.kind = "flag"
    BY <1>2, <1>10 DEF FindForFlag, Find
  <2>2. ControlOK("load", l)
    BY <2>1 DEF ControlOK
  <2> QED
    BY <1>1, <1>10, <2>2, GotoControl, ReplyControl DEF FindForFlag, l
<1>11. CASE FindForAbandon(r)
  <2>1. l.fin \in Verdict
    BY <1>1, <1>2, <1>11 DEF FindForAbandon, Find, At, ControlInv, ControlOK
  <2> QED
    BY <1>1, <1>11, <2>1, BeginFinishControl, ReplyControl DEF FindForAbandon, l
<1> QED
  BY <1>4, <1>5, <1>6, <1>7, <1>8, <1>9, <1>10, <1>11 DEF FindGame

\* Every step keeps the control invariant.
LEMMA StepControl ==
  ASSUME TypeInv, Next
  PROVE  ControlInv'
<1>1. RequestsOK /\ DataOK /\ ControlInv
  BY DEF TypeInv
<1>2. ASSUME NEW r \in Requests, Begin(r)
      PROVE  ControlInv'
  <2>1. PICK kind \in Handles[r] \ {"abandon"}, actor \in Actors :
          Goto(r, "find", [Blank EXCEPT !.kind = kind, !.actor = actor,
                             !.at = IF kind \in Timed THEN now ELSE 0])
    BY <1>2 DEF Begin
  <2> DEFINE l == [Blank EXCEPT !.kind = kind, !.actor = actor,
                     !.at = IF kind \in Timed THEN now ELSE 0]
  <2>2. l.kind = kind
    BY DEF Blank
  <2>3. ControlOK("find", l)
    BY <2>2 DEF ControlOK
  <2> QED
    BY <1>1, <2>1, <2>3, GotoControl
<1>3. ASSUME NEW r \in Requests, BeginAbandon(r)
      PROVE  ControlInv'
  <2>1. PICK gone \in Sides : \E winner \in {Other(gone), Null} :
          Goto(r, "find", [Blank EXCEPT !.kind = "abandon", !.actor = gone,
                             !.fin = [status |-> "ABANDONED", winner |-> winner]])
    BY <1>3 DEF BeginAbandon
  <2>2. PICK winner \in {Other(gone), Null} :
          Goto(r, "find", [Blank EXCEPT !.kind = "abandon", !.actor = gone,
                             !.fin = [status |-> "ABANDONED", winner |-> winner]])
    BY <2>1
  <2> DEFINE v == [status |-> "ABANDONED", winner |-> winner]
             l == [Blank EXCEPT !.kind = "abandon", !.actor = gone, !.fin = v]
  <2>3. l.fin = v /\ v \in Verdict
    BY DEF Blank, Verdict, Statuses, Other, Sides
  <2>4. ControlOK("find", l)
    BY <2>3 DEF ControlOK
  <2> QED
    BY <1>1, <2>2, <2>4, GotoControl
<1>4. ASSUME NEW r \in Requests, Advance(r)
      PROVE  ControlInv'
  <2> DEFINE l == loc[r]
  <2>1. l \in Locals /\ ControlOK(pc[r], l) /\ l.ply \in Nat /\ l.at \in Nat
    BY <1>1 DEF RequestsOK, Locals, ControlInv
  <2>2. CASE FindGame(r)
    BY <2>2, FindControl
  <2>3. CASE LoadClock(r)
    <3>1. CASE clock = Null
      <4>1. Goto(r, "rebuild", l)
        BY <2>3, <3>1 DEF LoadClock
      <4>2. ControlOK("rebuild", l)
        BY <2>1, <2>3 DEF LoadClock, At, ControlOK
      <4> QED
        BY <1>1, <4>1, <4>2, GotoControl
    <3>2. CASE clock # Null
      <4>1. clock.ver \in Nat /\ clock.st \in ClockState
        BY <1>1, <3>2 DEF DataOK, ClockEntry
      <4> DEFINE m == [l EXCEPT !.ver = clock.ver]
      <4>2. m \in Locals
        BY <2>1, <4>1, LocalsOK
      <4>3. m.kind = l.kind /\ m.actor = l.actor /\ m.ply = l.ply
        BY <2>1 DEF Locals
      <4>4. Weigh(r, m, clock.st)
        BY <2>3, <3>2 DEF LoadClock
      <4>5. ControlOK("load", m)
        BY <2>1, <2>3, <4>3 DEF LoadClock, At, ControlOK
      <4> HIDE DEF m
      <4> QED
        BY <1>1, <4>1, <4>2, <4>4, <4>5, WeighControl
    <3> QED
      BY <3>1, <3>2
  <2>4. CASE RebuildClock(r)
    <3>1. Reconstruct(moves, Turn(l.ply), l.at) \in ClockState
      BY <1>1, SnapshotOK
    <3>2. ControlOK("load", l)
      BY <2>1, <2>4 DEF RebuildClock, At, ControlOK
    <3> QED
      BY <1>1, <2>1, <2>4, <3>1, <3>2, WeighControl DEF RebuildClock
  <2>5. CASE \/ Create(r) \/ RejectIllegal(r) \/ AppendConflict(r) \/ ClearDraw(r)
             \/ SetOffer(r) \/ FinishLost(r) \/ EmitFinished(r)
    BY <1>1, <2>5, ReplyControl DEF Create, RejectIllegal, AppendConflict, ClearDraw,
       SetOffer, FinishLost, EmitFinished
  <2>6. CASE AppendMove(r)
    <3>1. \/ Goto(r, "clear", Blank)
          \/ Goto(r, IF l.ver = 0 THEN "init" ELSE "cas", [Blank EXCEPT !.ver = l.ver, !.st = l.st])
      BY <2>6 DEF AppendMove
    <3> QED
      BY <1>1, <3>1, FreeControl, GotoControl
  <2>7. CASE InitClock(r) \/ UpdateClock(r) \/ HealClock(r) \/ FinishGame(r) \/ ClearClock(r)
    BY <1>1, <2>7, FreeControl, GotoControl DEF InitClock, UpdateClock, HealClock,
       FinishGame, ClearClock
  <2>8. CASE GetOffer(r)
    <3>1. [status |-> "DRAW_AGREED", winner |-> Null] \in Verdict
      BY DEF Verdict, Statuses
    <3> QED
      BY <1>1, <2>8, <3>1, BeginFinishControl, ReplyControl DEF GetOffer
  <2>9. CASE ListMoves(r) \/ ReadClock(r) \/ ListForPgn(r)
    <3>1. l.fin \in Verdict
      BY <2>1, <2>9 DEF ListMoves, ReadClock, ListForPgn, At, ControlOK
    <3>2. CASE ListMoves(r)
      <4> DEFINE m == [l EXCEPT !.seen = Len(moves),
                         !.st = Reconstruct(moves, Turn(l.ply), l.at)]
      <4>1. m.fin = l.fin
        BY <2>1 DEF Locals
      <4>2. Goto(r, "read", m)
        BY <3>2 DEF ListMoves
      <4> HIDE DEF m
      <4> QED
        BY <1>1, <3>1, <4>1, <4>2, EndingControl, GotoControl
    <3>3. CASE ReadClock(r)
      <4>1. PICK end : Goto(r, "finish", [l EXCEPT !.st = end, !.ply = 0, !.at = 0])
        BY <3>3 DEF ReadClock
      <4>2. [l EXCEPT !.st = end, !.ply = 0, !.at = 0].fin = l.fin
        BY <2>1 DEF Locals
      <4> QED
        BY <1>1, <3>1, <4>1, <4>2, EndingControl, GotoControl
    <3>4. CASE ListForPgn(r)
      <4>1. [l EXCEPT !.seen = Len(moves)].fin = l.fin
        BY <2>1 DEF Locals
      <4> QED
        BY <1>1, <3>1, <3>4, <4>1, EndingControl, GotoControl DEF ListForPgn
    <3> QED
      BY <2>9, <3>2, <3>3, <3>4
  <2> QED
    BY <1>4, <2>2, <2>3, <2>4, <2>5, <2>6, <2>7, <2>8, <2>9 DEF Advance
<1>5. ASSUME NEW r \in Requests, Crash(r)
      PROVE  ControlInv'
  BY <1>1, <1>5, ReplyControl DEF Crash
<1>6. CASE Tick \/ LoseRedis
  BY <1>1, <1>6 DEF Tick, LoseRedis, ControlInv, ControlOK
<1> QED
  BY <1>2, <1>3, <1>4, <1>5, <1>6 DEF Next

\* The row, the log, the Redis keys and every request of any number of
\* overlapping requests stay well formed (play.service, play.repository,
\* clock.store).
THEOREM TypeCorrect == Spec => []TypeOK
<1>1. TypeInv /\ [Next]_vars => TypeInv'
  <2> SUFFICES ASSUME TypeInv, [Next]_vars PROVE TypeInv'
    OBVIOUS
  <2>1. CASE Next
    BY <2>1, StepData, StepRequests, StepControl DEF TypeInv
  <2>2. CASE UNCHANGED vars
    BY <2>2 DEF vars, db, redis, TypeInv, DataOK, RequestsOK, ControlInv, ControlOK
  <2> QED
    BY <2>1, <2>2
<1>2. TypeInv => TypeOK
  BY DEF TypeInv, DataOK, RequestsOK, TypeOK
<1> QED
  BY <1>1, <1>2, TypeInit, PTL DEF Spec

-----------------------------------------------------------------------------
(* A game ends once. *)

\* A request past the verdict: it is about to clear Redis or to announce.
Closing(r) == pc[r] \in {"clear", "emit"}

\* Nobody closes a live game; one request closes a finished one, and it has
\* not announced the end before.
FinishInv ==
  /\ audit = IF Active THEN 0 ELSE 1
  /\ Active => emitted = 0 /\ \A r \in Requests : ~Closing(r)
  /\ \A r, q \in Requests : Closing(r) /\ Closing(q) => r = q
  /\ \A r \in Requests : Closing(r) => emitted = 0
  /\ emitted \in {0, 1}

\* A request that goes anywhere but to the closing steps disturbs nothing.
LEMMA QuietJump ==
  ASSUME TypeInv, FinishInv, NEW r \in Requests, NEW label, NEW l,
         Goto(r, label, l), label \notin {"clear", "emit"},
         UNCHANGED <<row, audit, emitted>> \/ (Active' = Active /\ UNCHANGED <<audit, emitted>>)
  PROVE  FinishInv'
<1>1. pc \in [Requests -> Labels]
  BY DEF TypeInv, RequestsOK
<1>2. \A q \in Requests : Closing(q)' => Closing(q)
  BY <1>1 DEF Goto, Closing
<1>3. Active' = Active /\ audit' = audit /\ emitted' = emitted
  BY DEF Active
<1> QED
  BY <1>2, <1>3 DEF FinishInv

\* A verdict makes its request the only one that closes the game.
LEMMA VerdictJump ==
  ASSUME TypeInv, FinishInv, NEW r \in Requests, NEW l,
         Goto(r, "clear", l), Active, ~Active', audit' = audit + 1, emitted' = emitted
  PROVE  FinishInv'
<1>1. pc \in [Requests -> Labels]
  BY DEF TypeInv, RequestsOK
<1>2. \A q \in Requests : Closing(q)' => q = r
  BY <1>1 DEF Goto, Closing, FinishInv
<1>3. audit' = 1 /\ emitted' = 0
  BY DEF FinishInv
<1> QED
  BY <1>2, <1>3 DEF FinishInv

LEMMA FinishStep ==
  ASSUME TypeInv, FinishInv, Next
  PROVE  FinishInv'
<1>1. pc \in [Requests -> Labels] /\ loc \in [Requests -> Locals]
  BY DEF TypeInv, RequestsOK
<1>2. ASSUME NEW r \in Requests, Begin(r)
      PROVE  FinishInv'
  <2>1. PICK l : Goto(r, "find", l)
    BY <1>2 DEF Begin
  <2>2. UNCHANGED <<row, audit, emitted>>
    BY <1>2 DEF Begin, Local, db
  <2> QED
    BY <2>1, <2>2, QuietJump
<1>3. ASSUME NEW r \in Requests, BeginAbandon(r)
      PROVE  FinishInv'
  <2>1. PICK l : Goto(r, "find", l)
    BY <1>3 DEF BeginAbandon
  <2>2. UNCHANGED <<row, audit, emitted>>
    BY <1>3 DEF BeginAbandon, Local, db
  <2> QED
    BY <2>1, <2>2, QuietJump
<1>4. ASSUME NEW r \in Requests, Advance(r)
      PROVE  FinishInv'
  <2> DEFINE l == loc[r]
  <2>1. CASE FindGame(r)
    <3>1. UNCHANGED <<row, audit, emitted>>
      BY <2>1 DEF FindGame, FindForMove, FindForResign, FindForOffer, FindForAccept,
         FindForAbort, FindForClaim, FindForFlag, FindForAbandon, Find, Local, db
    <3>2. \E label, m : Goto(r, label, m) /\ label \notin {"clear", "emit"}
      BY <2>1 DEF FindGame, FindForMove, FindForResign, FindForOffer, FindForAccept,
         FindForAbort, FindForClaim, FindForFlag, FindForAbandon, BeginFinish, Reply
    <3> QED
      BY <3>1, <3>2, QuietJump
  <2>2. CASE LoadClock(r) \/ RebuildClock(r)
    <3>1. UNCHANGED <<row, audit, emitted>>
      BY <2>2 DEF LoadClock, RebuildClock, Local, db
    <3>2. \E label, m : Goto(r, label, m) /\ label \notin {"clear", "emit"}
      <4>1. ASSUME NEW m, NEW st, Weigh(r, m, st)
            PROVE  \E label, k : Goto(r, label, k) /\ label \notin {"clear", "emit"}
        BY <4>1 DEF Weigh, WeighMove, WeighClaim, WeighFlag, BeginTimeout, Reply
      <4>2. CASE RebuildClock(r)
        BY <4>1, <4>2 DEF RebuildClock
      <4>3. CASE LoadClock(r) /\ clock = Null
        BY <4>3 DEF LoadClock
      <4>4. CASE LoadClock(r) /\ clock # Null
        <5>1. Weigh(r, [loc[r] EXCEPT !.ver = clock.ver], clock.st)
          BY <4>4 DEF LoadClock
        <5> QED
          BY <5>1, <4>1
      <4> QED
        BY <2>2, <4>2, <4>3, <4>4
    <3> QED
      BY <3>1, <3>2, QuietJump
  <2>3. CASE AppendMove(r)
    <3>1. Active /\ emitted' = emitted
      BY <2>3 DEF AppendMove, CanAppend, WhereActive
    <3>2. PICK end \in {"ACTIVE"} \cup PositionEnds, mates \in BOOLEAN :
            LET mat == [l.mat EXCEPT ![Other(l.actor)] = @ /\ mates]
                log == Append(moves, [side |-> l.actor, left |-> LoggedLeft(l), at |-> l.at])
            IN IF end = "ACTIVE"
               THEN /\ row' = [row EXCEPT !.mat = mat]
                    /\ Goto(r, IF l.ver = 0 THEN "init" ELSE "cas",
                            [Blank EXCEPT !.ver = l.ver, !.st = l.st])
                    /\ audit' = audit
               ELSE /\ row' = RowEndedByMove(l, end, log, mat)
                    /\ Goto(r, "clear", Blank)
                    /\ audit' = audit + 1
      BY <2>3 DEF AppendMove
    <3>3. CASE end = "ACTIVE"
      <4>1. row \in Row
        BY DEF TypeInv, DataOK
      <4>2. Active' = Active
        BY <3>2, <3>3, <4>1 DEF Active, Row
      <4>3. \E label, m : Goto(r, label, m) /\ label \notin {"clear", "emit"}
        BY <3>2, <3>3
      <4>4. audit' = audit
        BY <3>2, <3>3
      <4> QED
        BY <3>1, <4>2, <4>3, <4>4, QuietJump
    <3>4. CASE end # "ACTIVE"
      <4>1. ~Active'
        BY <3>2, <3>4 DEF Active, RowEndedByMove
      <4>2. Goto(r, "clear", Blank) /\ audit' = audit + 1
        BY <3>2, <3>4
      <4> QED
        BY <3>1, <4>1, <4>2, VerdictJump
    <3> QED
      BY <3>3, <3>4
  <2>4. CASE FinishGame(r)
    <3>1. l.fin \in Verdict
      BY <2>4 DEF TypeInv, ControlInv, ControlOK, FinishGame, At
    <3>2. Active /\ ~Active' /\ audit' = audit + 1 /\ emitted' = emitted
      BY <2>4, <3>1 DEF FinishGame, WhereActive, Active, Verdict
    <3> QED
      BY <2>4, <3>2, VerdictJump DEF FinishGame
  <2>5. CASE ClearClock(r)
    <3>1. UNCHANGED <<row, audit, emitted>>
      BY <2>5 DEF ClearClock, db
    <3>2. \A q \in Requests : Closing(q)' <=> Closing(q)
      BY <1>1, <2>5 DEF ClearClock, Goto, Closing, At
    <3> QED
      BY <3>1, <3>2 DEF FinishInv, Active
  <2>6. CASE EmitFinished(r)
    <3>1. Closing(r) /\ emitted = 0 /\ ~Active
      BY <2>6 DEF EmitFinished, At, Closing, FinishInv
    <3>2. \A q \in Requests : ~Closing(q)'
      BY <1>1, <2>6, <3>1 DEF EmitFinished, Reply, Goto, Closing, FinishInv
    <3>3. row' = row /\ audit' = audit /\ emitted' = 1
      BY <2>6, <3>1 DEF EmitFinished, db
    <3> QED
      BY <3>1, <3>2, <3>3 DEF FinishInv, Active
  <2>7. CASE \/ Create(r) \/ RejectIllegal(r) \/ AppendConflict(r) \/ InitClock(r)
             \/ UpdateClock(r) \/ HealClock(r) \/ ClearDraw(r) \/ SetOffer(r) \/ GetOffer(r)
             \/ ListMoves(r) \/ ReadClock(r) \/ ListForPgn(r) \/ FinishLost(r)
    <3>1. UNCHANGED <<row, audit, emitted>>
      BY <2>7 DEF Create, RejectIllegal, AppendConflict, InitClock, UpdateClock, HealClock,
         ClearDraw, SetOffer, GetOffer, ListMoves, ReadClock, ListForPgn, FinishLost, Local, db
    <3>2. \E label, m : Goto(r, label, m) /\ label \notin {"clear", "emit"}
      BY <2>7 DEF Create, RejectIllegal, AppendConflict, InitClock, UpdateClock, HealClock,
         ClearDraw, SetOffer, GetOffer, BeginFinish, ListMoves, ReadClock, ListForPgn,
         FinishLost, Reply
    <3> QED
      BY <3>1, <3>2, QuietJump
  <2> QED
    BY <1>4, <2>1, <2>2, <2>3, <2>4, <2>5, <2>6, <2>7 DEF Advance
<1>5. ASSUME NEW r \in Requests, Crash(r)
      PROVE  FinishInv'
  BY <1>5, QuietJump DEF Crash, Reply, db
<1>6. CASE Tick \/ LoseRedis
  BY <1>6 DEF Tick, LoseRedis, FinishInv, Closing, Active, db
<1> QED
  BY <1>2, <1>3, <1>4, <1>5, <1>6 DEF Next

\* TypeInv and FinishInv together are inductive.
LEMMA InvInductive == Spec => [](TypeInv /\ FinishInv)
<1>1. Init => FinishInv
  <2> SUFFICES ASSUME Init PROVE FinishInv
    OBVIOUS
  <2>1. Active /\ audit = 0 /\ emitted = 0
    BY DEF Init, Active
  <2>2. \A r \in Requests : ~Closing(r)
    BY DEF Init, Closing
  <2> QED
    BY <2>1, <2>2 DEF FinishInv
<1>2. TypeInv /\ FinishInv /\ [Next]_vars => (TypeInv /\ FinishInv)'
  <2> SUFFICES ASSUME TypeInv, FinishInv, [Next]_vars PROVE (TypeInv /\ FinishInv)'
    OBVIOUS
  <2>1. CASE Next
    BY <2>1, StepData, StepRequests, StepControl, FinishStep DEF TypeInv
  <2>2. CASE UNCHANGED vars
    BY <2>2 DEF vars, db, redis, TypeInv, DataOK, RequestsOK, ControlInv, ControlOK,
       FinishInv, Closing, Active
  <2> QED
    BY <2>1, <2>2
<1> QED
  BY <1>1, <1>2, TypeInit, PTL DEF Spec

\* However many requests race to end the game, one of them does: one audit row
\* and at most one announcement (finishGame and appendMove match the row only
\* while it is ACTIVE; only the request that changed it emits).
THEOREM GameEndsOnce == Spec => []SingleFinish
<1>1. TypeInv /\ FinishInv => SingleFinish
  BY DEF FinishInv, SingleFinish
<1> QED
  BY <1>1, InvInductive, PTL

-----------------------------------------------------------------------------
(* What a step does to the row and the log. *)

\* A step leaves the row and the log alone, or appends the move of the side
\* whose turn it is to the log of a live game, or gives a live game its verdict.
Appends ==
  /\ Active
  /\ \E m \in MoveRow : moves' = Append(moves, m) /\ m.side = Turn(Len(moves))

LEMMA StepEffect ==
  ASSUME TypeInv, [Next]_vars
  PROVE  \/ UNCHANGED <<row, moves>>
         \/ Appends
         \/ Active /\ ~Active' /\ moves' = moves
<1>1. CASE UNCHANGED vars
  BY <1>1 DEF vars, db
<1>2. ASSUME NEW r \in Requests, AppendMove(r)
      PROVE  Appends
  <2> DEFINE m == [side |-> loc[r].actor, left |-> LoggedLeft(loc[r]), at |-> loc[r].at]
  <2>1. loc[r] \in Locals /\ Len(moves) \in Nat
    BY DEF TypeInv, RequestsOK, DataOK
  <2>2. Active /\ Len(moves) = loc[r].ply /\ moves' = Append(moves, m)
    BY <1>2 DEF AppendMove, CanAppend, WhereActive
  <2>3. loc[r].actor = Turn(Len(moves))
    BY <1>2, <2>2 DEF TypeInv, ControlInv, ControlOK, AppendMove, At
  <2>4. m \in MoveRow
    BY <2>1, <2>3 DEF MoveRow, LoggedLeft, Locals, ClockState, Turn, Sides
  <2> QED
    BY <2>2, <2>3, <2>4 DEF Appends
<1>3. ASSUME NEW r \in Requests, FinishGame(r)
      PROVE  Active /\ ~Active' /\ moves' = moves
  <2>1. loc[r].fin \in Verdict
    BY <1>3 DEF TypeInv, ControlInv, ControlOK, FinishGame, At
  <2> QED
    BY <1>3, <2>1 DEF FinishGame, WhereActive, Active, Verdict
<1>4. ASSUME NEW r \in Requests, FindGame(r)
      PROVE  UNCHANGED <<row, moves>>
  BY <1>4 DEF FindGame, FindForMove, FindForResign, FindForOffer, FindForAccept,
     FindForAbort, FindForClaim, FindForFlag, FindForAbandon, Find, Local, db
<1>5. ASSUME NEW r \in Requests, Advance(r), ~AppendMove(r), ~FinishGame(r), ~FindGame(r)
      PROVE  UNCHANGED <<row, moves>>
  BY <1>5 DEF Advance, Create, LoadClock, RebuildClock, RejectIllegal, AppendConflict,
     InitClock, UpdateClock, HealClock, ClearDraw, SetOffer, GetOffer, ListMoves, ReadClock,
     ListForPgn, FinishLost, ClearClock, EmitFinished, Local, db
<1>6. ASSUME NEW r \in Requests, Begin(r) \/ BeginAbandon(r) \/ Crash(r)
      PROVE  UNCHANGED <<row, moves>>
  BY <1>6 DEF Begin, BeginAbandon, Crash, Local, db
<1>7. CASE Tick \/ LoseRedis
  BY <1>7 DEF Tick, LoseRedis, db
<1> QED
  BY <1>1, <1>2, <1>3, <1>4, <1>5, <1>6, <1>7 DEF Next

\* Ply n is White's for odd n and Black's for even n, whatever requests overlap:
\* makeMove's turn check on a row that may be old, and the unique (gameId, ply).
THEOREM MovesAlternate == Spec => []TurnsAlternate
<1>1. Init => TurnsAlternate
  BY DEF Init, TurnsAlternate
<1>2. TypeInv /\ TurnsAlternate /\ [Next]_vars => TurnsAlternate'
  <2> SUFFICES ASSUME TypeInv, TurnsAlternate, [Next]_vars PROVE TurnsAlternate'
    OBVIOUS
  <2>1. CASE moves' = moves
    BY <2>1 DEF TurnsAlternate
  <2>2. CASE Appends
    <3>1. PICK m \in MoveRow : moves' = Append(moves, m) /\ m.side = Turn(Len(moves))
      BY <2>2 DEF Appends
    <3>2. moves \in Seq(MoveRow) /\ Len(moves) \in Nat
      BY DEF TypeInv, DataOK
    <3>3. Len(moves') = Len(moves) + 1
      BY <3>1, <3>2
    <3>4. \A n \in 1..Len(moves) : moves'[n] = moves[n]
      BY <3>1, <3>2
    <3>5. moves'[Len(moves) + 1] = m
      BY <3>1, <3>2
    <3>6. m.side = MoverOf(Len(moves) + 1)
      BY <3>1, <3>2 DEF Turn, MoverOf, Other
    <3> QED
      BY <3>2, <3>3, <3>4, <3>5, <3>6 DEF TurnsAlternate
  <2> QED
    BY <2>1, <2>2, StepEffect
<1>3. Spec => []TypeInv
  BY InvInductive, PTL
<1> QED
  BY <1>1, <1>2, <1>3, PTL DEF Spec

\* A finished game keeps its verdict and its moves for good.
THEOREM EndIsFinal == Spec => GameOverIsFinal
<1>1. TypeInv /\ [Next]_vars => [~Active => UNCHANGED <<row, moves>>]_vars
  BY StepEffect DEF Appends
<1>2. Spec => []TypeInv
  BY InvInductive, PTL
<1> QED
  BY <1>1, <1>2, PTL DEF Spec, GameOverIsFinal

-----------------------------------------------------------------------------
(* PlayGame implements GameLifecycle. *)

\* The initial states are initial states of a game's life.
LEMMA LifeInit == Init => Life!Init
BY DEF Init, Life!Init, Active

\* The announcement is the only step that counts one.
LEMMA StepEmits ==
  ASSUME TypeInv, FinishInv, [Next]_vars
  PROVE  \/ emitted' = emitted
         \/ ~Active /\ emitted = 0 /\ emitted' = 1 /\ UNCHANGED <<row, moves>>
<1>1. CASE UNCHANGED vars
  BY <1>1 DEF vars
<1>2. ASSUME NEW r \in Requests, EmitFinished(r)
      PROVE  ~Active /\ emitted = 0 /\ emitted' = 1 /\ UNCHANGED <<row, moves>>
  <2>1. Closing(r)
    BY <1>2 DEF EmitFinished, At, Closing
  <2>2. ~Active /\ emitted = 0
    BY <2>1 DEF FinishInv
  <2> QED
    BY <1>2, <2>2 DEF EmitFinished, db
<1>3. ASSUME NEW r \in Requests, FindGame(r)
      PROVE  emitted' = emitted
  BY <1>3 DEF FindGame, FindForMove, FindForResign, FindForOffer, FindForAccept,
     FindForAbort, FindForClaim, FindForFlag, FindForAbandon, Find, Local
<1>4. ASSUME NEW r \in Requests, Advance(r), ~EmitFinished(r), ~FindGame(r)
      PROVE  emitted' = emitted
  BY <1>4 DEF Advance, Create, LoadClock, RebuildClock, RejectIllegal, AppendConflict,
     AppendMove, InitClock, UpdateClock, HealClock, ClearDraw, SetOffer, GetOffer, ListMoves,
     ReadClock, ListForPgn, FinishLost, FinishGame, ClearClock, Local
<1>5. ASSUME NEW r \in Requests, Begin(r) \/ BeginAbandon(r) \/ Crash(r)
      PROVE  emitted' = emitted
  BY <1>5 DEF Begin, BeginAbandon, Crash, Local
<1>6. CASE Tick \/ LoseRedis
  BY <1>6 DEF Tick, LoseRedis
<1> QED
  BY <1>1, <1>2, <1>3, <1>4, <1>5, <1>6 DEF Next

\* A request that closes a finished game goes on doing so until it has announced the
\* end, or dies; and whoever gives the verdict closes the game.
LEMMA StepCloses ==
  ASSUME TypeInv, FinishInv, Next
  PROVE  /\ crashes' >= crashes
         /\ Active /\ ~Active' => \E r \in Requests : Closing(r)'
         /\ \A q \in Requests : Closing(q) => Closing(q)' \/ emitted' = 1 \/ crashes' = crashes + 1
<1>0. crashes \in Nat /\ pc \in [Requests -> Labels]
  BY DEF TypeInv, DataOK, RequestsOK
<1>1. ASSUME NEW r \in Requests, AppendMove(r) \/ FinishGame(r) \/ ClearClock(r)
      PROVE  /\ crashes' = crashes
             /\ Active /\ ~Active' => Closing(r)'
             /\ \A q \in Requests : Closing(q) => Closing(q)'
  <2>1. CASE AppendMove(r)
    <3>1. Active /\ row \in Row
      BY <2>1 DEF AppendMove, CanAppend, WhereActive, TypeInv, DataOK
    <3>2. Active' \/ Goto(r, "clear", Blank)
      BY <2>1, <3>1 DEF AppendMove, Active, Row
    <3> QED
      BY <1>0, <2>1, <3>1, <3>2 DEF AppendMove, FinishInv, Goto, Closing
  <2>2. CASE FinishGame(r)
    BY <1>0, <2>2 DEF FinishGame, WhereActive, FinishInv, Goto, Closing
  <2>3. CASE ClearClock(r)
    BY <1>0, <2>3 DEF ClearClock, Goto, Closing, Active, db
  <2> QED
    BY <1>1, <2>1, <2>2, <2>3
<1>2. ASSUME NEW r \in Requests, EmitFinished(r)
      PROVE  UNCHANGED <<row, crashes>> /\ emitted' = 1
  BY <1>2 DEF EmitFinished, db, FinishInv, At, Closing
<1>3. ASSUME NEW r \in Requests, Crash(r)
      PROVE  UNCHANGED row /\ crashes' = crashes + 1
  BY <1>3 DEF Crash, db
<1>4. ASSUME NEW r \in Requests, NEW label, NEW m, Goto(r, label, m), ~Closing(r)
      PROVE  \A q \in Requests : Closing(q) => Closing(q)'
  BY <1>0, <1>4 DEF Goto, Closing
<1>5. ASSUME NEW r \in Requests, FindGame(r)
      PROVE  /\ UNCHANGED <<row, crashes>> /\ ~Closing(r)
             /\ \E label, m : Goto(r, label, m)
  <2>1. UNCHANGED <<row, crashes>> /\ ~Closing(r)
    BY <1>5 DEF FindGame, FindForMove, FindForResign, FindForOffer, FindForAccept, FindForAbort,
       FindForClaim, FindForFlag, FindForAbandon, Find, At, Closing, Local, db
  <2>2. \E label, m : Goto(r, label, m)
    BY <1>5 DEF FindGame, FindForMove, FindForResign, FindForOffer, FindForAccept,
       FindForAbort, FindForClaim, FindForFlag, FindForAbandon, BeginFinish, Reply
  <2> QED
    BY <2>1, <2>2
<1>6. ASSUME NEW r \in Requests, LoadClock(r) \/ RebuildClock(r)
      PROVE  /\ UNCHANGED <<row, crashes>> /\ ~Closing(r)
             /\ \E label, m : Goto(r, label, m)
  <2>1. UNCHANGED <<row, crashes>> /\ ~Closing(r)
    BY <1>6 DEF LoadClock, RebuildClock, At, Closing, Local, db
  <2>2. ASSUME NEW m, NEW st, Weigh(r, m, st)
        PROVE  \E label, k : Goto(r, label, k)
    BY <2>2 DEF Weigh, WeighMove, WeighClaim, WeighFlag, BeginTimeout, Reply
  <2>3. CASE RebuildClock(r)
    BY <2>1, <2>2, <2>3 DEF RebuildClock
  <2>4. CASE LoadClock(r) /\ clock = Null
    BY <2>1, <2>4 DEF LoadClock
  <2>5. CASE LoadClock(r) /\ clock # Null
    <3>1. Weigh(r, [loc[r] EXCEPT !.ver = clock.ver], clock.st)
      BY <2>5 DEF LoadClock
    <3> QED
      BY <2>1, <2>2, <3>1
  <2> QED
    BY <1>6, <2>3, <2>4, <2>5
<1>7. ASSUME NEW r \in Requests,
             \/ Begin(r) \/ BeginAbandon(r)
             \/ Create(r) \/ RejectIllegal(r) \/ AppendConflict(r) \/ InitClock(r)
             \/ UpdateClock(r) \/ HealClock(r) \/ ClearDraw(r) \/ SetOffer(r) \/ GetOffer(r)
             \/ ListMoves(r) \/ ReadClock(r) \/ ListForPgn(r) \/ FinishLost(r)
      PROVE  /\ UNCHANGED <<row, crashes>> /\ ~Closing(r)
             /\ \E label, m : Goto(r, label, m)
  <2>1. UNCHANGED <<row, crashes>> /\ ~Closing(r)
    BY <1>7 DEF Begin, BeginAbandon, Create, RejectIllegal, AppendConflict, InitClock, UpdateClock,
       HealClock, ClearDraw, SetOffer, GetOffer, ListMoves, ReadClock, ListForPgn, FinishLost,
       At, Closing, Local, db
  <2>2. \E label, m : Goto(r, label, m)
    BY <1>7 DEF Begin, BeginAbandon, Create, RejectIllegal, AppendConflict, InitClock, UpdateClock,
       HealClock, ClearDraw, SetOffer, GetOffer, BeginFinish, ListMoves, ReadClock, ListForPgn,
       FinishLost, Reply
  <2> QED
    BY <2>1, <2>2
<1>8. CASE Tick \/ LoseRedis
  BY <1>0, <1>8 DEF Tick, LoseRedis, Closing, Active, db
<1> QED
  BY <1>0, <1>1, <1>2, <1>3, <1>4, <1>5, <1>6, <1>7, <1>8 DEF Next, Advance, Active

\* A finished game has been announced, or somebody is about to, or died before he did.
AnnounceInv ==
  ~Active => emitted = 1 \/ crashes >= 1 \/ \E r \in Requests : Closing(r)

\* Every finished game whose requests have all returned was announced, unless one of them
\* died on the way (makeMove and finishGame emit after the commit, and nothing else does).
THEOREM EndIsAnnouncedHolds == Spec => []EndIsAnnounced
<1>1. Init => AnnounceInv
  BY DEF Init, AnnounceInv, Active
<1>2. TypeInv /\ FinishInv /\ AnnounceInv /\ [Next]_vars => AnnounceInv'
  <2> SUFFICES ASSUME TypeInv, FinishInv, AnnounceInv, [Next]_vars, ~Active'
               PROVE  emitted' = 1 \/ crashes' >= 1 \/ \E r \in Requests : Closing(r)'
    BY DEF AnnounceInv
  <2>1. CASE UNCHANGED vars
    BY <2>1 DEF vars, db, AnnounceInv, Active, Closing
  <2>2. CASE Next
    <3>1. crashes \in Nat /\ crashes' >= crashes
      BY <2>2, StepCloses DEF TypeInv, DataOK
    <3>2. crashes' \in Nat
      BY <2>2, StepData DEF TypeInv, DataOK
    <3>3. CASE Active
      BY <2>2, <3>3, StepCloses
    <3>4. CASE ~Active /\ emitted = 1
      BY <3>4, StepEmits
    <3>5. CASE ~Active /\ crashes >= 1
      BY <3>1, <3>2, <3>5
    <3>6. CASE ~Active /\ \E r \in Requests : Closing(r)
      <4>1. PICK r \in Requests : Closing(r)
        BY <3>6
      <4>2. Closing(r)' \/ emitted' = 1 \/ crashes' = crashes + 1
        BY <2>2, <4>1, StepCloses
      <4> QED
        BY <3>1, <3>2, <4>2
    <3> QED
      BY <3>3, <3>4, <3>5, <3>6 DEF AnnounceInv
  <2> QED
    BY <2>1, <2>2
<1>3. TypeInv /\ FinishInv /\ AnnounceInv => EndIsAnnounced
  <2> SUFFICES ASSUME TypeInv, FinishInv, AnnounceInv, Quiet, ~Active
               PROVE  emitted + crashes >= 1
    BY DEF EndIsAnnounced
  <2>1. \A r \in Requests : ~Closing(r)
    BY DEF Quiet, Closing
  <2>2. crashes \in Nat /\ emitted \in Nat
    BY DEF TypeInv, DataOK
  <2> QED
    BY <2>1, <2>2 DEF AnnounceInv
<1> QED
  BY <1>1, <1>2, <1>3, InvInductive, PTL DEF Spec

\* The verdict and the end are announced by steps of their own.
LEMMA LifeStep ==
  ASSUME TypeInv, FinishInv, [Next]_vars
  PROVE  [Life!Next]_(Life!vars)
<1>1. CASE emitted' # emitted
  <2>1. ~Active /\ emitted = 0 /\ emitted' = 1 /\ UNCHANGED <<row, moves>>
    BY <1>1, StepEmits
  <2> QED
    BY <2>1 DEF Life!Next, Life!Announce, Active
<1>2. CASE emitted' = emitted
  <2>1. CASE UNCHANGED <<row, moves>>
    BY <1>2, <2>1 DEF Life!vars, Active
  <2>2. CASE Appends
    <3>1. Active /\ Len(moves') = Len(moves) + 1
      BY <2>2 DEF Appends, TypeInv, DataOK
    <3>2. (~Active)' \in BOOLEAN
      BY DEF Active
    <3> QED
      BY <1>2, <3>1, <3>2 DEF Life!Next, Life!Play
  <2>3. CASE Active /\ ~Active' /\ moves' = moves
    <3>1. (~Active)' = TRUE /\ Len(moves') = Len(moves)
      BY <2>3
    <3> QED
      BY <1>2, <2>3, <3>1 DEF Life!Next, Life!End
  <2> QED
    BY <2>1, <2>2, <2>3, StepEffect
<1> QED
  BY <1>1, <1>2

\* Overlapping requests, crashes and Redis losses notwithstanding, the module
\* implements the life of a game: moves one at a time while it is on, one end,
\* at most one announcement, and only after the end.
THEOREM PlayImplementsLifecycle == Spec => ImplementsLifecycle
<1>1. TypeInv /\ FinishInv /\ [Next]_vars => [Life!Next]_(Life!vars)
  BY LifeStep
<1> QED
  BY <1>1, LifeInit, InvInductive, PTL DEF Spec, ImplementsLifecycle, Life!Spec
-----------------------------------------------------------------------------
(* One request at a time: the invariant. *)

\* Where a request has committed a move whose clock Redis does not hold yet, or whose
\* draw offer it has not withdrawn yet; where it ends the game without a move.
Committed == {"init", "cas", "heal"}
Withdrawing == Committed \cup {"cleardraw"}
Ending == {"list", "read", "pgn", "finish"}

\* A loss on time is earned: the loser has none left, and the winner can mate.
Earned(v) ==
  v.status = "TIMEOUT" =>
    /\ v.winner \in Sides /\ row.mat[v.winner]
    /\ moves # <<>> /\ Remaining(Cfg, LogClock, Other(v.winner), now) = 0

\* An agreed draw has a standing offer.
Stands(v) ==
  v.status = "DRAW_AGREED" /\ losses = 0 => draw # Null /\ draw.ply = Len(moves)

Cached(r) == Active /\ clock # Null /\ pc[r] \notin Committed => clock.st = LogClock
Offered(r) ==
  Active /\ draw # Null /\ losses = 0 /\ pc[r] \notin Withdrawing => draw.ply = Len(moves)

\* What each await of a request may rely on.
Creates(r) == pc[r] = "create" => moves = <<>> /\ loc[r].st = LogClock
Finds(r) == pc[r] = "find" /\ loc[r].kind = "abandon" => loc[r].fin.status = "ABANDONED"
Timely(r) == pc[r] \in {"find", "load", "rebuild"} => loc[r].at <= now
Current(r) ==
  /\ pc[r] \in {"load", "rebuild", "getoffer"} => Active
  /\ pc[r] \in {"load", "rebuild"} =>
       moves # <<>> /\ loc[r].ply = Len(moves) /\ loc[r].mat = row.mat
Written(r) == pc[r] \in {"init", "cas"} => loc[r].st = LogClock
Ends(r) == pc[r] \in Ending => Earned(loc[r].fin) /\ Stands(loc[r].fin)

\* The mover of a move that arrived in time pays for no more than the time since
\* the last move, and the other side pays nothing.
Pays(l) ==
  /\ l.st.turn = Other(l.actor) /\ l.st.last = l.at
  /\ l.st.left[Other(l.actor)] = LastLeft(moves, Other(l.actor))
  /\ moves # <<>> =>
       l.st.left[l.actor] >= LastLeft(moves, l.actor)
                             - Chargeable(Cfg, NonNegative(l.at - moves[Len(moves)].at))
                             + Increment(Cfg)
Moves(r) == pc[r] = "append" => Pays(loc[r])

Underway(r) ==
  Creates(r) /\ Finds(r) /\ Timely(r) /\ Current(r) /\ Written(r) /\ Moves(r) /\ Ends(r)

\* The data is sound, but for what the request r is about to put right.
Sound(r) ==
  /\ Cached(r) /\ Offered(r) /\ Underway(r)
  /\ ~Active => Earned(row)
  /\ NeverOvercharged

Only(r) == \A o \in Requests \ {r} : pc[o] = "idle"

InTurnInv == InTurn => \E r \in Requests : Only(r) /\ Sound(r)

-----------------------------------------------------------------------------
(* Turns, and what the log leaves each side. *)

\* The turn passes from one side to the other with every ply.
LEMMA TurnPasses ==
  ASSUME NEW n \in Nat
  PROVE  /\ Turn(n) \in Sides /\ Other(Turn(n)) \in Sides /\ Other(Turn(n)) # Turn(n)
         /\ Turn(n + 1) = Other(Turn(n))
         /\ MoverOf(n) = Other(Turn(n)) /\ MoverOf(n + 1) = Turn(n)
         /\ \A s \in Sides : s = Turn(n) \/ s = Other(Turn(n))
BY DEF Turn, MoverOf, Other, Sides

\* What the log leaves a side is a time.
LEMMA LastLeftOK ==
  ASSUME NEW log \in Seq(MoveRow), NEW s \in Sides
  PROVE  LastLeft(log, s) \in Nat
<1>1. Reconstruct(log, "w", 0) \in ClockState
  BY CfgAssumption, RebuiltClockOK DEF Sides
<1> QED
  BY <1>1 DEF Reconstruct, ClockState

\* A move changes what is left to the mover only.
LEMMA LastLeftGrows ==
  ASSUME NEW log \in Seq(MoveRow), NEW m \in MoveRow, NEW s \in Sides
  PROVE  LastLeft(Append(log, m), s)
           = IF s = Turn(Len(log)) THEN m.left ELSE LastLeft(log, s)
<1> DEFINE long == Append(log, m)
           n == Len(log)
<1>1. n \in Nat /\ Len(long) = n + 1 /\ long[n + 1] = m
  OBVIOUS
<1>2. \A i \in 1..n : long[i] = log[i]
  OBVIOUS
<1> HIDE DEF long, n
<1>3. /\ MoverOf(n) = Other(Turn(n)) /\ MoverOf(n + 1) = Turn(n)
      /\ s = Turn(n) \/ s = Other(Turn(n))
      /\ Other(Turn(n)) # Turn(n)
  BY <1>1, TurnPasses
<1>4. CASE s = Turn(n)
  BY <1>1, <1>3, <1>4 DEF LastLeft, n, long
<1>5. CASE s # Turn(n)
  <2>1. LastLeft(long, s) = IF n < 1 THEN Cfg.base ELSE long[n].left
    BY <1>1, <1>3, <1>5 DEF LastLeft
  <2>2. LastLeft(log, s) = IF n < 1 THEN Cfg.base ELSE log[n].left
    BY <1>3, <1>5 DEF LastLeft, n
  <2>3. ~(n < 1) => long[n] = log[n]
    BY <1>1, <1>2
  <2> QED
    BY <1>5, <2>1, <2>2, <2>3 DEF n, long
<1> QED
  BY <1>4, <1>5 DEF n, long

\* The clock of the log is a clock state.
LEMMA LogClockOK ==
  ASSUME DataOK
  PROVE  /\ LogClock \in ClockState /\ LogClock.turn = Turn(Len(moves))
         /\ LogClock.last \in Nat
         /\ \A s \in Sides : LogClock.left[s] = LastLeft(moves, s)
         /\ moves # <<>> => LogClock.last = moves[Len(moves)].at
<1>1. moves \in Seq(MoveRow) /\ Len(moves) \in Nat
  BY DEF DataOK
<1>2. [s \in Sides |-> LastLeft(moves, s)] \in [Sides -> Nat]
  BY <1>1, LastLeftOK
<1>3. Turn(Len(moves)) \in Sides
  BY <1>1, TurnPasses
<1>4. LogClock.last \in Nat
  <2>1. CASE moves = <<>>
    BY <2>1 DEF LogClock
  <2>2. CASE moves # <<>>
    <3>1. moves[Len(moves)] \in MoveRow
      BY <1>1, <2>2
    <3> QED
      BY <2>2, <3>1 DEF LogClock, MoveRow
  <2> QED
    BY <2>1, <2>2
<1>5. LogClock \in ClockState
  BY <1>2, <1>3, <1>4 DEF LogClock, ClockState
<1> QED
  BY <1>4, <1>5 DEF LogClock

-----------------------------------------------------------------------------
(* The clock a request weighs. *)

\* More time on the wall is never charged less.
LEMMA ChargeGrows ==
  ASSUME NEW st \in ClockState, NEW a \in Int, NEW b \in Int, a <= b
  PROVE  Charge(Cfg, st, a) <= Charge(Cfg, st, b)
BY CfgAssumption DEF Charge, Chargeable, Elapsed, NonNegative, ClockConfig, ClockState

\* A clock that shows what the log leaves and charges no more than the log would.
Behind(st, at) ==
  /\ st.left = LogClock.left /\ st.turn = LogClock.turn
  /\ Charge(Cfg, st, at) <= Charge(Cfg, LogClock, at)

\* The clock rebuilt from the log is such a clock: it charges nothing.
LEMMA RebuiltBehind ==
  ASSUME DataOK, NEW at \in Nat
  PROVE  Behind(Reconstruct(moves, Turn(Len(moves)), at), at)
<1> DEFINE st == Reconstruct(moves, Turn(Len(moves)), at)
<1>1. st.left = LogClock.left /\ st.turn = LogClock.turn /\ st.last = at
  BY DEF Reconstruct, LogClock
<1>2. Charge(Cfg, st, at) = 0
  BY <1>1, CfgAssumption DEF Charge, Chargeable, Elapsed, NonNegative, ClockConfig
<1>3. LogClock \in ClockState /\ at \in Int /\ "w" \in Sides
  BY LogClockOK DEF Sides
<1>4. Charge(Cfg, LogClock, at) \in Nat
  BY <1>3, ClockTypesOK, CfgAssumption
<1> QED
  BY <1>1, <1>2, <1>4 DEF Behind

\* Who has nothing left on such a clock has nothing left by the log, then and ever after.
LEMMA NothingLeft ==
  ASSUME DataOK, NEW st \in ClockState, NEW at \in Nat, NEW s \in Sides, at <= now,
         Behind(st, at), Remaining(Cfg, st, s, at) = 0
  PROVE  Remaining(Cfg, LogClock, s, now) = 0
<1>1. LogClock \in ClockState /\ now \in Int /\ at \in Int
  BY LogClockOK DEF DataOK
<1>2. Charge(Cfg, LogClock, at) <= Charge(Cfg, LogClock, now)
  BY <1>1, ChargeGrows
<1>3. /\ Charge(Cfg, LogClock, at) \in Nat /\ Charge(Cfg, LogClock, now) \in Nat
      /\ Charge(Cfg, st, at) \in Nat /\ LogClock.left[s] \in Nat
  BY <1>1, ClockTypesOK, CfgAssumption DEF ClockState
<1>4. st.left[s] = LogClock.left[s] /\ st.turn = LogClock.turn
      /\ Charge(Cfg, st, at) <= Charge(Cfg, LogClock, at)
  BY DEF Behind
<1> QED
  BY <1>2, <1>3, <1>4 DEF Remaining, NonNegative

\* A verdict on such a clock and on the board of the row is earned.
LEMMA TimeoutEarned ==
  ASSUME DataOK, NEW loser \in Sides, moves # <<>>,
         Remaining(Cfg, LogClock, loser, now) = 0
  PROVE  Earned(TimeoutOf(loser, row.mat)) /\ Stands(TimeoutOf(loser, row.mat))
<1>1. Other(loser) \in Sides /\ Other(Other(loser)) = loser
  BY DEF Other, Sides
<1>2. CASE row.mat[Other(loser)]
  <2>1. TimeoutOf(loser, row.mat) = [status |-> "TIMEOUT", winner |-> Other(loser)]
    BY <1>2 DEF TimeoutOf
  <2> QED
    BY <1>1, <1>2, <2>1 DEF Earned, Stands
<1>3. CASE ~row.mat[Other(loser)]
  BY <1>3 DEF TimeoutOf, Earned, Stands
<1> QED
  BY <1>2, <1>3

\* A move in time pays for no more than the time since the last one.
LEMMA MovePays ==
  ASSUME DataOK, NEW l \in Locals, NEW st \in ClockState, l.actor = Turn(Len(moves)),
         Behind(st, l.at), ~ApplyMove(Cfg, st, l.at).flagged
  PROVE  Pays([l EXCEPT !.st = ApplyMove(Cfg, st, l.at).state])
<1> DEFINE m == [l EXCEPT !.st = ApplyMove(Cfg, st, l.at).state]
           a == Turn(Len(moves))
           c == Charge(Cfg, st, l.at)
<1>1. /\ m.st = ApplyMove(Cfg, st, l.at).state /\ m.actor = a /\ m.at = l.at
      /\ l.at \in Nat
  BY DEF Locals
<1>2. ApplyMove(Cfg, st, l.at).state = AfterMove(Cfg, st, l.at)
  BY DEF ApplyMove
<1>3. /\ LogClock.turn = a /\ \A s \in Sides : LogClock.left[s] = LastLeft(moves, s)
      /\ moves # <<>> => LogClock.last = moves[Len(moves)].at
  BY LogClockOK
<1>4. /\ st.turn = a /\ \A s \in Sides : st.left[s] = LastLeft(moves, s)
      /\ c <= Charge(Cfg, LogClock, l.at)
  BY <1>3 DEF Behind
<1>5. a \in Sides /\ Other(a) \in Sides /\ Other(a) # a
  BY TurnPasses DEF DataOK
<1>6. st.left \in [Sides -> Nat]
  BY DEF ClockState
<1> HIDE DEF a, c, m
<1>7. m.st = [left |-> [st.left EXCEPT ![a] = @ - c + Increment(Cfg)],
              turn |-> Other(a), last |-> l.at]
  BY <1>1, <1>2, <1>4 DEF AfterMove, c
<1>8. m.st.left[a] = LastLeft(moves, a) - c + Increment(Cfg)
  BY <1>4, <1>5, <1>6, <1>7
<1>9. m.st.left[Other(a)] = LastLeft(moves, Other(a))
  BY <1>4, <1>5, <1>6, <1>7
<1>10. moves # <<>> => c <= Chargeable(Cfg, NonNegative(l.at - moves[Len(moves)].at))
  BY <1>3, <1>4 DEF Charge, Elapsed
<1>11. c \in Nat /\ LastLeft(moves, a) \in Nat /\ Increment(Cfg) \in Nat
  <2>1. l.at \in Int
    BY <1>1
  <2>2. c \in Nat
    BY <1>5, <2>1, ClockTypesOK, CfgAssumption DEF c
  <2>3. LastLeft(moves, a) \in Nat
    BY <1>5, LastLeftOK DEF DataOK
  <2> QED
    BY <2>2, <2>3, CfgAssumption DEF Increment, ClockConfig
<1>12. moves # <<>> =>
         Chargeable(Cfg, NonNegative(l.at - moves[Len(moves)].at)) \in Nat
  BY <1>1, <1>3, LogClockOK, CfgAssumption DEF Chargeable, NonNegative, ClockConfig
<1>13. moves # <<>> =>
         m.st.left[a] >= LastLeft(moves, a)
                         - Chargeable(Cfg, NonNegative(l.at - moves[Len(moves)].at))
                         + Increment(Cfg)
  BY <1>8, <1>10, <1>11, <1>12
<1> QED
  BY <1>1, <1>7, <1>9, <1>13 DEF Pays, m

-----------------------------------------------------------------------------
(* Requests in turn. *)

\* A jump moves the one request.
LEMMA Jump ==
  ASSUME RequestsOK, NEW r \in Requests, NEW label, NEW l, Goto(r, label, l)
  PROVE  /\ pc'[r] = label /\ loc'[r] = l
         /\ \A o \in Requests \ {r} : pc'[o] = pc[o]
BY DEF RequestsOK, Goto

\* As long as requests come in turn, the one that runs on is alone, and may rely
\* on the invariant.
LEMMA InTurnStep ==
  ASSUME RequestsOK, InTurnInv, NEW r \in Requests, NEW label, NEW l, Goto(r, label, l),
         crashes' = crashes, InTurn'
  PROVE  InTurn /\ Only(r) /\ Sound(r) /\ Only(r)'
<1>1. InTurn /\ (pc[r] = "idle" => Quiet)
  BY DEF InTurn, Goto
<1>2. PICK q \in Requests : Only(q) /\ Sound(q)
  BY <1>1 DEF InTurnInv
<1>3. Only(r) /\ Sound(r)
  <2>1. CASE q = r
    BY <1>2, <2>1
  <2>2. CASE q # r
    <3>1. pc[r] = "idle"
      BY <1>2, <2>2 DEF Only
    <3>2. \A o \in Requests : pc[o] = "idle"
      BY <1>1, <3>1 DEF Quiet
    <3>3. Only(r) /\ pc[q] = "idle"
      BY <3>2 DEF Only
    <3>4. Cached(r) /\ Offered(r) /\ (~Active => Earned(row)) /\ NeverOvercharged
      BY <1>2, <3>1, <3>3 DEF Sound, Cached, Offered, Committed, Withdrawing
    <3>5. Underway(r)
      BY <3>1 DEF Underway, Creates, Finds, Timely, Current, Written, Ends, Moves, Ending
    <3> QED
      BY <3>3, <3>4, <3>5 DEF Sound
  <2> QED
    BY <2>1, <2>2
<1>4. Only(r)'
  BY <1>3, Jump DEF Only
<1> QED
  BY <1>1, <1>3, <1>4

\* At these places a request relies on nothing.
LEMMA FreeOfCare ==
  ASSUME NEW r \in Requests,
         pc'[r] \in {"idle", "offered", "heal", "cleardraw", "clear", "emit"}
  PROVE  Underway(r)'
BY DEF Underway, Creates, Finds, Timely, Current, Written, Ends, Moves, Ending

\* A step that changes nothing outside the request leaves the data sound.
LEMMA LocalSound ==
  ASSUME NEW r \in Requests, Sound(r), Local, pc[r] \notin Withdrawing, Underway(r)'
  PROVE  Sound(r)'
<1>1. UNCHANGED <<now, row, moves, clock, draw, losses>>
  BY DEF Local, db, redis
<1>2. Active' = Active /\ LogClock' = LogClock
  BY <1>1 DEF Active, LogClock
<1>3. Cached(r)' /\ Offered(r)'
  BY <1>1, <1>2 DEF Sound, Cached, Offered, Committed, Withdrawing
<1>4. NeverOvercharged'
  BY <1>1 DEF Sound, NeverOvercharged
<1>5. ~Active' => Earned(row)'
  BY <1>1, <1>2 DEF Sound, Earned
<1> QED
  BY <1>3, <1>4, <1>5 DEF Sound

\* A verdict that nothing has touched is as earned as before, and stands as before.
LEMMA LocalVerdict ==
  ASSUME NEW r \in Requests, Local, NEW v, Earned(v), Stands(v), loc'[r].fin = v
  PROVE  (Earned(loc[r].fin) /\ Stands(loc[r].fin))'
<1>1. UNCHANGED <<now, row, moves, clock, draw, losses>>
  BY DEF Local, db, redis
<1>2. LogClock' = LogClock
  BY <1>1 DEF LogClock
<1> QED
  BY <1>1, <1>2 DEF Earned, Stands

\* So a request may go on to end the game with it.
LEMMA EndingSound ==
  ASSUME RequestsOK, NEW r \in Requests, Sound(r), Local, pc[r] \notin Withdrawing,
         NEW label \in Ending, NEW l, Goto(r, label, l), Earned(l.fin), Stands(l.fin)
  PROVE  Sound(r)'
<1>1. pc'[r] = label /\ loc'[r] = l
  BY Jump
<1>2. Ends(r)'
  BY <1>1, LocalVerdict DEF Ends
<1>3. Underway(r)'
  BY <1>1, <1>2 DEF Underway, Creates, Finds, Timely, Current, Written, Moves, Ending
<1> QED
  BY <1>3, LocalSound

\* A reply that changes nothing leaves the data sound.
LEMMA ReplySound ==
  ASSUME RequestsOK, NEW r \in Requests, Sound(r), Local, pc[r] \notin Withdrawing, Reply(r)
  PROVE  Sound(r)'
<1>1. pc'[r] = "idle"
  BY Jump DEF Reply
<1> QED
  BY <1>1, FreeOfCare, LocalSound

-----------------------------------------------------------------------------
(* A request arrives and finds its game. *)

LEMMA BeginSound ==
  ASSUME TypeInv, NEW r \in Requests, Sound(r), Begin(r) \/ BeginAbandon(r)
  PROVE  Sound(r)'
<1>1. RequestsOK /\ Local /\ now \in Nat /\ now' = now /\ pc[r] = "idle"
  BY DEF TypeInv, DataOK, Begin, BeginAbandon, Local, At
<1>2. \E l : /\ Goto(r, "find", l) /\ l.at <= now
             /\ l.kind = "abandon" => l.fin.status = "ABANDONED"
  <2>1. CASE Begin(r)
    <3>1. PICK kind \in Handles[r] \ {"abandon"}, actor \in Actors :
            Goto(r, "find", [Blank EXCEPT !.kind = kind, !.actor = actor,
                               !.at = IF kind \in Timed THEN now ELSE 0])
      BY <2>1 DEF Begin
    <3> DEFINE l == [Blank EXCEPT !.kind = kind, !.actor = actor,
                       !.at = IF kind \in Timed THEN now ELSE 0]
    <3>2. l.kind = kind /\ l.at = IF kind \in Timed THEN now ELSE 0
      BY DEF Blank
    <3>3. l.at <= now
      BY <1>1, <3>2
    <3> QED
      BY <3>1, <3>2, <3>3
  <2>2. CASE BeginAbandon(r)
    <3>0. PICK gone \in Sides : \E winner \in {Other(gone), Null} :
            Goto(r, "find", [Blank EXCEPT !.kind = "abandon", !.actor = gone,
                               !.fin = [status |-> "ABANDONED", winner |-> winner]])
      BY <2>2 DEF BeginAbandon
    <3>1. PICK winner \in {Other(gone), Null} :
            Goto(r, "find", [Blank EXCEPT !.kind = "abandon", !.actor = gone,
                               !.fin = [status |-> "ABANDONED", winner |-> winner]])
      BY <3>0
    <3> DEFINE l == [Blank EXCEPT !.kind = "abandon", !.actor = gone,
                       !.fin = [status |-> "ABANDONED", winner |-> winner]]
    <3>2. l.at = 0 /\ l.fin.status = "ABANDONED"
      BY DEF Blank
    <3>3. l.at <= now
      BY <1>1, <3>2
    <3> QED
      BY <3>1, <3>2, <3>3
  <2> QED
    BY <2>1, <2>2
<1>3. PICK l : /\ Goto(r, "find", l) /\ l.at <= now
               /\ l.kind = "abandon" => l.fin.status = "ABANDONED"
  BY <1>2
<1>4. pc'[r] = "find" /\ loc'[r] = l
  BY <1>1, <1>3, Jump
<1>5. Underway(r)'
  BY <1>1, <1>3, <1>4
     DEF Underway, Creates, Finds, Timely, Current, Written, Ends, Moves, Ending
<1> QED
  BY <1>1, <1>5, LocalSound DEF Withdrawing, Committed

\* A request that ends the game by a verdict other than a loss on time or an agreed
\* draw relies on nothing.
LEMMA PlainEnding ==
  ASSUME RequestsOK, NEW r \in Requests, Sound(r), Local, pc[r] \notin Withdrawing,
         NEW l, NEW v, v.status \notin {"TIMEOUT", "DRAW_AGREED"}, BeginFinish(r, l, v)
  PROVE  Sound(r)'
<1> DEFINE m == [Blank EXCEPT !.ply = l.ply, !.at = now, !.fin = v]
<1>1. Goto(r, "list", m) /\ m.fin = v
  BY DEF BeginFinish, Blank
<1>2. Earned(m.fin) /\ Stands(m.fin) /\ "list" \in Ending
  BY <1>1 DEF Earned, Stands, Ending
<1> HIDE DEF m
<1> QED
  BY <1>1, <1>2, EndingSound

\* A request that goes on to weigh the clock has just read the row.
LEMMA ReadySound ==
  ASSUME TypeInv, NEW r \in Requests, Sound(r), Local, pc[r] = "find", Active,
         moves # <<>>, Goto(r, "load", Snapshot(r))
  PROVE  Sound(r)'
<1>1. loc[r] \in Locals /\ RequestsOK
  BY DEF TypeInv, RequestsOK
<1>2. /\ Snapshot(r).at = loc[r].at /\ Snapshot(r).ply = Len(moves)
      /\ Snapshot(r).mat = row.mat
  BY <1>1 DEF Snapshot, Locals
<1>3. pc'[r] = "load" /\ loc'[r] = Snapshot(r)
  BY <1>1, Jump
<1>4. loc[r].at <= now
  BY DEF Sound, Underway, Timely
<1>5. Timely(r)'
  BY <1>2, <1>3, <1>4 DEF Timely, Local
<1>6. Current(r)'
  <2>1. row' = row /\ moves' = moves
    BY DEF Local, db
  <2> QED
    BY <1>2, <1>3, <2>1 DEF Current, Active
<1>7. Underway(r)'
  BY <1>3, <1>5, <1>6 DEF Underway, Creates, Finds, Written, Ends, Moves, Ending
<1> QED
  BY <1>7, LocalSound DEF Withdrawing, Committed

LEMMA FindSound ==
  ASSUME TypeInv, NEW r \in Requests, Sound(r), FindGame(r)
  PROVE  Sound(r)'
<1> DEFINE l == Snapshot(r)
<1>1. RequestsOK /\ loc[r] \in Locals /\ moves \in Seq(MoveRow)
  BY DEF TypeInv, RequestsOK, DataOK
<1>2. Local /\ pc[r] = "find" /\ pc[r] \notin Withdrawing
  BY DEF FindGame, FindForMove, FindForResign, FindForOffer, FindForAccept, FindForAbort,
     FindForClaim, FindForFlag, FindForAbandon, Find, At, Withdrawing, Committed
<1>3. /\ l.ply = Len(moves) /\ l.kind = loc[r].kind /\ l.fin = loc[r].fin
      /\ l.actor = loc[r].actor /\ l.at = loc[r].at
  BY <1>1 DEF Snapshot, Locals
<1>4. l.ply # 0 => moves # <<>>
  BY <1>1, <1>3
<1>5. CASE Reply(r)
  BY <1>1, <1>2, <1>5, ReplySound
<1>6. CASE Active /\ moves # <<>> /\ Goto(r, "load", l)
  BY <1>2, <1>6, ReadySound
<1>7. ASSUME NEW label \in {"offered", "getoffer"}, NEW m, Goto(r, label, m), Active
      PROVE  Sound(r)'
  <2>1. pc'[r] = label /\ Active'
    BY <1>1, <1>2, <1>7, Jump DEF Local, db, Active
  <2>2. Underway(r)'
    BY <2>1 DEF Underway, Creates, Finds, Timely, Current, Written, Ends, Moves, Ending
  <2> QED
    BY <1>2, <2>2, LocalSound
<1>8. ASSUME NEW v, v.status \notin {"TIMEOUT", "DRAW_AGREED"}, BeginFinish(r, l, v)
      PROVE  Sound(r)'
  BY <1>1, <1>2, <1>8, PlainEnding
<1>9. CASE FindForMove(r)
  <2>1. CASE l.ply # 0 \/ ~Admitted(l) \/ Turn(l.ply) # l.actor
    BY <1>4, <1>5, <1>6, <1>9, <2>1 DEF FindForMove, Admitted
  <2>2. CASE l.ply = 0 /\ Admitted(l) /\ Turn(l.ply) = l.actor
    <3> DEFINE m == [l EXCEPT !.st = CreateClock(Cfg, "b", l.at)]
    <3>1. Goto(r, "append", m)
      BY <1>9, <2>2 DEF FindForMove
    <3>2. moves = <<>> /\ l.actor = "w"
      <4>1. Turn(0) = "w"
        BY DEF Turn
      <4>2. Len(moves) = 0 /\ l.actor = Turn(0)
        BY <1>3, <2>2
      <4> HIDE DEF l
      <4> QED
        BY <1>1, <4>1, <4>2
    <3>3. m.st = CreateClock(Cfg, "b", l.at) /\ m.at = l.at /\ m.actor = l.actor
      <4>1. l \in Locals
        BY SnapshotOK DEF TypeInv
      <4> QED
        BY <4>1 DEF Locals
    <3>4. LastLeft(moves, "b") = Cfg.base
      BY <3>2 DEF LastLeft, MoverOf, Turn, Other
    <3>5. Pays(m)
      BY <3>2, <3>3, <3>4 DEF Pays, CreateClock, Other, Sides
    <3>6. pc'[r] = "append" /\ loc'[r] = m
      BY <1>1, <3>1, Jump
    <3> HIDE DEF m
    <3>7. Moves(r)'
      <4>1. moves' = moves
        BY <1>2 DEF Local, db
      <4> QED
        BY <3>5, <3>6, <4>1 DEF Moves, Pays
    <3>8. Underway(r)'
      BY <3>6, <3>7 DEF Underway, Creates, Finds, Timely, Current, Written, Ends, Ending
    <3> QED
      BY <1>2, <3>8, LocalSound
  <2> QED
    BY <2>1, <2>2
<1>10. CASE FindForResign(r)
  BY <1>5, <1>8, <1>10 DEF FindForResign
<1>11. CASE FindForOffer(r)
  BY <1>5, <1>7, <1>11 DEF FindForOffer, Admitted
<1>12. CASE FindForAccept(r)
  BY <1>5, <1>7, <1>12 DEF FindForAccept, Admitted
<1>13. CASE FindForAbort(r)
  BY <1>5, <1>8, <1>13 DEF FindForAbort
<1>14. CASE FindForClaim(r)
  BY <1>4, <1>5, <1>6, <1>14 DEF FindForClaim, Admitted
<1>15. CASE FindForFlag(r)
  BY <1>4, <1>5, <1>6, <1>15 DEF FindForFlag
<1>16. CASE FindForAbandon(r)
  <2>1. l.fin.status = "ABANDONED"
    BY <1>2, <1>3, <1>16 DEF Sound, Underway, Finds, FindForAbandon, Find
  <2> QED
    BY <1>5, <1>8, <1>16, <2>1 DEF FindForAbandon
<1> QED
  BY <1>9, <1>10, <1>11, <1>12, <1>13, <1>14, <1>15, <1>16 DEF FindGame

-----------------------------------------------------------------------------
(* A request weighs the clock. *)

\* Whoever is found to have overrun such a clock has lost on time by the log.
LEMMA TimeoutSound ==
  ASSUME TypeInv, NEW r \in Requests, Sound(r), Local, pc[r] \in {"load", "rebuild"},
         NEW l \in Locals, l.at = loc[r].at, l.mat = loc[r].mat,
         NEW st \in ClockState, Behind(st, l.at), NEW loser \in Sides,
         Remaining(Cfg, st, loser, l.at) = 0, NEW end, BeginTimeout(r, l, loser, end)
  PROVE  Sound(r)'
<1>1. DataOK /\ RequestsOK /\ l.at \in Nat
  BY DEF TypeInv, Locals
<1>2. moves # <<>> /\ l.mat = row.mat /\ l.at <= now
  BY DEF Sound, Underway, Current, Timely
<1>3. Remaining(Cfg, LogClock, loser, now) = 0
  BY <1>1, <1>2, NothingLeft
<1>4. Earned(TimeoutOf(loser, l.mat)) /\ Stands(TimeoutOf(loser, l.mat))
  BY <1>1, <1>2, <1>3, TimeoutEarned
<1> DEFINE m == [Blank EXCEPT !.st = end, !.fin = TimeoutOf(loser, l.mat)]
<1>5. Goto(r, "pgn", m) /\ m.fin = TimeoutOf(loser, l.mat)
  BY DEF BeginTimeout, Blank
<1> HIDE DEF m
<1> QED
  BY <1>1, <1>4, <1>5, EndingSound DEF Ending, Withdrawing, Committed

LEMMA WeighSound ==
  ASSUME TypeInv, NEW r \in Requests, Sound(r), Local, pc[r] \in {"load", "rebuild"},
         NEW l \in Locals, l.kind = loc[r].kind, l.actor = loc[r].actor, l.ply = loc[r].ply,
         l.at = loc[r].at, l.mat = loc[r].mat,
         NEW st \in ClockState, Behind(st, l.at), Weigh(r, l, st)
  PROVE  Sound(r)'
<1>1. DataOK /\ RequestsOK /\ l.at \in Int /\ l.at \in Nat /\ pc[r] \notin Withdrawing
  BY DEF TypeInv, Locals, Withdrawing, Committed
<1>2. moves # <<>> /\ l.ply = Len(moves) /\ l.mat = row.mat /\ l.at <= now
  BY DEF Sound, Underway, Current, Timely
<1>3. st.turn \in Sides /\ st.left \in [Sides -> Nat] /\ st.turn = Turn(Len(moves))
  BY <1>1, LogClockOK DEF ClockState, Behind
<1>4. CASE Reply(r)
  BY <1>1, <1>4, ReplySound
<1>5. ASSUME NEW loser \in Sides, Remaining(Cfg, st, loser, l.at) = 0,
             NEW end, BeginTimeout(r, l, loser, end)
      PROVE  Sound(r)'
  BY <1>5, TimeoutSound
<1>6. \A s \in Sides : Remaining(Cfg, st, s, l.at) \in Nat
  BY <1>1, ClockTypesOK, CfgAssumption
<1>7. CASE WeighMove(r, l, st)
  <2>1. l.kind = "move" /\ l.actor = Turn(Len(moves))
    BY <1>2, <1>7 DEF WeighMove, TypeInv, ControlInv, ControlOK
  <2>2. CASE ApplyMove(Cfg, st, l.at).flagged
    <3>1. Charge(Cfg, st, l.at) > st.left[st.turn]
      BY <2>2 DEF ApplyMove
    <3>2. Charge(Cfg, st, l.at) \in Nat
      BY <1>1, <1>3, ClockTypesOK, CfgAssumption
    <3>3. Remaining(Cfg, st, st.turn, l.at) = 0
      BY <1>3, <3>1, <3>2 DEF Remaining, NonNegative
    <3> QED
      BY <1>3, <1>5, <1>7, <2>1, <2>2, <3>3 DEF WeighMove
  <2>3. CASE ~ApplyMove(Cfg, st, l.at).flagged
    <3> DEFINE m == [l EXCEPT !.st = ApplyMove(Cfg, st, l.at).state]
    <3>1. Goto(r, "append", m)
      BY <1>7, <2>3 DEF WeighMove
    <3>2. Pays(m)
      BY <1>1, <2>1, <2>3, MovePays
    <3> HIDE DEF m
    <3>3. pc'[r] = "append" /\ loc'[r] = m /\ moves' = moves
      BY <1>1, <3>1, Jump DEF Local, db
    <3>4. Moves(r)'
      BY <3>2, <3>3 DEF Moves, Pays
    <3>5. Underway(r)'
      BY <3>3, <3>4 DEF Underway, Creates, Finds, Timely, Current, Written, Ends, Ending
    <3> QED
      BY <1>1, <3>5, LocalSound
  <2> QED
    BY <2>2, <2>3
<1>8. CASE WeighClaim(r, l, st)
  <2>1. Other(l.actor) \in Sides
    BY DEF Other, Sides
  <2>2. CASE Remaining(Cfg, st, Other(l.actor), l.at) > 0
    BY <1>4, <1>8, <2>2 DEF WeighClaim
  <2>3. CASE ~(Remaining(Cfg, st, Other(l.actor), l.at) > 0)
    <3>1. Remaining(Cfg, st, Other(l.actor), l.at) = 0
      BY <1>6, <2>1, <2>3
    <3> QED
      BY <1>5, <1>8, <2>1, <2>3, <3>1 DEF WeighClaim
  <2> QED
    BY <2>2, <2>3
<1>9. CASE WeighFlag(r, l, st)
  <2>1. CASE Remaining(Cfg, st, st.turn, l.at) > 0
    BY <1>4, <1>9, <2>1 DEF WeighFlag
  <2>2. CASE ~(Remaining(Cfg, st, st.turn, l.at) > 0)
    <3>1. Remaining(Cfg, st, st.turn, l.at) = 0
      BY <1>3, <1>6, <2>2
    <3> QED
      BY <1>3, <1>5, <1>9, <2>2, <3>1 DEF WeighFlag
  <2> QED
    BY <2>1, <2>2
<1> QED
  BY <1>7, <1>8, <1>9 DEF Weigh

LEMMA LoadSound ==
  ASSUME TypeInv, NEW r \in Requests, Sound(r), LoadClock(r)
  PROVE  Sound(r)'
<1>1. Local /\ pc[r] = "load" /\ RequestsOK /\ DataOK /\ loc[r] \in Locals
  BY DEF LoadClock, At, TypeInv, RequestsOK
<1>2. CASE clock = Null
  <2>1. pc'[r] = "rebuild" /\ loc'[r] = loc[r]
    BY <1>1, <1>2, Jump DEF LoadClock
  <2>2. UNCHANGED <<row, moves, now>>
    BY <1>1 DEF Local, db
  <2>3. Timely(r)' /\ Current(r)'
    BY <1>1, <2>1, <2>2 DEF Sound, Underway, Timely, Current, Active
  <2>4. Underway(r)'
    BY <2>1, <2>3 DEF Underway, Creates, Finds, Written, Ends, Moves, Ending
  <2> QED
    BY <1>1, <2>4, LocalSound DEF Withdrawing, Committed
<1>3. CASE clock # Null
  <2> DEFINE l == [loc[r] EXCEPT !.ver = clock.ver]
  <2>1. clock \in ClockEntry
    BY <1>1, <1>3 DEF DataOK
  <2>2. l \in Locals
    BY <1>1, <2>1, LocalsOK DEF ClockEntry
  <2>3. /\ l.kind = loc[r].kind /\ l.actor = loc[r].actor /\ l.ply = loc[r].ply
        /\ l.at = loc[r].at /\ l.mat = loc[r].mat /\ l.at \in Int
    BY <1>1 DEF Locals
  <2>4. Weigh(r, l, clock.st)
    BY <1>3 DEF LoadClock
  <2> HIDE DEF l
  <2>5. clock.st = LogClock
    BY <1>1, <1>3 DEF Sound, Cached, Committed, Underway, Current
  <2>6. LogClock \in ClockState
    BY <1>1, LogClockOK
  <2>7. Behind(clock.st, l.at)
    <3>1. Charge(Cfg, LogClock, l.at) \in Nat
      BY <2>3, <2>6, ClockTypesOK, CfgAssumption DEF Sides
    <3> QED
      BY <2>5, <3>1 DEF Behind
  <2> QED
    BY <1>1, <2>2, <2>3, <2>4, <2>5, <2>6, <2>7, WeighSound
<1> QED
  BY <1>2, <1>3

LEMMA RebuildSound ==
  ASSUME TypeInv, NEW r \in Requests, Sound(r), RebuildClock(r)
  PROVE  Sound(r)'
<1>1. Local /\ pc[r] = "rebuild" /\ DataOK /\ RequestsOK /\ loc[r] \in Locals
  BY DEF RebuildClock, At, TypeInv, RequestsOK
<1>2. loc[r].at \in Nat /\ loc[r].ply = Len(moves)
  BY <1>1 DEF Locals, Sound, Underway, Current
<1> DEFINE st == Reconstruct(moves, Turn(loc[r].ply), loc[r].at)
<1>3. st \in ClockState
  BY <1>1, SnapshotOK
<1>4. Behind(st, loc[r].at)
  BY <1>1, <1>2, RebuiltBehind
<1>5. Weigh(r, loc[r], st)
  BY DEF RebuildClock
<1> HIDE DEF st
<1> QED
  BY <1>1, <1>3, <1>4, <1>5, WeighSound

-----------------------------------------------------------------------------
(* A move is appended, and its clock written. *)

\* A longer log has the same beginnings.
LEMMA SameBeginning ==
  ASSUME NEW log \in Seq(MoveRow), NEW m \in MoveRow, NEW n \in 1..Len(log)
  PROVE  SubSeq(Append(log, m), 1, n) = SubSeq(log, 1, n)
<1>1. Append(log, m) = log \o <<m>> /\ <<m>> \in Seq(MoveRow)
  BY AppendIsConcat
<1>2. 1 \in 1..Len(log)
  OBVIOUS
<1> QED
  BY <1>1, <1>2, SubSeqOfConcat1

\* What NeverOvercharged says of one move of a log.
PaidFor(log, n) ==
  log[n].left >= LastLeft(SubSeq(log, 1, n - 1), log[n].side)
                 - Chargeable(Cfg, NonNegative(log[n].at - log[n - 1].at))
                 + Increment(Cfg)

\* A move that pays for no more than its time keeps the whole log so.
LEMMA StillPaid ==
  ASSUME NEW log \in Seq(MoveRow), NEW m \in MoveRow,
         \A n \in 2..Len(log) : PaidFor(log, n),
         log # <<>> => m.left >= LastLeft(log, m.side)
                                 - Chargeable(Cfg, NonNegative(m.at - log[Len(log)].at))
                                 + Increment(Cfg)
  PROVE  \A n \in 2..Len(Append(log, m)) : PaidFor(Append(log, m), n)
<1> DEFINE long == Append(log, m)
<1>1. /\ long \in Seq(MoveRow) /\ Len(long) = Len(log) + 1 /\ Len(log) \in Nat
      /\ \A i \in 1..Len(log) : long[i] = log[i]
      /\ long[Len(log) + 1] = m
  BY AppendProperties
<1>2. \A i \in 1..Len(log) : SubSeq(long, 1, i) = SubSeq(log, 1, i)
  BY SameBeginning
<1> HIDE DEF long
<1> SUFFICES ASSUME NEW n \in 2..Len(long) PROVE PaidFor(long, n)
  BY DEF long
<1>3. n \in Nat /\ n - 1 \in 1..Len(log)
  BY <1>1
<1>4. SubSeq(long, 1, n - 1) = SubSeq(log, 1, n - 1) /\ long[n - 1] = log[n - 1]
  BY <1>1, <1>2, <1>3
<1>5. CASE n \in 2..Len(log)
  <2>1. long[n] = log[n]
    BY <1>1, <1>5
  <2>2. PaidFor(log, n)
    BY <1>5
  <2> QED
    BY <1>4, <2>1, <2>2 DEF PaidFor
<1>6. CASE n = Len(log) + 1
  <2>1. long[n] = m /\ n - 1 = Len(log) /\ log # <<>>
    BY <1>1, <1>3, <1>6
  <2>2. SubSeq(log, 1, Len(log)) = log
    BY SubSeqFull
  <2> QED
    BY <1>4, <2>1, <2>2 DEF PaidFor
<1> QED
  BY <1>1, <1>5, <1>6

LEMMA AppendSound ==
  ASSUME TypeInv, NEW r \in Requests, Sound(r), AppendMove(r)
  PROVE  Sound(r)'
<1> DEFINE l == loc[r]
           m == [side |-> l.actor, left |-> l.st.left[l.actor], at |-> l.at]
<1>1. DataOK /\ RequestsOK /\ l \in Locals /\ pc[r] = "append"
  BY DEF TypeInv, RequestsOK, AppendMove, At
<1>2. Active /\ l.ply = Len(moves) /\ l.actor = Turn(Len(moves)) /\ moves' = Append(moves, m)
  BY DEF AppendMove, CanAppend, WhereActive, LoggedLeft, TypeInv, ControlInv, ControlOK, At
<1>3. Pays(l)
  BY <1>1 DEF Sound, Underway, Moves
<1>4. moves \in Seq(MoveRow) /\ Len(moves) \in Nat
  BY <1>1 DEF DataOK
<1>5. l.actor \in Sides /\ Other(l.actor) \in Sides /\ Other(l.actor) # l.actor
  BY <1>2, <1>4, TurnPasses
<1>6. m \in MoveRow
  BY <1>1, <1>5 DEF MoveRow, Locals, ClockState
<1>7. moves' \in Seq(MoveRow) /\ Len(moves') = Len(moves) + 1 /\ moves'[Len(moves')] = m
  BY <1>2, <1>4, <1>6, AppendProperties
<1>8. NeverOvercharged'
  <2>1. \A n \in 2..Len(moves) : PaidFor(moves, n)
    BY DEF Sound, NeverOvercharged, PaidFor
  <2>2. moves # <<>> => m.left >= LastLeft(moves, m.side)
                                  - Chargeable(Cfg, NonNegative(m.at - moves[Len(moves)].at))
                                  + Increment(Cfg)
    BY <1>3 DEF Pays
  <2> HIDE DEF m, l
  <2>3. \A n \in 2..Len(moves') : PaidFor(moves', n)
    BY <1>2, <1>4, <1>6, <2>1, <2>2, StillPaid
  <2> QED
    BY <2>3 DEF NeverOvercharged, PaidFor
<1>9. LogClock' = l.st
  <2>1. \A s \in Sides : LastLeft(moves', s) = l.st.left[s]
    <3> SUFFICES ASSUME NEW s \in Sides PROVE LastLeft(moves', s) = l.st.left[s]
      OBVIOUS
    <3>1. LastLeft(moves', s) = IF s = l.actor THEN m.left ELSE LastLeft(moves, s)
      BY <1>2, <1>4, <1>6, LastLeftGrows
    <3>2. s = l.actor \/ s = Other(l.actor)
      BY <1>2, <1>4, TurnPasses
    <3> QED
      BY <1>3, <1>5, <3>1, <3>2 DEF Pays
  <2>2. l.st.left \in [Sides -> Nat] /\ l.st = [left |-> l.st.left, turn |-> l.st.turn,
                                                last |-> l.st.last]
    BY <1>1 DEF Locals, ClockState
  <2>3. [s \in Sides |-> LastLeft(moves', s)] = l.st.left
    BY <2>1, <2>2
  <2>4. Turn(Len(moves')) = l.st.turn
    BY <1>2, <1>3, <1>4, <1>7, TurnPasses DEF Pays
  <2>5. moves' # <<>> /\ moves'[Len(moves')].at = l.st.last
    BY <1>3, <1>4, <1>7 DEF Pays
  <2>6. LogClock' = [left |-> l.st.left, turn |-> l.st.turn, last |-> l.st.last]
    BY <2>3, <2>4, <2>5 DEF LogClock
  <2> QED
    BY <2>2, <2>6
<1>10. PICK end \in {"ACTIVE"} \cup PositionEnds, mates \in BOOLEAN :
         LET mat == [l.mat EXCEPT ![Other(l.actor)] = @ /\ mates]
             appended == Append(moves, [side |-> l.actor, left |-> LoggedLeft(l), at |-> l.at])
         IN  IF end = "ACTIVE"
             THEN /\ row' = [row EXCEPT !.mat = mat]
                  /\ Goto(r, IF l.ver = 0 THEN "init" ELSE "cas",
                          [Blank EXCEPT !.ver = l.ver, !.st = l.st])
             ELSE /\ row' = RowEndedByMove(l, end, appended, mat)
                  /\ Goto(r, "clear", Blank)
  BY DEF AppendMove
<1>11. CASE end = "ACTIVE"
  <2> DEFINE b == [Blank EXCEPT !.ver = l.ver, !.st = l.st]
             label == IF l.ver = 0 THEN "init" ELSE "cas"
  <2>1. Goto(r, label, b) /\ b.st = l.st
    BY <1>10, <1>11 DEF Blank
  <2>2. pc'[r] \in {"init", "cas"} /\ loc'[r].st = l.st
    BY <1>1, <2>1, Jump
  <2>3. Underway(r)'
    BY <1>9, <2>2 DEF Underway, Creates, Finds, Timely, Current, Written, Ends, Moves, Ending
  <2>4. row'.status = row.status
    BY <1>1, <1>10, <1>11 DEF DataOK, Row
  <2> QED
    BY <1>2, <1>8, <2>2, <2>3, <2>4
       DEF Sound, Cached, Offered, Committed, Withdrawing, Active
<1>12. CASE end # "ACTIVE"
  <2>1. row'.status = end /\ Goto(r, "clear", Blank)
    BY <1>10, <1>12 DEF RowEndedByMove
  <2>2. pc'[r] = "clear"
    BY <1>1, <2>1, Jump
  <2>3. Underway(r)'
    BY <2>2, FreeOfCare
  <2>4. end \notin {"ACTIVE", "TIMEOUT"}
    BY <1>12 DEF PositionEnds
  <2>5. ~Active' /\ Earned(row)'
    BY <2>1, <2>4 DEF Active, Earned
  <2> QED
    BY <1>8, <2>3, <2>5 DEF Sound, Cached, Offered
<1> QED
  BY <1>11, <1>12

\* A step that writes no more than Redis has only its keys to account for.
LEMMA RedisSound ==
  ASSUME NEW r \in Requests, Sound(r), UNCHANGED <<now, row, moves>>,
         Cached(r)', Offered(r)', Underway(r)'
  PROVE  Sound(r)'
<1>1. Active' = Active /\ LogClock' = LogClock
  BY DEF Active, LogClock
<1>2. NeverOvercharged'
  BY DEF Sound, NeverOvercharged
<1>3. ~Active' => Earned(row)'
  BY <1>1 DEF Sound, Earned
<1> QED
  BY <1>2, <1>3 DEF Sound

\* Creating the game writes the clock of the empty log.
LEMMA CreateSound ==
  ASSUME TypeInv, NEW r \in Requests, Sound(r), Create(r)
  PROVE  Sound(r)'
<1>1. RequestsOK /\ pc[r] = "create" /\ loc[r].st = LogClock
  BY DEF TypeInv, Create, At, Sound, Underway, Creates
<1>2. pc'[r] = "idle"
  BY <1>1, Jump DEF Create, Reply
<1>3. UNCHANGED <<now, row, moves, draw, losses>> /\ LogClock' = LogClock
  BY DEF Create, db, LogClock
<1>4. clock'.st = LogClock
  BY <1>1 DEF Create
<1>5. Cached(r)'
  BY <1>3, <1>4 DEF Cached
<1>6. Offered(r)'
  BY <1>1, <1>3 DEF Sound, Offered, Active, Withdrawing, Committed
<1> QED
  BY <1>2, <1>3, <1>5, <1>6, FreeOfCare, RedisSound

\* After a move the request brings the clock up to date, or drops it, and then
\* withdraws the draw offer.
LEMMA WriteSound ==
  ASSUME TypeInv, NEW r \in Requests, Sound(r),
         InitClock(r) \/ UpdateClock(r) \/ HealClock(r) \/ ClearDraw(r)
  PROVE  Sound(r)'
<1>1. RequestsOK /\ UNCHANGED <<now, row, moves, losses>> /\ LogClock' = LogClock
  BY DEF TypeInv, InitClock, UpdateClock, HealClock, ClearDraw, db, LogClock
<1>2. CASE InitClock(r)
  <2>1. pc'[r] = "cleardraw" /\ clock'.st = LogClock
    BY <1>1, <1>2, Jump DEF InitClock, At, Sound, Underway, Written
  <2>2. Cached(r)' /\ Offered(r)'
    BY <1>1, <2>1 DEF Cached, Offered, Withdrawing
  <2> QED
    BY <1>1, <2>1, <2>2, FreeOfCare, RedisSound
<1>3. CASE UpdateClock(r)
  <2> DEFINE matches == clock # Null /\ clock.ver = loc[r].ver
  <2>1. pc'[r] = (IF matches THEN "cleardraw" ELSE "heal")
    BY <1>1, <1>3, Jump DEF UpdateClock
  <2>2. matches => clock'.st = LogClock
    BY <1>3 DEF UpdateClock, At, Sound, Underway, Written
  <2>3. Cached(r)' /\ Offered(r)'
    BY <1>1, <2>1, <2>2 DEF Cached, Offered, Withdrawing, Committed
  <2> QED
    BY <1>1, <2>1, <2>3, FreeOfCare, RedisSound
<1>4. CASE HealClock(r)
  <2>1. pc'[r] = "cleardraw" /\ clock' = Null
    BY <1>1, <1>4, Jump DEF HealClock
  <2>2. Cached(r)' /\ Offered(r)'
    BY <1>1, <2>1 DEF Cached, Offered, Withdrawing
  <2> QED
    BY <1>1, <2>1, <2>2, FreeOfCare, RedisSound
<1>5. CASE ClearDraw(r)
  <2>1. pc[r] = "cleardraw" /\ pc'[r] = "idle" /\ draw' = Null /\ clock' = clock
    BY <1>1, <1>5, Jump DEF ClearDraw, At, Reply
  <2>2. Cached(r)' /\ Offered(r)'
    BY <1>1, <2>1 DEF Sound, Cached, Offered, Active, Committed
  <2> QED
    BY <1>1, <2>1, <2>2, FreeOfCare, RedisSound
<1> QED
  BY <1>2, <1>3, <1>4, <1>5

-----------------------------------------------------------------------------
(* Draws, and the end of the game. *)

LEMMA OfferSound ==
  ASSUME TypeInv, NEW r \in Requests, Sound(r), SetOffer(r)
  PROVE  Sound(r)'
<1>1. RequestsOK /\ UNCHANGED <<now, row, moves, clock, losses>> /\ LogClock' = LogClock
  BY DEF TypeInv, SetOffer, db, LogClock
<1>2. pc[r] = "offered" /\ pc'[r] = "idle"
  BY <1>1, Jump DEF SetOffer, At, Reply
<1>3. Cached(r)'
  BY <1>1, <1>2 DEF Sound, Cached, Active, Committed
<1>4. Offered(r)'
  BY <1>1 DEF SetOffer, Offered
<1> QED
  BY <1>1, <1>2, <1>3, <1>4, FreeOfCare, RedisSound

\* Accepting a draw relies on the offer that stands.
LEMMA AcceptSound ==
  ASSUME TypeInv, NEW r \in Requests, Sound(r), GetOffer(r)
  PROVE  Sound(r)'
<1>1. RequestsOK /\ Local /\ pc[r] = "getoffer" /\ pc[r] \notin Withdrawing
  BY DEF TypeInv, GetOffer, At, Withdrawing, Committed
<1>2. CASE ~Acceptable(loc[r].actor)
  BY <1>1, <1>2, ReplySound DEF GetOffer
<1>3. CASE Acceptable(loc[r].actor)
  <2> DEFINE v == [status |-> "DRAW_AGREED", winner |-> Null]
             m == [Blank EXCEPT !.ply = loc[r].ply, !.at = now, !.fin = v]
  <2>1. Goto(r, "list", m) /\ m.fin = v
    BY <1>3 DEF GetOffer, BeginFinish, Blank
  <2>2. losses = 0 => draw # Null /\ draw.ply = Len(moves)
    BY <1>1, <1>3 DEF Sound, Offered, Acceptable, Underway, Current
  <2>3. Earned(m.fin) /\ Stands(m.fin)
    BY <2>1, <2>2 DEF Earned, Stands
  <2> HIDE DEF m
  <2> QED
    BY <1>1, <2>1, <2>3, EndingSound DEF Ending
<1> QED
  BY <1>2, <1>3

\* On its way to the verdict a request keeps it.
LEMMA OnTheWaySound ==
  ASSUME TypeInv, NEW r \in Requests, Sound(r),
         ListMoves(r) \/ ReadClock(r) \/ ListForPgn(r) \/ FinishLost(r)
  PROVE  Sound(r)'
<1>1. RequestsOK /\ Local /\ loc[r] \in Locals /\ pc[r] \in Ending /\ pc[r] \notin Withdrawing
  BY DEF TypeInv, RequestsOK, ListMoves, ReadClock, ListForPgn, FinishLost, At,
     Ending, Withdrawing, Committed
<1>2. Earned(loc[r].fin) /\ Stands(loc[r].fin)
  BY <1>1 DEF Sound, Underway, Ends
<1>3. CASE FinishLost(r)
  BY <1>1, <1>3, ReplySound DEF FinishLost
<1>4. CASE ListMoves(r)
  <2> DEFINE m == [loc[r] EXCEPT !.seen = Len(moves),
                     !.st = Reconstruct(moves, Turn(loc[r].ply), loc[r].at)]
  <2>1. Goto(r, "read", m) /\ m.fin = loc[r].fin
    BY <1>1, <1>4 DEF ListMoves, Locals
  <2> HIDE DEF m
  <2> QED
    BY <1>1, <1>2, <2>1, EndingSound DEF Ending
<1>5. CASE ReadClock(r)
  <2>1. PICK end : Goto(r, "finish", [loc[r] EXCEPT !.st = end, !.ply = 0, !.at = 0])
    BY <1>5 DEF ReadClock
  <2>2. [loc[r] EXCEPT !.st = end, !.ply = 0, !.at = 0].fin = loc[r].fin
    BY <1>1 DEF Locals
  <2> QED
    BY <1>1, <1>2, <2>1, <2>2, EndingSound DEF Ending
<1>6. CASE ListForPgn(r)
  <2> DEFINE m == [loc[r] EXCEPT !.seen = Len(moves)]
  <2>1. Goto(r, "finish", m) /\ m.fin = loc[r].fin
    BY <1>1, <1>6 DEF ListForPgn, Locals
  <2> HIDE DEF m
  <2> QED
    BY <1>1, <1>2, <2>1, EndingSound DEF Ending
<1> QED
  BY <1>3, <1>4, <1>5, <1>6

\* The verdict the row takes over is the one the request has earned.
LEMMA FinishSound ==
  ASSUME TypeInv, NEW r \in Requests, Sound(r), FinishGame(r)
  PROVE  Sound(r)'
<1>1. RequestsOK /\ UNCHANGED <<now, moves>> /\ pc[r] = "finish" /\ loc[r].fin \in Verdict
  BY DEF TypeInv, ControlInv, ControlOK, FinishGame, At
<1>2. pc'[r] = "clear"
  BY <1>1, Jump DEF FinishGame
<1>3. row'.status = loc[r].fin.status /\ row'.winner = loc[r].fin.winner /\ row'.mat = row.mat
  BY DEF FinishGame
<1>4. Earned(loc[r].fin)
  BY <1>1 DEF Sound, Underway, Ends, Ending
<1>5. LogClock' = LogClock
  BY <1>1 DEF LogClock
<1>6. Earned(row)'
  BY <1>1, <1>3, <1>4, <1>5 DEF Earned
<1>7. ~Active'
  BY <1>1, <1>3 DEF Active, Verdict
<1>8. NeverOvercharged'
  BY <1>1 DEF Sound, NeverOvercharged
<1> QED
  BY <1>2, <1>6, <1>7, <1>8, FreeOfCare DEF Sound, Cached, Offered

LEMMA CloseSound ==
  ASSUME TypeInv, NEW r \in Requests, Sound(r), ClearClock(r) \/ EmitFinished(r)
  PROVE  Sound(r)'
<1>1. RequestsOK /\ UNCHANGED <<now, row, moves, losses>> /\ LogClock' = LogClock
  BY DEF TypeInv, ClearClock, EmitFinished, db, LogClock
<1>2. CASE ClearClock(r)
  <2>1. pc'[r] = "emit" /\ clock' = Null /\ draw' = Null
    BY <1>1, <1>2, Jump DEF ClearClock
  <2>2. Cached(r)' /\ Offered(r)'
    BY <2>1 DEF Cached, Offered
  <2> QED
    BY <1>1, <2>1, <2>2, FreeOfCare, RedisSound
<1>3. CASE EmitFinished(r)
  <2>1. pc[r] = "emit" /\ pc'[r] = "idle" /\ clock' = clock /\ draw' = draw
    BY <1>1, <1>3, Jump DEF EmitFinished, At, Reply, redis
  <2>2. Cached(r)' /\ Offered(r)'
    BY <1>1, <2>1 DEF Sound, Cached, Offered, Active, Committed, Withdrawing
  <2> QED
    BY <1>1, <2>1, <2>2, FreeOfCare, RedisSound
<1> QED
  BY <1>2, <1>3

-----------------------------------------------------------------------------
(* The invariant is inductive. *)

LEMMA InTurnInit == Init => InTurnInv
<1> SUFFICES ASSUME Init PROVE InTurnInv
  OBVIOUS
<1>1. PICK creator \in Requests :
        pc = [r \in Requests |-> IF r = creator THEN "create" ELSE "idle"]
  BY DEF Init
<1>2. pc[creator] = "create" /\ loc[creator] = Blank /\ Only(creator)
  BY <1>1 DEF Init, Only
<1>3. moves = <<>> /\ clock = Null /\ draw = Null /\ row.status = "ACTIVE"
  BY DEF Init
<1>4. Blank.st = LogClock
  <2>1. \A s \in Sides : LastLeft(<<>>, s) = Cfg.base
    BY DEF LastLeft, MoverOf, Turn, Other, Sides
  <2>2. Turn(0) = "w"
    BY DEF Turn
  <2> QED
    BY <1>3, <2>1, <2>2 DEF Blank, CreateClock, LogClock
<1>5. Underway(creator)
  BY <1>2, <1>3, <1>4
     DEF Underway, Creates, Finds, Timely, Current, Written, Ends, Moves, Ending
<1>6. NeverOvercharged
  BY <1>3 DEF NeverOvercharged
<1> QED
  BY <1>2, <1>3, <1>5, <1>6 DEF InTurnInv, Sound, Cached, Offered, Active

\* A step of the one request that is under way leaves the data sound.
LEMMA RequestSound ==
  ASSUME TypeInv, NEW r \in Requests, Sound(r), Begin(r) \/ BeginAbandon(r) \/ Advance(r)
  PROVE  Sound(r)'
<1>1. RequestsOK
  BY DEF TypeInv
<1>2. CASE RejectIllegal(r) \/ AppendConflict(r)
  BY <1>1, <1>2, ReplySound DEF RejectIllegal, AppendConflict, At, Withdrawing, Committed
<1> QED
  BY <1>2, BeginSound, CreateSound, FindSound, LoadSound, RebuildSound, AppendSound,
     WriteSound, OfferSound, AcceptSound, OnTheWaySound, FinishSound, CloseSound
     DEF Advance

\* Every step of a request is a jump, and counts no crash.
LEMMA RequestJumps ==
  ASSUME NEW r \in Requests, Begin(r) \/ BeginAbandon(r) \/ Advance(r)
  PROVE  crashes' = crashes /\ \E label, l : Goto(r, label, l)
<1>1. CASE Begin(r) \/ BeginAbandon(r)
  BY <1>1 DEF Begin, BeginAbandon, Local
<1>2. CASE FindGame(r)
  BY <1>2 DEF FindGame, FindForMove, FindForResign, FindForOffer, FindForAccept,
     FindForAbort, FindForClaim, FindForFlag, FindForAbandon, Find, Local, Reply, BeginFinish
<1>3. ASSUME NEW k, NEW st, Weigh(r, k, st)
      PROVE  \E label, l : Goto(r, label, l)
  BY <1>3 DEF Weigh, WeighMove, WeighClaim, WeighFlag, Reply, BeginTimeout
<1>4. CASE LoadClock(r) \/ RebuildClock(r)
  BY <1>3, <1>4 DEF LoadClock, RebuildClock, Local
<1>5. CASE AppendMove(r)
  BY <1>5 DEF AppendMove
<1>6. CASE Create(r) \/ RejectIllegal(r) \/ AppendConflict(r) \/ InitClock(r)
           \/ UpdateClock(r) \/ HealClock(r) \/ ClearDraw(r) \/ SetOffer(r)
  BY <1>6 DEF Create, RejectIllegal, AppendConflict, InitClock, UpdateClock, HealClock,
     ClearDraw, SetOffer, Local, Reply
<1>7. CASE GetOffer(r) \/ ListMoves(r) \/ ReadClock(r) \/ ListForPgn(r) \/ FinishLost(r)
           \/ FinishGame(r) \/ ClearClock(r) \/ EmitFinished(r)
  BY <1>7 DEF GetOffer, ListMoves, ReadClock, ListForPgn, FinishLost, FinishGame,
     ClearClock, EmitFinished, Local, Reply, BeginFinish
<1> QED
  BY <1>1, <1>2, <1>4, <1>5, <1>6, <1>7 DEF Advance

\* As time passes a verdict stays earned.
LEMMA TickSound ==
  ASSUME TypeInv, NEW r \in Requests, Sound(r), Tick
  PROVE  Sound(r)'
<1>1. /\ UNCHANGED <<row, moves, clock, draw, pc, loc, losses>>
      /\ now \in Nat /\ now' = now + 1 /\ DataOK
  BY DEF Tick, db, redis, TypeInv, DataOK
<1>2. Active' = Active /\ LogClock' = LogClock
  BY <1>1 DEF Active, LogClock
<1>3. ASSUME NEW s \in Sides, Remaining(Cfg, LogClock, s, now) = 0
      PROVE  Remaining(Cfg, LogClock, s, now + 1) = 0
  <2>1. LogClock \in ClockState /\ LogClock.left[s] \in Nat
    BY <1>1, LogClockOK DEF ClockState
  <2>2. /\ Charge(Cfg, LogClock, now) \in Nat /\ Charge(Cfg, LogClock, now + 1) \in Nat
        /\ Charge(Cfg, LogClock, now) <= Charge(Cfg, LogClock, now + 1)
    <3>1. now \in Int /\ now + 1 \in Int /\ now <= now + 1
      BY <1>1
    <3> QED
      BY <2>1, <3>1, ChargeGrows, ClockTypesOK, CfgAssumption
  <2> QED
    BY <1>3, <2>1, <2>2 DEF Remaining, NonNegative
<1>4. \A s : Other(s) \in Sides
  BY DEF Other, Sides
<1>5. ~Active' => Earned(row)'
  BY <1>1, <1>2, <1>3, <1>4 DEF Sound, Earned
<1>6. Ends(r)'
  BY <1>1, <1>2, <1>3, <1>4 DEF Sound, Underway, Ends, Earned, Stands
<1>7. Timely(r)'
  <2>1. loc[r].at \in Nat
    BY DEF TypeInv, RequestsOK, Locals
  <2> QED
    BY <1>1, <2>1 DEF Sound, Underway, Timely
<1>8. Creates(r)' /\ Finds(r)' /\ Current(r)' /\ Written(r)' /\ Moves(r)'
  BY <1>1, <1>2 DEF Sound, Underway, Creates, Finds, Current, Written, Moves, Pays
<1>9. Cached(r)' /\ Offered(r)' /\ NeverOvercharged'
  BY <1>1, <1>2 DEF Sound, Cached, Offered, NeverOvercharged
<1> QED
  BY <1>5, <1>6, <1>7, <1>8, <1>9 DEF Sound, Underway

\* What Redis loses leaves the data sound; from then on nothing is said of offers.
LEMMA LoseSound ==
  ASSUME TypeInv, NEW r \in Requests, Sound(r), LoseRedis
  PROVE  Sound(r)'
<1>1. /\ UNCHANGED <<now, row, moves, pc, loc>> /\ clock' = Null
      /\ losses \in Nat /\ losses' = losses + 1
  BY DEF LoseRedis, db, TypeInv, DataOK
<1>2. losses' # 0
  BY <1>1
<1>3. Active' = Active /\ LogClock' = LogClock
  BY <1>1 DEF Active, LogClock
<1>4. Ends(r)'
  BY <1>1, <1>2, <1>3 DEF Sound, Underway, Ends, Earned, Stands
<1>5. Timely(r)' /\ Creates(r)' /\ Finds(r)' /\ Current(r)' /\ Written(r)' /\ Moves(r)'
  BY <1>1, <1>3 DEF Sound, Underway, Timely, Creates, Finds, Current, Written, Moves, Pays
<1>6. Cached(r)' /\ Offered(r)'
  BY <1>1, <1>2 DEF Cached, Offered
<1> QED
  BY <1>1, <1>4, <1>5, <1>6, RedisSound DEF Underway

LEMMA InTurnNext ==
  ASSUME TypeInv, InTurnInv, [Next]_vars
  PROVE  InTurnInv'
<1> SUFFICES ASSUME InTurn' PROVE \E r \in Requests : Only(r)' /\ Sound(r)'
  BY DEF InTurnInv
<1>1. ASSUME NEW r \in Requests, Begin(r) \/ BeginAbandon(r) \/ Advance(r)
      PROVE  Only(r)' /\ Sound(r)'
  <2>1. RequestsOK
    BY DEF TypeInv
  <2>2. PICK label, l : Goto(r, label, l)
    BY <1>1, RequestJumps
  <2>3. crashes' = crashes
    BY <1>1, RequestJumps
  <2>4. Sound(r) /\ Only(r)'
    BY <2>1, <2>2, <2>3, InTurnStep
  <2> QED
    BY <1>1, <2>4, RequestSound
<1>2. ASSUME NEW r \in Requests, Crash(r)
      PROVE  FALSE
  BY <1>2 DEF Crash, InTurn, TypeInv, DataOK
<1>3. CASE Tick \/ LoseRedis
  <2>1. InTurn /\ pc' = pc
    BY <1>3 DEF InTurn, Tick, LoseRedis
  <2>2. PICK r \in Requests : Only(r) /\ Sound(r)
    BY <2>1 DEF InTurnInv
  <2>3. Only(r)'
    BY <2>1, <2>2 DEF Only
  <2>4. Sound(r)'
    BY <1>3, <2>2, TickSound, LoseSound
  <2> QED
    BY <2>3, <2>4
<1>4. CASE UNCHANGED vars
  <2>1. UNCHANGED <<now, row, moves, clock, draw, pc, loc, losses>> /\ InTurn
    BY <1>4 DEF vars, db, redis, InTurn
  <2>2. PICK r \in Requests : Only(r) /\ Sound(r)
    BY <2>1 DEF InTurnInv
  <2>3. Only(r)'
    BY <2>1, <2>2 DEF Only
  <2>4. LogClock' = LogClock /\ Active' = Active
    BY <2>1 DEF LogClock, Active
  <2>5. Cached(r)' /\ Offered(r)'
    BY <2>1, <2>2, <2>4 DEF Sound, Cached, Offered
  <2>6. Underway(r)'
    BY <2>1, <2>2, <2>4 DEF Sound, Underway, Timely, Creates, Finds, Current, Written,
       Moves, Pays, Ends, Earned, Stands
  <2> QED
    BY <2>1, <2>2, <2>3, <2>5, <2>6, RedisSound
<1> QED
  BY <1>1, <1>2, <1>3, <1>4 DEF Next

LEMMA InTurnAlways == Spec => [](TypeInv /\ InTurnInv)
<1>1. Spec => []TypeInv
  BY InvInductive, PTL
<1> QED
  BY <1>1, InTurnInit, InTurnNext, PTL DEF Spec

-----------------------------------------------------------------------------
(* What it says. *)

\* One request at a time and none of them dying, the clock in Redis is between
\* requests the clock of the move log, whatever Redis loses, and nobody is charged
\* more than the time of his moves (makeMove, reconstructClock).
THEOREM ClockAddsUpHolds == Spec => []ClockAddsUp
<1>1. InTurnInv => ClockAddsUp
  <2> SUFFICES ASSUME InTurnInv, InTurn PROVE CacheMatchesLog /\ NeverOvercharged
    BY DEF ClockAddsUp
  <2>1. PICK r \in Requests : Sound(r)
    BY DEF InTurnInv
  <2>2. CacheMatchesLog
    BY <2>1 DEF CacheMatchesLog, Quiet, Sound, Cached, Committed
  <2> QED
    BY <2>1, <2>2 DEF Sound
<1> QED
  BY <1>1, InTurnAlways, PTL

\* Then, too, who lost on time has none left by the log, and the winner can mate
\* (makeMove, claimTimeout, checkFlag, finishByTimeout).
THEOREM TimeoutIsEarnedHolds == Spec => []TimeoutIsEarned
<1>1. InTurnInv => TimeoutIsEarned
  <2> SUFFICES ASSUME InTurnInv, InTurn PROVE LoserHadNoTime /\ TimeoutNeedsMaterial
    BY DEF TimeoutIsEarned
  <2>1. PICK r \in Requests : Sound(r)
    BY DEF InTurnInv
  <2>2. row.status = "TIMEOUT" => Earned(row)
    BY <2>1 DEF Sound, Active
  <2>3. \A s \in Sides : Other(Other(s)) = s
    BY DEF Other, Sides
  <2> QED
    BY <2>2, <2>3 DEF LoserHadNoTime, TimeoutNeedsMaterial, TimedOut, Earned
<1> QED
  BY <1>1, InTurnAlways, PTL

\* Only finishGame can agree a draw.
LEMMA DrawIsFinish ==
  ASSUME [Next]_vars, Active, row'.status = "DRAW_AGREED", TypeInv
  PROVE  \E r \in Requests : FinishGame(r)
<1>1. row' # row
  BY DEF Active
<1>2. ASSUME NEW r \in Requests, AppendMove(r)
      PROVE  FALSE
  <2>1. PICK end \in {"ACTIVE"} \cup PositionEnds, mates \in BOOLEAN :
          LET l == loc[r]
              mat == [l.mat EXCEPT ![Other(l.actor)] = @ /\ mates]
              log == Append(moves, [side |-> l.actor, left |-> LoggedLeft(l), at |-> l.at])
          IN  IF end = "ACTIVE" THEN row' = [row EXCEPT !.mat = mat]
              ELSE row' = RowEndedByMove(l, end, log, mat)
    BY <1>2 DEF AppendMove
  <2>2. CASE end = "ACTIVE"
    <3>1. row'.status = row.status
      BY <2>1, <2>2 DEF TypeInv, DataOK, Row
    <3> QED
      BY <3>1 DEF Active
  <2>3. CASE end # "ACTIVE"
    <3>1. row'.status = end
      BY <2>1, <2>3 DEF RowEndedByMove
    <3> QED
      BY <2>3, <3>1 DEF PositionEnds
  <2> QED
    BY <2>2, <2>3
<1>3. ASSUME NEW r \in Requests, Advance(r)
      PROVE  FinishGame(r)
  BY <1>1, <1>2, <1>3 DEF Advance, FindGame, FindForMove, FindForResign, FindForOffer,
     FindForAccept, FindForAbort, FindForClaim, FindForFlag, FindForAbandon, Find, Create,
     LoadClock, RebuildClock, RejectIllegal, AppendConflict, InitClock, UpdateClock,
     HealClock, ClearDraw, SetOffer, GetOffer, ListMoves, ReadClock, ListForPgn, FinishLost,
     ClearClock, EmitFinished, Local, db
<1>4. ASSUME NEW r \in Requests, Begin(r) \/ BeginAbandon(r) \/ Crash(r)
      PROVE  FALSE
  BY <1>1, <1>4 DEF Begin, BeginAbandon, Crash, Local, db
<1>5. CASE Tick \/ LoseRedis \/ UNCHANGED vars
  BY <1>1, <1>5 DEF Tick, LoseRedis, vars, db
<1> QED
  BY <1>3, <1>4, <1>5 DEF Next

\* Then a draw is agreed only on an offer made in the position on the board, unless
\* Redis lost one (acceptDraw, makeMove's clearDrawOffer).
THEOREM DrawIsAgreedHolds == Spec => DrawIsAgreed
<1>1. TypeInv /\ InTurnInv /\ [Next]_vars => [InTurn => OfferStands]_vars
  <2> SUFFICES ASSUME TypeInv, InTurnInv, [Next]_vars, InTurn, Active,
                      row'.status = "DRAW_AGREED", losses = 0
               PROVE  draw # Null /\ draw.ply = Len(moves)
    BY DEF OfferStands
  <2>1. PICK r \in Requests : FinishGame(r)
    BY DrawIsFinish
  <2>2. PICK q \in Requests : Only(q) /\ Sound(q)
    BY DEF InTurnInv
  <2>3. pc[r] = "finish" /\ loc[r].fin.status = "DRAW_AGREED"
    BY <2>1 DEF FinishGame, At
  <2>4. q = r
    BY <2>2, <2>3 DEF Only
  <2> QED
    BY <2>2, <2>3, <2>4 DEF Sound, Underway, Ends, Stands, Ending
<1> QED
  BY <1>1, InTurnAlways, PTL DEF Spec, DrawIsAgreed
=============================================================================
