--------------------------- MODULE Around_proofs ---------------------------
(***************************************************************************)
(* Theorems about what is around a game, scene by scene: the arithmetic of *)
(* its clock, for every set of configurations, the engine that is asked    *)
(* about its positions, the cases of fair play, who is at the board and    *)
(* what the page shows, for any number of positions, games, players,       *)
(* processes, handlers, sockets and connections.                           *)
(***************************************************************************)
EXTENDS MCAround, FiniteSetTheorems, SequenceTheorems, TLAPS

-----------------------------------------------------------------------------
(* The clock: the account of a clock is exact, and while the wall clock is  *)
(* only ever set back nobody is charged or flagged for time not spent.      *)

\* The times a clock takes and gives are natural numbers, and the charge is the
\* elapsed time less the refund of the delay.
LEMMA ChargeIsElapsedLessRefund ==
  ASSUME TypeOK
  PROVE  /\ cfg \in ClockConfig
         /\ Elapsed(st, now) \in Nat
         /\ Refund(Elapsed(st, now)) \in Nat
         /\ Charge(cfg, st, now) \in Nat
         /\ Charge(cfg, st, now) = Elapsed(st, now) - Refund(Elapsed(st, now))
         /\ Increment(cfg) \in Nat
<1>1. cfg \in ClockConfig
  BY CfgsAssumption DEF TypeOK
<1>2. Elapsed(st, now) \in Nat
  BY DEF TypeOK, ClockState, Elapsed, NonNegative
<1>3. cfg.inc \in Nat
  BY <1>1 DEF ClockConfig
<1>4. Refund(Elapsed(st, now)) \in Nat
  BY <1>2, <1>3 DEF Refund
<1>5. Charge(cfg, st, now) = Elapsed(st, now) - Refund(Elapsed(st, now))
  BY <1>2, <1>3 DEF Charge, Chargeable, Refund, NonNegative
<1>6. Charge(cfg, st, now) \in Nat
  BY <1>2, <1>3 DEF Charge, Chargeable, NonNegative
<1>7. Increment(cfg) \in Nat
  BY <1>3 DEF Increment
<1> QED
  BY <1>1, <1>2, <1>4, <1>5, <1>6, <1>7

\* What the account of a fallen flag says: the charge of the move that came too
\* late exceeds what the account left its side.
Overrun ==
  over => Charge(cfg, st, now)
            > cfg.base - measured[st.turn] + refunded[st.turn] + gained[st.turn]

\* While the wall clock is only set back, it never shows more than real time.
Lagging ==
  ahead \/ /\ now - st.last <= real - since
           /\ \A s \in Sides : measured[s] <= think[s]

IInv == TypeOK /\ Bookkeeping /\ Overrun /\ since <= real /\ Lagging

LEMMA InitInv == Init => IInv
<1> SUFFICES ASSUME Init PROVE IInv
  OBVIOUS
<1>1. cfg \in ClockConfig
  BY CfgsAssumption DEF Init
<1>2. st = [left |-> [s \in Sides |-> cfg.base], turn |-> "w", last |-> 0]
  BY DEF Init, CreateClock
<1>3. cfg.base \in Nat /\ "w" \in Sides
  BY <1>1 DEF ClockConfig, Sides
<1>4. TypeOK
  <2>1. None \in [Sides -> Nat]
    BY DEF None
  <2>2. {think, measured, refunded, gained} \subseteq [Sides -> Nat]
    BY <2>1 DEF Init
  <2>3. [s \in Sides |-> cfg.base] \in [Sides -> Nat]
    BY <1>3
  <2>4. st \in ClockState
    BY <1>2, <1>3, <2>3 DEF ClockState
  <2>5. real \in Nat /\ now \in Int /\ made \in Nat /\ since \in Nat
    BY SMT DEF Init
  <2>6. cfg \in Cfgs /\ over \in BOOLEAN /\ ahead \in BOOLEAN
    BY Zenon DEF Init
  <2> QED
    BY <2>2, <2>4, <2>5, <2>6 DEF TypeOK
<1>5. Bookkeeping
  BY <1>2, <1>3 DEF Init, Bookkeeping, None
<1> QED
  BY <1>2, <1>4, <1>5 DEF Init, IInv, Overrun, Lagging, None

\* A move made in time closes its entry in the account.
LEMMA MoveInTime ==
  ASSUME IInv, Move, ~over'
  PROVE  IInv'
<1> DEFINE m == st.turn
           e == Elapsed(st, now)
<1>1. /\ cfg \in ClockConfig /\ e \in Nat /\ Refund(e) \in Nat
      /\ Charge(cfg, st, now) \in Nat /\ Charge(cfg, st, now) = e - Refund(e)
      /\ Increment(cfg) \in Nat
  BY ChargeIsElapsedLessRefund DEF IInv
<1>2. /\ m \in Sides /\ st.left \in [Sides -> Nat] /\ st.last \in Int /\ now \in Int
      /\ real \in Nat /\ since \in Nat /\ made \in Nat /\ since <= real
      /\ think \in [Sides -> Nat] /\ measured \in [Sides -> Nat]
      /\ refunded \in [Sides -> Nat] /\ gained \in [Sides -> Nat]
  BY DEF IInv, TypeOK, ClockState
<1>3. Charge(cfg, st, now) <= st.left[m]
  <2>1. ~(Charge(cfg, st, now) > st.left[st.turn])
    BY DEF Move, ApplyMove
  <2> QED
    BY <1>1, <1>2, <2>1
<1>4. st' = AfterMove(cfg, st, now)
  BY DEF Move, ApplyMove
<1>5. /\ st'.left = [st.left EXCEPT ![m] = @ - Charge(cfg, st, now) + Increment(cfg)]
      /\ st'.turn = Other(m) /\ st'.last = now
  BY <1>4 DEF AfterMove
<1>6. /\ made' = made + 1 /\ since' = real
      /\ think' = [think EXCEPT ![m] = @ + (real - since)]
      /\ measured' = [measured EXCEPT ![m] = @ + e]
      /\ refunded' = [refunded EXCEPT ![m] = @ + Refund(e)]
      /\ gained' = [gained EXCEPT ![m] = @ + Increment(cfg)]
      /\ UNCHANGED <<cfg, real, now, ahead>>
  BY DEF Move, Enter, time
<1>7. TypeOK'
  <2>1. st'.left \in [Sides -> Nat]
    BY <1>1, <1>2, <1>3, <1>5
  <2>2. Other(m) \in Sides
    BY DEF Other, Sides
  <2>3. st' \in ClockState
    BY <1>2, <1>4, <1>5, <2>1, <2>2 DEF AfterMove, ClockState
  <2>4. /\ think' \in [Sides -> Nat] /\ measured' \in [Sides -> Nat]
        /\ refunded' \in [Sides -> Nat] /\ gained' \in [Sides -> Nat]
    BY <1>1, <1>2, <1>6
  <2>5. over' \in BOOLEAN
    BY DEF Move, ApplyMove
  <2> QED
    BY <1>2, <1>6, <2>3, <2>4, <2>5 DEF IInv, TypeOK
<1>8. Bookkeeping'
  <2> SUFFICES ASSUME NEW s \in Sides
               PROVE  st'.left[s] = cfg.base - measured'[s] + refunded'[s] + gained'[s]
    BY <1>6 DEF Bookkeeping
  <2>1. ~over
    BY DEF Move
  <2>2. st.left[s] = cfg.base - measured[s] + refunded[s] + gained[s]
    BY <2>1 DEF IInv, Bookkeeping
  <2>3. cfg.base \in Nat
    BY <1>1 DEF ClockConfig
  <2>4. CASE s = m
    BY <1>1, <1>2, <1>5, <1>6, <2>2, <2>3, <2>4
  <2>5. CASE s # m
    BY <1>2, <1>5, <1>6, <2>2, <2>5
  <2> QED
    BY <2>4, <2>5
<1>9. Lagging'
  <2>1. CASE ahead
    BY <1>6, <2>1 DEF Lagging
  <2>2. CASE ~ahead
    <3>1. now - st.last <= real - since /\ \A s \in Sides : measured[s] <= think[s]
      BY <2>2 DEF IInv, Lagging
    <3>2. e <= real - since
      BY <1>2, <3>1 DEF Elapsed, NonNegative
    <3>3. \A s \in Sides : measured'[s] <= think'[s]
      BY <1>1, <1>2, <1>6, <3>1, <3>2
    <3> QED
      BY <1>2, <1>5, <1>6, <3>3 DEF Lagging
  <2> QED
    BY <2>1, <2>2
<1> QED
  BY <1>2, <1>6, <1>7, <1>8, <1>9 DEF IInv, Overrun

\* A move that comes too late leaves the account as it is, overrun.
LEMMA MoveTooLate ==
  ASSUME IInv, Move, over'
  PROVE  IInv'
<1>1. /\ cfg \in ClockConfig /\ Elapsed(st, now) \in Nat /\ Charge(cfg, st, now) \in Nat
  BY ChargeIsElapsedLessRefund DEF IInv
<1>2. st \in ClockState /\ st.turn \in Sides /\ st.left \in [Sides -> Nat] /\ ~over
  BY DEF IInv, TypeOK, ClockState, Move
<1>3. Charge(cfg, st, now) > st.left[st.turn] /\ st' = AfterFlag(st)
  BY DEF Move, ApplyMove
<1>4. UNCHANGED <<cfg, real, now, ahead, book>>
  BY DEF Move, time
<1>5. /\ st'.turn = st.turn /\ st'.last = st.last /\ st' \in ClockState
      /\ \A s \in Sides : s # st.turn => st'.left[s] = st.left[s]
  BY <1>2, <1>3 DEF AfterFlag, ClockState
<1>6. TypeOK'
  BY <1>4, <1>5 DEF IInv, TypeOK, book, Move, ApplyMove
<1>7. Bookkeeping'
  BY <1>2, <1>4, <1>5 DEF IInv, Bookkeeping, book
<1>8. Overrun'
  <2>1. st.left[st.turn] = cfg.base - measured[st.turn] + refunded[st.turn] + gained[st.turn]
    BY <1>2 DEF IInv, Bookkeeping
  <2>2. Charge(cfg, st, now)' = Charge(cfg, st, now)
    BY <1>4, <1>5 DEF Charge, Chargeable, Elapsed
  <2> QED
    BY <1>3, <1>4, <1>5, <2>1, <2>2 DEF Overrun, book
<1>9. (since <= real /\ Lagging)'
  BY <1>4, <1>5 DEF IInv, Lagging, book
<1> QED
  BY <1>6, <1>7, <1>8, <1>9 DEF IInv

\* The wall clock and real time move, the account does not.
LEMMA TimeStep ==
  ASSUME IInv, Pass \/ SetBack \/ Correct
  PROVE  IInv'
<1>1. ~over /\ UNCHANGED <<cfg, st, over, book>>
  BY DEF Pass, SetBack, Correct
<1>2. real \in Nat /\ now \in Int /\ since \in Nat /\ st.last \in Int
  BY DEF IInv, TypeOK, ClockState
<1>3. TypeOK'
  <2>1. ahead' \in BOOLEAN
    BY <1>1, Zenon DEF IInv, TypeOK, Pass, SetBack, Correct
  <2>2. real' \in Nat /\ now' \in Int
    BY <1>2 DEF Pass, SetBack, Correct
  <2>3. /\ cfg' \in Cfgs /\ over' \in BOOLEAN /\ made' \in Nat /\ since' \in Nat
        /\ st' \in ClockState
        /\ {think', measured', refunded', gained'} \subseteq [Sides -> Nat]
    BY <1>1 DEF IInv, TypeOK, book
  <2> QED
    BY <2>1, <2>2, <2>3 DEF TypeOK
<1>4. Bookkeeping' /\ Overrun'
  BY <1>1 DEF IInv, Bookkeeping, Overrun, book
<1>5. (since <= real)'
  BY <1>1, <1>2 DEF IInv, Pass, SetBack, Correct, book
<1>6. Lagging'
  BY <1>1, <1>2 DEF IInv, TypeOK, Lagging, Pass, SetBack, Correct, book
<1> QED
  BY <1>3, <1>4, <1>5, <1>6 DEF IInv

LEMMA Inductive == Spec => []IInv
<1>1. IInv /\ [Next]_vars => IInv'
  <2> SUFFICES ASSUME IInv, [Next]_vars PROVE IInv'
    OBVIOUS
  <2>1. CASE Move
    BY <2>1, MoveInTime, MoveTooLate
  <2>2. CASE Pass \/ SetBack \/ Correct
    BY <2>2, TimeStep
  <2>3. CASE UNCHANGED vars
    BY <2>3 DEF vars, IInv, TypeOK, Bookkeeping, Overrun, Lagging, Charge, Chargeable, Elapsed
  <2> QED
    BY <2>1, <2>2, <2>3 DEF Next
<1> QED
  BY <1>1, InitInv, PTL DEF Spec

\* Every stored time is the base less the measured time, plus the delay given
\* back as min(elapsed, delay) and the increments (chargeableMs, applyMove):
\* the charge form of the code is the refund form of its comment.
THEOREM AccountIsExact == Spec => [](TypeOK /\ Bookkeeping)
BY Inductive, PTL DEF IInv

\* While the wall clock is only set back, no side pays more than the real time
\* of its moves (elapsedMs clamps at zero).
THEOREM BackwardJumpsForgiven == Spec => []NobodyPunished
<1>1. IInv => NobodyPunished
  <2> SUFFICES ASSUME IInv, ~ahead, NEW s \in Sides, ~(over /\ s = st.turn)
               PROVE  st.left[s] >= cfg.base - think[s]
    BY DEF NobodyPunished
  <2>1. st.left[s] = cfg.base - measured[s] + refunded[s] + gained[s]
    BY DEF IInv, Bookkeeping
  <2>2. measured[s] <= think[s]
    BY DEF IInv, Lagging
  <2>3. /\ measured[s] \in Nat /\ think[s] \in Nat /\ refunded[s] \in Nat
        /\ gained[s] \in Nat /\ cfg.base \in Nat
    BY CfgsAssumption DEF IInv, TypeOK, ClockConfig
  <2> QED
    BY <2>1, <2>2, <2>3
<1> QED
  BY <1>1, Inductive, PTL

\* And a flag falls only on a side that has really used up its base, its
\* increments and its delays (isFlagged, applyMove).
THEOREM FlagsAreEarned == Spec => []FlagIsEarned
<1>1. IInv => FlagIsEarned
  <2> SUFFICES ASSUME IInv, ~ahead, over
               PROVE  cfg.base + gained[st.turn] + refunded[st.turn] + Refund(Elapsed(st, now))
                        < think[st.turn] + (real - since)
    BY DEF FlagIsEarned
  <2> DEFINE m == st.turn
             e == Elapsed(st, now)
  <2>1. /\ e \in Nat /\ Refund(e) \in Nat /\ Charge(cfg, st, now) = e - Refund(e)
    BY ChargeIsElapsedLessRefund DEF IInv
  <2>2. /\ m \in Sides /\ st.last \in Int /\ now \in Int /\ real \in Nat /\ since \in Nat
        /\ think[m] \in Nat /\ measured[m] \in Nat /\ refunded[m] \in Nat /\ gained[m] \in Nat
        /\ cfg.base \in Nat
    BY CfgsAssumption DEF IInv, TypeOK, ClockState, ClockConfig
  <2>3. Charge(cfg, st, now) > cfg.base - measured[m] + refunded[m] + gained[m]
    BY DEF IInv, Overrun
  <2>4. now - st.last <= real - since /\ measured[m] <= think[m] /\ since <= real
    BY <2>2 DEF IInv, Lagging
  <2>5. e <= real - since
    BY <2>2, <2>4 DEF Elapsed, NonNegative
  <2> HIDE DEF m, e
  <2> QED
    BY <2>1, <2>2, <2>3, <2>4, <2>5 DEF m, e
<1> QED
  BY <1>1, Inductive, PTL

everything == <<clock, focus, both, rating, fairPlay, atBoard, onPage, engine, notices, smooth, pc, loc>>
-----------------------------------------------------------------------------
(* The engine.  What a process still owes is what it was told and has not   *)
(* answered, and what it has written and nobody has read; the invariant     *)
(* says what that may be at each state of the line handler, as long as at   *)
(* most one timeout came before lines that were written already.            *)

Words == {"uciok", "readyok", "info", "bestmove", "none"}
EngineLines == [word : Words, of : 0..Positions]
EngineCommands == [word : {"uci", "isready", "go", "quit"}, of : 0..Positions]
EngineRows == [alive : BOOLEAN, quitting : BOOLEAN, noticed : BOOLEAN,
               stdin : Seq(EngineCommands), stdout : Seq(EngineLines)]
Answers == {Engine!Unasked, Engine!Pending, Engine!Failed} \cup
           [answer : {"found"}, of : 0..Positions, info : 0..Positions]
Handlers == {Engine!NoHandler, Engine!Handshake} \cup [for : {"search"}, info : 0..Positions]

EngineTypes ==
  /\ chain \in Seq(1..Positions) /\ current \in 0..Positions /\ handler \in Handlers
  /\ procs \in Seq(EngineRows) /\ child \in {0, Len(procs)}
  /\ evals \in [1..Positions -> Answers]
  /\ disposed \in BOOLEAN /\ worker \in {"up", "dead"} /\ overtaken \in Nat

\* A position that was asked about and not answered is analysed or waits, once.
WaitingOK ==
  /\ \A p \in 1..Positions :
       evals[p] = Engine!Pending <=> (p = current \/ \E n \in 1..Len(chain) : chain[n] = p)
  /\ \A m, n \in 1..Len(chain) : chain[m] = chain[n] => m = n
  /\ \A n \in 1..Len(chain) : chain[n] # current

uciok == Engine!Line("uciok", 0)
readyok == Engine!Line("readyok", 0)
uci == Engine!Command("uci", 0)
isready == Engine!Command("isready", 0)
go(p) == Engine!Command("go", p)
thought(p) == Engine!Line("info", p)
verdictOn(p) == Engine!Line(IF p \in Mated THEN "none" ELSE "bestmove", p)

\* What was written and not read, what was asked and not answered: of one word, of two,
\* of a position, and of a position after a word too many.
Stand(out, in, o, i) == out = o /\ in = i
OwesOne(out, in) ==
  \/ Stand(out, in, <<>>, <<uci>>) \/ Stand(out, in, <<uciok>>, <<>>)
  \/ Stand(out, in, <<>>, <<isready>>) \/ Stand(out, in, <<readyok>>, <<>>)
OwesFirst(out, in) == Stand(out, in, <<>>, <<uci>>) \/ Stand(out, in, <<uciok>>, <<>>)
OwesTwo(out, in) ==
  \/ Stand(out, in, <<>>, <<uci, isready>>) \/ Stand(out, in, <<uciok>>, <<isready>>)
  \/ Stand(out, in, <<uciok, readyok>>, <<>>)
  \/ Stand(out, in, <<>>, <<isready, isready>>) \/ Stand(out, in, <<readyok>>, <<isready>>)
  \/ Stand(out, in, <<readyok, readyok>>, <<>>)
OwesVerdict(out, in, p) ==
  \/ Stand(out, in, <<>>, <<go(p)>>) \/ Stand(out, in, <<thought(p)>>, <<go(p)>>)
  \/ Stand(out, in, <<verdictOn(p)>>, <<>>) \/ Stand(out, in, <<thought(p), verdictOn(p)>>, <<>>)
OwesMore(out, in, p) ==
  \/ Stand(out, in, <<>>, <<uci, go(p)>>) \/ Stand(out, in, <<>>, <<isready, go(p)>>)
  \/ \E x \in {uciok, readyok} :
       \/ Stand(out, in, <<x>>, <<go(p)>>) \/ Stand(out, in, <<x, thought(p)>>, <<go(p)>>)
       \/ Stand(out, in, <<x, verdictOn(p)>>, <<>>) \/ Stand(out, in, <<x, thought(p), verdictOn(p)>>, <<>>)

NothingLate(all, c) == \A i \in 1..Len(all) : i # c => all[i].stdout = <<>>
Mild(out) ==
  out = <<uciok>> \/ out = <<readyok>> \/ \A n \in 1..Len(out) : out[n].word \in {"info", "bestmove", "none"}
\* One process was killed before its lines were read, and one word of them is a danger.
OneIsLate(all, c) ==
  /\ \A i \in 1..Len(all) : i # c => Mild(all[i].stdout)
  /\ \A i, j \in 1..Len(all) : i # c /\ j # c /\ all[i].stdout # <<>> /\ all[j].stdout # <<>> => i = j

ShakesHands(all, c, times) ==
  \/ NothingLate(all, c) /\ OwesOne(all[c].stdout, all[c].stdin)
  \/ times = 1 /\ NothingLate(all, c) /\ OwesTwo(all[c].stdout, all[c].stdin)
  \/ times = 1 /\ OneIsLate(all, c) /\ OwesFirst(all[c].stdout, all[c].stdin)
Searches(all, c, p, times) ==
  /\ NothingLate(all, c)
  /\ OwesVerdict(all[c].stdout, all[c].stdin, p) \/ (times = 1 /\ OwesMore(all[c].stdout, all[c].stdin, p))
Rests(all, c, p, times) ==
  /\ c # 0 => NothingLate(all, c) /\ all[c].stdout = <<>> /\ all[c].stdin = <<>>
  /\ c = 0 /\ p = 0 => IF times = 0 THEN NothingLate(all, c) ELSE OneIsLate(all, c)
  /\ c = 0 /\ p # 0 /\ times = 0 => OneIsLate(all, c)

Dialogue(all, c, p, h, times) ==
  /\ h.for = "nothing" => Rests(all, c, p, times)
  /\ h.for = "handshake" => ShakesHands(all, c, times)
  /\ h.for = "search" => Searches(all, c, p, times) /\ h.info \in {0, p}

EngineInv ==
  /\ EngineTypes /\ WaitingOK
  /\ handler.for = "nothing" <=> (child = 0 \/ current = 0)
  /\ disposed => child = 0
  /\ ~disposed => \A i \in 1..Len(procs) : ~procs[i].quitting
  /\ Engine!AnswerIsOfPosition /\ Engine!NoZombie
  /\ ~disposed /\ worker = "up" /\ overtaken <= 1 => Dialogue(procs, child, current, handler, overtaken)

-----------------------------------------------------------------------------

LEMMA SaysOf ==
  /\ Engine!Says(uci) = uciok /\ Engine!Says(isready) = readyok
  /\ \A p \in 0..Positions : Engine!Says(go(p)) = verdictOn(p)
  BY DEF Engine!Says, uci, isready, go, uciok, readyok, verdictOn, Engine!Command, Engine!Line, Engine!None

LEMMA WordsOf ==
  /\ uci.word = "uci" /\ isready.word = "isready" /\ uciok.word = "uciok" /\ readyok.word = "readyok"
  /\ \A p \in 0..Positions :
       /\ go(p).word = "go" /\ go(p).of = p
       /\ thought(p).word = "info" /\ thought(p).of = p /\ thought(p) = Engine!Line("info", p)
       /\ verdictOn(p).word \in {"bestmove", "none"} /\ verdictOn(p).of = p
  BY DEF uci, isready, go, uciok, readyok, thought, verdictOn, Engine!Command, Engine!Line

LEMMA CommandsAndLines ==
  /\ uci \in EngineCommands /\ isready \in EngineCommands /\ Engine!Command("quit", 0) \in EngineCommands
  /\ uciok \in EngineLines /\ readyok \in EngineLines
  /\ \A p \in 0..Positions : go(p) \in EngineCommands /\ thought(p) \in EngineLines /\ verdictOn(p) \in EngineLines
  BY EngineAssumption DEF uci, isready, go, uciok, readyok, thought, verdictOn, Engine!Command, Engine!Line,
     EngineCommands, EngineLines, Words

LEMMA AppendToOne == ASSUME NEW x, NEW y PROVE Append(<<x>>, y) = <<x, y>>
<1> DEFINE S == {x, y}
<1>1. <<x>> \in Seq(S) /\ <<x, y>> \in Seq(S) /\ y \in S /\ Len(<<x>>) = 1 /\ Len(<<x, y>>) = 2
  OBVIOUS
<1>2. Append(<<x>>, y) \in Seq(S) /\ Len(Append(<<x>>, y)) = 2
  BY <1>1, AppendProperties
<1>3. \A i \in 1..2 : Append(<<x>>, y)[i] = <<x, y>>[i]
  BY <1>1, AppendProperties
<1> HIDE DEF S
<1> QED BY <1>1, <1>2, <1>3, SeqEqual

LEMMA AppendToTwo == ASSUME NEW x, NEW y, NEW z PROVE Append(<<x, y>>, z) = <<x, y, z>>
<1> DEFINE S == {x, y, z}
<1>1. <<x, y>> \in Seq(S) /\ <<x, y, z>> \in Seq(S) /\ z \in S /\ Len(<<x, y>>) = 2 /\ Len(<<x, y, z>>) = 3
  OBVIOUS
<1>2. Append(<<x, y>>, z) \in Seq(S) /\ Len(Append(<<x, y>>, z)) = 3
  BY <1>1, AppendProperties
<1>3. \A i \in 1..3 : Append(<<x, y>>, z)[i] = <<x, y, z>>[i]
  BY <1>1, AppendProperties
<1> HIDE DEF S
<1> QED BY <1>1, <1>2, <1>3, SeqEqual

LEMMA JoinOfOne == ASSUME NEW x, NEW y PROVE <<x>> \o <<y>> = <<x, y>>
<1> DEFINE S == {x, y}
<1>1. <<x>> \in Seq(S) /\ <<y>> \in Seq(S) /\ <<x, y>> \in Seq(S)
      /\ Len(<<x>>) = 1 /\ Len(<<y>>) = 1 /\ Len(<<x, y>>) = 2
  OBVIOUS
<1>2. <<x>> \o <<y>> \in Seq(S) /\ Len(<<x>> \o <<y>>) = 2
  BY <1>1, ConcatProperties
<1>3. \A i \in 1..2 : (<<x>> \o <<y>>)[i] = <<x, y>>[i]
  BY <1>1, ConcatProperties
<1> HIDE DEF S
<1> QED BY <1>1, <1>2, <1>3, SeqEqual

LEMMA JoinOfNone == ASSUME NEW x PROVE <<>> \o <<x>> = <<x>>
<1>1. <<x>> \in Seq({x})
  OBVIOUS
<1> QED BY <1>1, ConcatEmptySeq

LEMMA SoloAppend == ASSUME NEW x PROVE Append(<<>>, x) = <<x>>
  OBVIOUS

LEMMA SpeakOwesOne ==
  ASSUME NEW out, NEW in, NEW p \in 0..Positions, in # <<>>, OwesOne(out, in),
         NEW o, o = Append(out, Engine!Says(Head(in))), NEW i, i = Tail(in)
  PROVE  OwesOne(o, i)
<1>1. CASE Stand(out, in, <<>>, <<uci>>)
  <2>1. Head(in) = uci /\ i = <<>> /\ o = Append(<<>>, uciok)
    BY <1>1, SaysOf DEF Stand
  <2>2. Append(<<>>, uciok) = <<uciok>>
    BY SoloAppend
  <2> QED BY <2>1, <2>2 DEF OwesOne, Stand
<1>2. CASE Stand(out, in, <<>>, <<isready>>)
  <2>1. Head(in) = isready /\ i = <<>> /\ o = Append(<<>>, readyok)
    BY <1>2, SaysOf DEF Stand
  <2>2. Append(<<>>, readyok) = <<readyok>>
    BY SoloAppend
  <2> QED BY <2>1, <2>2 DEF OwesOne, Stand
<1> QED BY <1>1, <1>2 DEF OwesOne, Stand

LEMMA SpeakOwesFirst ==
  ASSUME NEW out, NEW in, NEW p \in 0..Positions, in # <<>>, OwesFirst(out, in),
         NEW o, o = Append(out, Engine!Says(Head(in))), NEW i, i = Tail(in)
  PROVE  OwesFirst(o, i)
<1>1. CASE Stand(out, in, <<>>, <<uci>>)
  <2>1. Head(in) = uci /\ i = <<>> /\ o = Append(<<>>, uciok)
    BY <1>1, SaysOf DEF Stand
  <2>2. Append(<<>>, uciok) = <<uciok>>
    BY SoloAppend
  <2> QED BY <2>1, <2>2 DEF OwesFirst, Stand
<1> QED BY <1>1 DEF OwesFirst, Stand

LEMMA SpeakOwesTwo ==
  ASSUME NEW out, NEW in, NEW p \in 0..Positions, in # <<>>, OwesTwo(out, in),
         NEW o, o = Append(out, Engine!Says(Head(in))), NEW i, i = Tail(in)
  PROVE  OwesTwo(o, i)
<1>1. CASE Stand(out, in, <<>>, <<uci, isready>>)
  <2>1. Head(in) = uci /\ i = <<isready>> /\ o = Append(<<>>, uciok)
    BY <1>1, SaysOf DEF Stand
  <2>2. Append(<<>>, uciok) = <<uciok>>
    BY SoloAppend
  <2> QED BY <2>1, <2>2 DEF OwesTwo, Stand
<1>2. CASE Stand(out, in, <<uciok>>, <<isready>>)
  <2>1. Head(in) = isready /\ i = <<>> /\ o = Append(<<uciok>>, readyok)
    BY <1>2, SaysOf DEF Stand
  <2>2. Append(<<uciok>>, readyok) = <<uciok, readyok>>
    BY AppendToOne
  <2> QED BY <2>1, <2>2 DEF OwesTwo, Stand
<1>3. CASE Stand(out, in, <<>>, <<isready, isready>>)
  <2>1. Head(in) = isready /\ i = <<isready>> /\ o = Append(<<>>, readyok)
    BY <1>3, SaysOf DEF Stand
  <2>2. Append(<<>>, readyok) = <<readyok>>
    BY SoloAppend
  <2> QED BY <2>1, <2>2 DEF OwesTwo, Stand
<1>4. CASE Stand(out, in, <<readyok>>, <<isready>>)
  <2>1. Head(in) = isready /\ i = <<>> /\ o = Append(<<readyok>>, readyok)
    BY <1>4, SaysOf DEF Stand
  <2>2. Append(<<readyok>>, readyok) = <<readyok, readyok>>
    BY AppendToOne
  <2> QED BY <2>1, <2>2 DEF OwesTwo, Stand
<1> QED BY <1>1, <1>2, <1>3, <1>4 DEF OwesTwo, Stand

LEMMA SpeakOwesVerdict ==
  ASSUME NEW out, NEW in, NEW p \in 0..Positions, in # <<>>, OwesVerdict(out, in, p),
         NEW o, o = Append(out, Engine!Says(Head(in))), NEW i, i = Tail(in)
  PROVE  OwesVerdict(o, i, p)
<1>1. CASE Stand(out, in, <<>>, <<go(p)>>)
  <2>1. Head(in) = go(p) /\ i = <<>> /\ o = Append(<<>>, verdictOn(p))
    BY <1>1, SaysOf DEF Stand
  <2>2. Append(<<>>, verdictOn(p)) = <<verdictOn(p)>>
    BY SoloAppend
  <2> QED BY <2>1, <2>2 DEF OwesVerdict, Stand
<1>2. CASE Stand(out, in, <<thought(p)>>, <<go(p)>>)
  <2>1. Head(in) = go(p) /\ i = <<>> /\ o = Append(<<thought(p)>>, verdictOn(p))
    BY <1>2, SaysOf DEF Stand
  <2>2. Append(<<thought(p)>>, verdictOn(p)) = <<thought(p), verdictOn(p)>>
    BY AppendToOne
  <2> QED BY <2>1, <2>2 DEF OwesVerdict, Stand
<1> QED BY <1>1, <1>2 DEF OwesVerdict, Stand

LEMMA SpeakOwesMore ==
  ASSUME NEW out, NEW in, NEW p \in 0..Positions, in # <<>>, OwesMore(out, in, p),
         NEW o, o = Append(out, Engine!Says(Head(in))), NEW i, i = Tail(in)
  PROVE  OwesMore(o, i, p)
<1>1. CASE Stand(out, in, <<>>, <<uci, go(p)>>)
  <2>1. Head(in) = uci /\ i = <<go(p)>> /\ o = Append(<<>>, uciok)
    BY <1>1, SaysOf DEF Stand
  <2>2. Append(<<>>, uciok) = <<uciok>>
    BY SoloAppend
  <2> QED BY <2>1, <2>2 DEF OwesMore, Stand
<1>2. CASE Stand(out, in, <<>>, <<isready, go(p)>>)
  <2>1. Head(in) = isready /\ i = <<go(p)>> /\ o = Append(<<>>, readyok)
    BY <1>2, SaysOf DEF Stand
  <2>2. Append(<<>>, readyok) = <<readyok>>
    BY SoloAppend
  <2> QED BY <2>1, <2>2 DEF OwesMore, Stand
<1>3. CASE Stand(out, in, <<uciok>>, <<go(p)>>)
  <2>1. Head(in) = go(p) /\ i = <<>> /\ o = Append(<<uciok>>, verdictOn(p))
    BY <1>3, SaysOf DEF Stand
  <2>2. Append(<<uciok>>, verdictOn(p)) = <<uciok, verdictOn(p)>>
    BY AppendToOne
  <2> QED BY <2>1, <2>2 DEF OwesMore, Stand
<1>4. CASE Stand(out, in, <<uciok, thought(p)>>, <<go(p)>>)
  <2>1. Head(in) = go(p) /\ i = <<>> /\ o = Append(<<uciok, thought(p)>>, verdictOn(p))
    BY <1>4, SaysOf DEF Stand
  <2>2. Append(<<uciok, thought(p)>>, verdictOn(p)) = <<uciok, thought(p), verdictOn(p)>>
    BY AppendToTwo
  <2> QED BY <2>1, <2>2 DEF OwesMore, Stand
<1>5. CASE Stand(out, in, <<readyok>>, <<go(p)>>)
  <2>1. Head(in) = go(p) /\ i = <<>> /\ o = Append(<<readyok>>, verdictOn(p))
    BY <1>5, SaysOf DEF Stand
  <2>2. Append(<<readyok>>, verdictOn(p)) = <<readyok, verdictOn(p)>>
    BY AppendToOne
  <2> QED BY <2>1, <2>2 DEF OwesMore, Stand
<1>6. CASE Stand(out, in, <<readyok, thought(p)>>, <<go(p)>>)
  <2>1. Head(in) = go(p) /\ i = <<>> /\ o = Append(<<readyok, thought(p)>>, verdictOn(p))
    BY <1>6, SaysOf DEF Stand
  <2>2. Append(<<readyok, thought(p)>>, verdictOn(p)) = <<readyok, thought(p), verdictOn(p)>>
    BY AppendToTwo
  <2> QED BY <2>1, <2>2 DEF OwesMore, Stand
<1> QED BY <1>1, <1>2, <1>3, <1>4, <1>5, <1>6 DEF OwesMore, Stand

LEMMA ThinkOwesVerdict ==
  ASSUME NEW out, NEW in, NEW p \in 0..Positions, in # <<>>, Head(in).word = "go", OwesVerdict(out, in, p),
         \A n \in DOMAIN out : out[n] # Engine!Line("info", Head(in).of),
         NEW o, o = Append(out, Engine!Line("info", Head(in).of))
  PROVE  OwesVerdict(o, in, p)
<1>1. CASE Stand(out, in, <<>>, <<go(p)>>)
  <2>1. Head(in) = go(p) /\ o = Append(<<>>, thought(p))
    BY <1>1, WordsOf DEF Stand
  <2>2. Append(<<>>, thought(p)) = <<thought(p)>>
    BY SoloAppend
  <2> QED BY <1>1, <2>1, <2>2 DEF OwesVerdict, Stand
<1>2. CASE Stand(out, in, <<thought(p)>>, <<go(p)>>)
  <2>1. Head(in).of = p /\ out = <<thought(p)>>
    BY <1>2, WordsOf DEF Stand
  <2>2. 1 \in DOMAIN out /\ out[1] = thought(p)
    BY <2>1
  <2> QED BY <2>1, <2>2, WordsOf
<1> QED BY <1>1, <1>2 DEF OwesVerdict, Stand

LEMMA ThinkOwesMore ==
  ASSUME NEW out, NEW in, NEW p \in 0..Positions, in # <<>>, Head(in).word = "go", OwesMore(out, in, p),
         \A n \in DOMAIN out : out[n] # Engine!Line("info", Head(in).of),
         NEW o, o = Append(out, Engine!Line("info", Head(in).of))
  PROVE  OwesMore(o, in, p)
<1>1. CASE Stand(out, in, <<>>, <<uci, go(p)>>)
  <2>1. Head(in) = uci
    BY <1>1 DEF Stand
  <2> QED BY <2>1, WordsOf
<1>2. CASE Stand(out, in, <<>>, <<isready, go(p)>>)
  <2>1. Head(in) = isready
    BY <1>2 DEF Stand
  <2> QED BY <2>1, WordsOf
<1>3. CASE Stand(out, in, <<uciok>>, <<go(p)>>)
  <2>1. Head(in) = go(p) /\ o = Append(<<uciok>>, thought(p))
    BY <1>3, WordsOf DEF Stand
  <2>2. Append(<<uciok>>, thought(p)) = <<uciok, thought(p)>>
    BY AppendToOne
  <2> QED BY <1>3, <2>1, <2>2 DEF OwesMore, Stand
<1>4. CASE Stand(out, in, <<uciok, thought(p)>>, <<go(p)>>)
  <2>1. Head(in).of = p /\ out = <<uciok, thought(p)>>
    BY <1>4, WordsOf DEF Stand
  <2>2. 2 \in DOMAIN out /\ out[2] = thought(p)
    BY <2>1
  <2> QED BY <2>1, <2>2, WordsOf
<1>5. CASE Stand(out, in, <<readyok>>, <<go(p)>>)
  <2>1. Head(in) = go(p) /\ o = Append(<<readyok>>, thought(p))
    BY <1>5, WordsOf DEF Stand
  <2>2. Append(<<readyok>>, thought(p)) = <<readyok, thought(p)>>
    BY AppendToOne
  <2> QED BY <1>5, <2>1, <2>2 DEF OwesMore, Stand
<1>6. CASE Stand(out, in, <<readyok, thought(p)>>, <<go(p)>>)
  <2>1. Head(in).of = p /\ out = <<readyok, thought(p)>>
    BY <1>6, WordsOf DEF Stand
  <2>2. 2 \in DOMAIN out /\ out[2] = thought(p)
    BY <2>1
  <2> QED BY <2>1, <2>2, WordsOf
<1> QED BY <1>1, <1>2, <1>3, <1>4, <1>5, <1>6 DEF OwesMore, Stand

LEMMA NothingToThink ==
  ASSUME NEW out, NEW in, in # <<>>, Head(in).word = "go"
  PROVE  ~OwesOne(out, in) /\ ~OwesFirst(out, in) /\ ~OwesTwo(out, in)
<1>1. OwesOne(out, in) \/ OwesFirst(out, in) \/ OwesTwo(out, in) => Head(in) = uci \/ Head(in) = isready
  BY DEF OwesOne, OwesFirst, OwesTwo, Stand
<1> QED BY <1>1, WordsOf

LEMMA ReadOwesOne ==
  ASSUME NEW out, NEW in, NEW p \in 0..Positions, out # <<>>, OwesOne(out, in)
  PROVE  \/ Head(out) = uciok /\ OwesOne(Tail(out), in \o <<isready>>)
         \/ Head(out) = readyok /\ OwesVerdict(Tail(out), in \o <<go(p)>>, p)
<1>1. CASE Stand(out, in, <<uciok>>, <<>>)
  <2>1. Head(out) = uciok /\ Tail(out) = <<>> /\ in = <<>>
    BY <1>1 DEF Stand
  <2>2. <<>> \o <<isready>> = <<isready>>
    BY JoinOfNone
  <2> QED BY <2>1, <2>2 DEF OwesOne, OwesVerdict, Stand
<1>2. CASE Stand(out, in, <<readyok>>, <<>>)
  <2>1. Head(out) = readyok /\ Tail(out) = <<>> /\ in = <<>>
    BY <1>2 DEF Stand
  <2>2. <<>> \o <<go(p)>> = <<go(p)>>
    BY JoinOfNone
  <2> QED BY <2>1, <2>2 DEF OwesOne, OwesVerdict, Stand
<1> QED BY <1>1, <1>2 DEF OwesOne, Stand

LEMMA ReadOwesTwo ==
  ASSUME NEW out, NEW in, NEW p \in 0..Positions, out # <<>>, OwesTwo(out, in)
  PROVE  \/ Head(out) = uciok /\ OwesTwo(Tail(out), in \o <<isready>>)
         \/ Head(out) = readyok /\ OwesMore(Tail(out), in \o <<go(p)>>, p)
<1>1. CASE Stand(out, in, <<uciok>>, <<isready>>)
  <2>1. Head(out) = uciok /\ Tail(out) = <<>> /\ in = <<isready>>
    BY <1>1 DEF Stand
  <2>2. <<isready>> \o <<isready>> = <<isready, isready>>
    BY JoinOfOne
  <2> QED BY <2>1, <2>2 DEF OwesTwo, OwesMore, Stand
<1>2. CASE Stand(out, in, <<uciok, readyok>>, <<>>)
  <2>1. Head(out) = uciok /\ Tail(out) = <<readyok>> /\ in = <<>>
    BY <1>2 DEF Stand
  <2>2. <<>> \o <<isready>> = <<isready>>
    BY JoinOfNone
  <2> QED BY <2>1, <2>2 DEF OwesTwo, OwesMore, Stand
<1>3. CASE Stand(out, in, <<readyok>>, <<isready>>)
  <2>1. Head(out) = readyok /\ Tail(out) = <<>> /\ in = <<isready>>
    BY <1>3 DEF Stand
  <2>2. <<isready>> \o <<go(p)>> = <<isready, go(p)>>
    BY JoinOfOne
  <2> QED BY <2>1, <2>2 DEF OwesTwo, OwesMore, Stand
<1>4. CASE Stand(out, in, <<readyok, readyok>>, <<>>)
  <2>1. Head(out) = readyok /\ Tail(out) = <<readyok>> /\ in = <<>>
    BY <1>4 DEF Stand
  <2>2. <<>> \o <<go(p)>> = <<go(p)>>
    BY JoinOfNone
  <2> QED BY <2>1, <2>2 DEF OwesTwo, OwesMore, Stand
<1> QED BY <1>1, <1>2, <1>3, <1>4 DEF OwesTwo, Stand

LEMMA ReadOwesVerdict ==
  ASSUME NEW out, NEW in, NEW p \in 0..Positions, out # <<>>, OwesVerdict(out, in, p)
  PROVE  \/ Head(out) = thought(p) /\ OwesVerdict(Tail(out), in, p)
         \/ Head(out) = verdictOn(p) /\ Tail(out) = <<>> /\ in = <<>>
<1>1. CASE Stand(out, in, <<thought(p)>>, <<go(p)>>)
  <2>1. Head(out) = thought(p) /\ Tail(out) = <<>> /\ in = <<go(p)>>
    BY <1>1 DEF Stand
  <2> QED BY <2>1 DEF OwesVerdict, Stand
<1>2. CASE Stand(out, in, <<verdictOn(p)>>, <<>>)
  <2>1. Head(out) = verdictOn(p) /\ Tail(out) = <<>> /\ in = <<>>
    BY <1>2 DEF Stand
  <2> QED BY <2>1 DEF OwesVerdict, Stand
<1>3. CASE Stand(out, in, <<thought(p), verdictOn(p)>>, <<>>)
  <2>1. Head(out) = thought(p) /\ Tail(out) = <<verdictOn(p)>> /\ in = <<>>
    BY <1>3 DEF Stand
  <2> QED BY <2>1 DEF OwesVerdict, Stand
<1> QED BY <1>1, <1>2, <1>3 DEF OwesVerdict, Stand

LEMMA ReadOwesMore ==
  ASSUME NEW out, NEW in, NEW p \in 0..Positions, out # <<>>, OwesMore(out, in, p)
  PROVE  Head(out) \in {uciok, readyok} /\ OwesVerdict(Tail(out), in, p)
<1>1. CASE Stand(out, in, <<uciok>>, <<go(p)>>)
  <2>1. Head(out) = uciok /\ Tail(out) = <<>> /\ in = <<go(p)>>
    BY <1>1 DEF Stand
  <2> QED BY <2>1 DEF OwesVerdict, Stand
<1>2. CASE Stand(out, in, <<uciok, thought(p)>>, <<go(p)>>)
  <2>1. Head(out) = uciok /\ Tail(out) = <<thought(p)>> /\ in = <<go(p)>>
    BY <1>2 DEF Stand
  <2> QED BY <2>1 DEF OwesVerdict, Stand
<1>3. CASE Stand(out, in, <<uciok, verdictOn(p)>>, <<>>)
  <2>1. Head(out) = uciok /\ Tail(out) = <<verdictOn(p)>> /\ in = <<>>
    BY <1>3 DEF Stand
  <2> QED BY <2>1 DEF OwesVerdict, Stand
<1>4. CASE Stand(out, in, <<uciok, thought(p), verdictOn(p)>>, <<>>)
  <2>1. Head(out) = uciok /\ Tail(out) = <<thought(p), verdictOn(p)>> /\ in = <<>>
    BY <1>4 DEF Stand
  <2> QED BY <2>1 DEF OwesVerdict, Stand
<1>5. CASE Stand(out, in, <<readyok>>, <<go(p)>>)
  <2>1. Head(out) = readyok /\ Tail(out) = <<>> /\ in = <<go(p)>>
    BY <1>5 DEF Stand
  <2> QED BY <2>1 DEF OwesVerdict, Stand
<1>6. CASE Stand(out, in, <<readyok, thought(p)>>, <<go(p)>>)
  <2>1. Head(out) = readyok /\ Tail(out) = <<thought(p)>> /\ in = <<go(p)>>
    BY <1>6 DEF Stand
  <2> QED BY <2>1 DEF OwesVerdict, Stand
<1>7. CASE Stand(out, in, <<readyok, verdictOn(p)>>, <<>>)
  <2>1. Head(out) = readyok /\ Tail(out) = <<verdictOn(p)>> /\ in = <<>>
    BY <1>7 DEF Stand
  <2> QED BY <2>1 DEF OwesVerdict, Stand
<1>8. CASE Stand(out, in, <<readyok, thought(p), verdictOn(p)>>, <<>>)
  <2>1. Head(out) = readyok /\ Tail(out) = <<thought(p), verdictOn(p)>> /\ in = <<>>
    BY <1>8 DEF Stand
  <2> QED BY <2>1 DEF OwesVerdict, Stand
<1> QED BY <1>1, <1>2, <1>3, <1>4, <1>5, <1>6, <1>7, <1>8 DEF OwesMore, Stand

LEMMA ReadLate ==
  ASSUME NEW out, NEW in, NEW p \in 0..Positions, OwesFirst(out, in)
  PROVE  OwesTwo(out, in \o <<isready>>) /\ OwesMore(out, in \o <<go(p)>>, p)
<1>1. CASE Stand(out, in, <<>>, <<uci>>)
  <2>1. <<uci>> \o <<isready>> = <<uci, isready>> /\ <<uci>> \o <<go(p)>> = <<uci, go(p)>>
    BY JoinOfOne
  <2> QED BY <1>1, <2>1 DEF OwesTwo, OwesMore, Stand
<1>2. CASE Stand(out, in, <<uciok>>, <<>>)
  <2>1. <<>> \o <<isready>> = <<isready>> /\ <<>> \o <<go(p)>> = <<go(p)>>
    BY JoinOfNone
  <2> QED BY <1>2, <2>1 DEF OwesTwo, OwesMore, Stand
<1> QED BY <1>1, <1>2 DEF OwesFirst

\* What is owed is mild once the process is killed.
LEMMA MildShapes ==
  ASSUME NEW out, NEW in, NEW p \in 0..Positions, OwesOne(out, in) \/ OwesVerdict(out, in, p)
  PROVE  Mild(out)
<1>1. CASE OwesOne(out, in)
  BY <1>1 DEF OwesOne, Stand, Mild
<1>2. CASE OwesVerdict(out, in, p)
  <2>1. out = <<>> \/ out = <<thought(p)>> \/ out = <<verdictOn(p)>> \/ out = <<thought(p), verdictOn(p)>>
    BY <1>2 DEF OwesVerdict, Stand
  <2> QED BY <2>1, WordsOf DEF Mild
<1> QED BY <1>1, <1>2
-----------------------------------------------------------------------------

Touches(all, more, c) ==
  more \in Seq(EngineRows) /\ Len(more) = Len(all) /\ \A i \in 1..Len(all) : i # c => more[i] = all[i]
SameLife(row, other) ==
  other.alive = row.alive /\ other.quitting = row.quitting /\ other.noticed = row.noticed

\* The processes after one was told a command, had a line read, answered, or thought aloud.
Told(all, c, word) == [all EXCEPT ![c].stdin = @ \o <<word>>]
Read(all, c) == [all EXCEPT ![c].stdout = Tail(@)]
Spoken(all, c, word) == [all EXCEPT ![c].stdin = Tail(@), ![c].stdout = Append(@, word)]
Thought(all, c, word) == [all EXCEPT ![c].stdout = Append(@, word)]

LEMMA RowFields ==
  ASSUME NEW all \in Seq(EngineRows), NEW c \in 1..Len(all)
  PROVE  /\ all[c] \in EngineRows /\ all[c].stdin \in Seq(EngineCommands) /\ all[c].stdout \in Seq(EngineLines)
         /\ all[c].alive \in BOOLEAN /\ all[c].quitting \in BOOLEAN /\ all[c].noticed \in BOOLEAN
<1>1. all[c] \in EngineRows
  BY ElementOfSeq
<1> QED BY <1>1 DEF EngineRows

LEMMA RowPut ==
  ASSUME NEW all \in Seq(EngineRows), NEW c \in 1..Len(all), NEW row \in EngineRows, NEW more,
         more = [all EXCEPT ![c] = row]
  PROVE  Touches(all, more, c) /\ more[c] = row
  BY ExceptSeq, LenProperties DEF Touches

LEMMA RowTold ==
  ASSUME NEW all \in Seq(EngineRows), NEW c \in 1..Len(all), NEW word \in EngineCommands, NEW more,
         more = Told(all, c, word)
  PROVE  /\ Touches(all, more, c) /\ SameLife(all[c], more[c])
         /\ more[c].stdin = all[c].stdin \o <<word>> /\ more[c].stdout = all[c].stdout
<1> DEFINE row == more[c]
<1>0. DOMAIN all = 1..Len(all) /\ row = [all[c] EXCEPT !.stdin = @ \o <<word>>]
  BY LenProperties DEF Told
<1>1. all[c].stdin \o <<word>> \in Seq(EngineCommands)
  BY RowFields, ConcatProperties
<1>2. /\ row \in EngineRows /\ SameLife(all[c], row)
      /\ row.stdin = all[c].stdin \o <<word>> /\ row.stdout = all[c].stdout
  BY <1>0, <1>1, RowFields DEF EngineRows, SameLife
<1>3. more = [all EXCEPT ![c] = row]
  BY <1>0 DEF Told
<1>5. Touches(all, more, c)
  <2> HIDE DEF row
  <2> QED BY <1>2, <1>3, RowPut
<1> QED BY <1>2, <1>5

LEMMA RowRead ==
  ASSUME NEW all \in Seq(EngineRows), NEW c \in 1..Len(all), all[c].stdout # <<>>, NEW more,
         more = Read(all, c)
  PROVE  /\ Touches(all, more, c) /\ SameLife(all[c], more[c])
         /\ more[c].stdin = all[c].stdin /\ more[c].stdout = Tail(all[c].stdout)
<1> DEFINE row == more[c]
<1>0. DOMAIN all = 1..Len(all) /\ row = [all[c] EXCEPT !.stdout = Tail(@)]
  BY LenProperties DEF Read
<1>1. Tail(all[c].stdout) \in Seq(EngineLines)
  BY RowFields, HeadTailProperties
<1>2. /\ row \in EngineRows /\ SameLife(all[c], row)
      /\ row.stdin = all[c].stdin /\ row.stdout = Tail(all[c].stdout)
  BY <1>0, <1>1, RowFields DEF EngineRows, SameLife
<1>3. more = [all EXCEPT ![c] = row]
  BY <1>0 DEF Read
<1>5. Touches(all, more, c)
  <2> HIDE DEF row
  <2> QED BY <1>2, <1>3, RowPut
<1> QED BY <1>2, <1>5

LEMMA RowSpeaks ==
  ASSUME NEW all \in Seq(EngineRows), NEW c \in 1..Len(all), all[c].stdin # <<>>, NEW word \in EngineLines, NEW more,
         more = Spoken(all, c, word)
  PROVE  /\ Touches(all, more, c) /\ SameLife(all[c], more[c])
         /\ more[c].stdin = Tail(all[c].stdin) /\ more[c].stdout = Append(all[c].stdout, word)
<1> DEFINE row == more[c]
<1>0. DOMAIN all = 1..Len(all) /\ row = [all[c] EXCEPT !.stdin = Tail(@), !.stdout = Append(@, word)]
  BY LenProperties DEF Spoken
<1>1. Append(all[c].stdout, word) \in Seq(EngineLines) /\ Tail(all[c].stdin) \in Seq(EngineCommands)
  BY RowFields, AppendProperties, HeadTailProperties
<1>2. /\ row \in EngineRows /\ SameLife(all[c], row)
      /\ row.stdin = Tail(all[c].stdin) /\ row.stdout = Append(all[c].stdout, word)
  BY <1>0, <1>1, RowFields DEF EngineRows, SameLife
<1>3. more = [all EXCEPT ![c] = row]
  BY <1>0 DEF Spoken
<1>5. Touches(all, more, c)
  <2> HIDE DEF row
  <2> QED BY <1>2, <1>3, RowPut
<1> QED BY <1>2, <1>5

LEMMA RowThinks ==
  ASSUME NEW all \in Seq(EngineRows), NEW c \in 1..Len(all), NEW word \in EngineLines, NEW more,
         more = Thought(all, c, word)
  PROVE  /\ Touches(all, more, c) /\ SameLife(all[c], more[c])
         /\ more[c].stdin = all[c].stdin /\ more[c].stdout = Append(all[c].stdout, word)
<1> DEFINE row == more[c]
<1>0. DOMAIN all = 1..Len(all) /\ row = [all[c] EXCEPT !.stdout = Append(@, word)]
  BY LenProperties DEF Thought
<1>1. Append(all[c].stdout, word) \in Seq(EngineLines)
  BY RowFields, AppendProperties
<1>2. /\ row \in EngineRows /\ SameLife(all[c], row)
      /\ row.stdin = all[c].stdin /\ row.stdout = Append(all[c].stdout, word)
  BY <1>0, <1>1, RowFields DEF EngineRows, SameLife
<1>3. more = [all EXCEPT ![c] = row]
  BY <1>0 DEF Thought
<1>5. Touches(all, more, c)
  <2> HIDE DEF row
  <2> QED BY <1>2, <1>3, RowPut
<1> QED BY <1>2, <1>5

SamePipes(row, other) == other.stdin = row.stdin /\ other.stdout = row.stdout

\* ... and after one died, was seen to have gone, was told to quit, or never started.
Dead(all, c) == [all EXCEPT ![c].alive = FALSE]
SeenToGo(all, c) == [all EXCEPT ![c].noticed = TRUE]
Quits(all, c) == [all EXCEPT ![c].quitting = TRUE]
Unborn(all, c) == [all EXCEPT ![c].alive = FALSE, ![c].noticed = TRUE]

LEMMA RowLives ==
  ASSUME NEW all \in Seq(EngineRows), NEW c \in 1..Len(all), NEW more,
         \/ more = Dead(all, c) \/ more = SeenToGo(all, c) \/ more = Quits(all, c) \/ more = Unborn(all, c)
  PROVE  /\ Touches(all, more, c) /\ SamePipes(all[c], more[c]) /\ (more[c].alive => all[c].alive)
         /\ more = Quits(all, c) => more[c].quitting
         /\ more = SeenToGo(all, c) \/ more = Dead(all, c) \/ more = Unborn(all, c) => more[c].quitting = all[c].quitting
         /\ more = Dead(all, c) \/ more = Unborn(all, c) => ~more[c].alive
<1> DEFINE row == more[c]
<1>0. DOMAIN all = 1..Len(all)
  BY LenProperties
<1>1. /\ more = Dead(all, c) => row = [all[c] EXCEPT !.alive = FALSE]
      /\ more = SeenToGo(all, c) => row = [all[c] EXCEPT !.noticed = TRUE]
      /\ more = Quits(all, c) => row = [all[c] EXCEPT !.quitting = TRUE]
      /\ more = Unborn(all, c) => row = [all[c] EXCEPT !.alive = FALSE, !.noticed = TRUE]
  BY <1>0 DEF Dead, SeenToGo, Quits, Unborn
<1>2. row \in EngineRows /\ SamePipes(all[c], row) /\ (row.alive => all[c].alive)
  BY <1>1, RowFields DEF EngineRows, SamePipes
<1>3. more = [all EXCEPT ![c] = row]
  BY <1>0 DEF Dead, SeenToGo, Quits, Unborn
<1>4. Touches(all, more, c)
  <2> HIDE DEF row
  <2> QED BY <1>2, <1>3, RowPut
<1>5. more = Quits(all, c) => row.quitting
  BY <1>1, RowFields DEF EngineRows
<1>6. more = SeenToGo(all, c) \/ more = Dead(all, c) \/ more = Unborn(all, c) => row.quitting = all[c].quitting
  BY <1>1, RowFields DEF EngineRows
<1>7. more = Dead(all, c) \/ more = Unborn(all, c) => ~row.alive
  <2>1. [all[c] EXCEPT !.alive = FALSE].alive = FALSE
    BY RowFields DEF EngineRows
  <2>2. [all[c] EXCEPT !.alive = FALSE, !.noticed = TRUE].alive = FALSE
    BY RowFields DEF EngineRows
  <2> QED BY <1>1, <2>1, <2>2
<1> QED BY <1>2, <1>4, <1>5, <1>6, <1>7

\* What the processes wrote that nobody has read stays as it was but for one of them.
LEMMA LateSame ==
  ASSUME NEW all \in Seq(EngineRows), NEW more, NEW c \in 1..Len(all), Touches(all, more, c)
  PROVE  (NothingLate(all, c) => NothingLate(more, c)) /\ (OneIsLate(all, c) => OneIsLate(more, c))
  BY DEF Touches, NothingLate, OneIsLate

LEMMA LateKept ==
  ASSUME NEW all \in Seq(EngineRows), NEW more, NEW c \in 0..Len(all), NEW i \in 1..Len(all), Touches(all, more, i),
         more[i].stdout = all[i].stdout
  PROVE  (NothingLate(all, c) => NothingLate(more, c)) /\ (OneIsLate(all, c) => OneIsLate(more, c))
<1>1. Len(more) = Len(all) /\ \A k \in 1..Len(all) : more[k].stdout = all[k].stdout
  BY DEF Touches
<1> QED BY <1>1 DEF NothingLate, OneIsLate

LEMMA DialogueSpeaks ==
  ASSUME NEW all \in Seq(EngineRows), NEW c \in 1..Len(all), NEW p \in 0..Positions, NEW h \in Handlers, NEW t \in Nat,
         all[c].stdin # <<>>, NEW more, Touches(all, more, c),
         more[c].stdin = Tail(all[c].stdin),
         more[c].stdout = Append(all[c].stdout, Engine!Says(Head(all[c].stdin))),
         Dialogue(all, c, p, h, t)
  PROVE  Dialogue(more, c, p, h, t)
<1> DEFINE out == all[c].stdout
           in == all[c].stdin
           o == more[c].stdout
           i == more[c].stdin
<1>0. in # <<>> /\ i = Tail(in) /\ o = Append(out, Engine!Says(Head(in)))
  OBVIOUS
<1>1. (NothingLate(all, c) => NothingLate(more, c)) /\ (OneIsLate(all, c) => OneIsLate(more, c))
  BY LateSame
<1>2. h.for # "nothing"
  BY <1>0 DEF Dialogue, Rests
<1>3. CASE h.for = "handshake"
  <2>1. ShakesHands(all, c, t)
    BY <1>3 DEF Dialogue
  <2>2. /\ OwesOne(out, in) => OwesOne(o, i)
        /\ OwesTwo(out, in) => OwesTwo(o, i)
        /\ OwesFirst(out, in) => OwesFirst(o, i)
    <3> HIDE DEF out, in, o, i
    <3> QED BY <1>0, SpeakOwesOne, SpeakOwesTwo, SpeakOwesFirst
  <2>3. ShakesHands(more, c, t)
    BY <1>1, <2>1, <2>2 DEF ShakesHands
  <2> QED BY <1>3, <2>3 DEF Dialogue
<1>4. CASE h.for = "search"
  <2>1. Searches(all, c, p, t) /\ h.info \in {0, p}
    BY <1>4 DEF Dialogue
  <2>2. /\ OwesVerdict(out, in, p) => OwesVerdict(o, i, p)
        /\ OwesMore(out, in, p) => OwesMore(o, i, p)
    <3> HIDE DEF out, in, o, i
    <3> QED BY <1>0, SpeakOwesVerdict, SpeakOwesMore
  <2>3. Searches(more, c, p, t)
    BY <1>1, <2>1, <2>2 DEF Searches
  <2> QED BY <1>4, <2>1, <2>3 DEF Dialogue
<1> QED BY <1>2, <1>3, <1>4 DEF Dialogue

LEMMA DialogueThinks ==
  ASSUME NEW all \in Seq(EngineRows), NEW c \in 1..Len(all), NEW p \in 0..Positions, NEW h \in Handlers, NEW t \in Nat,
         all[c].stdin # <<>>, Head(all[c].stdin).word = "go",
         \A n \in DOMAIN all[c].stdout : all[c].stdout[n] # Engine!Line("info", Head(all[c].stdin).of),
         NEW more, Touches(all, more, c),
         more[c].stdin = all[c].stdin,
         more[c].stdout = Append(all[c].stdout, Engine!Line("info", Head(all[c].stdin).of)),
         Dialogue(all, c, p, h, t)
  PROVE  Dialogue(more, c, p, h, t)
<1> DEFINE out == all[c].stdout
           in == all[c].stdin
           o == more[c].stdout
<1>0. /\ in # <<>> /\ Head(in).word = "go" /\ o = Append(out, Engine!Line("info", Head(in).of))
      /\ \A n \in DOMAIN out : out[n] # Engine!Line("info", Head(in).of)
      /\ more[c].stdin = in
  OBVIOUS
<1>1. (NothingLate(all, c) => NothingLate(more, c)) /\ (OneIsLate(all, c) => OneIsLate(more, c))
  BY LateSame
<1>2. h.for # "nothing"
  BY <1>0 DEF Dialogue, Rests
<1>3. h.for # "handshake"
  <2>1. ~OwesOne(out, in) /\ ~OwesFirst(out, in) /\ ~OwesTwo(out, in)
    <3> HIDE DEF out, in
    <3> QED BY <1>0, NothingToThink
  <2> QED BY <2>1 DEF Dialogue, ShakesHands
<1>4. CASE h.for = "search"
  <2>1. Searches(all, c, p, t) /\ h.info \in {0, p}
    BY <1>4 DEF Dialogue
  <2>2. /\ OwesVerdict(out, in, p) => OwesVerdict(o, in, p)
        /\ OwesMore(out, in, p) => OwesMore(o, in, p)
    <3> HIDE DEF out, in, o
    <3> QED BY <1>0, ThinkOwesVerdict, ThinkOwesMore
  <2>3. Searches(more, c, p, t)
    BY <1>0, <1>1, <2>1, <2>2 DEF Searches
  <2> QED BY <1>4, <2>1, <2>3 DEF Dialogue
<1> QED BY <1>2, <1>3, <1>4 DEF Dialogue

\* A process may die, be noticed or be told to quit: nothing is written or read by that.
LEMMA DialogueStays ==
  ASSUME NEW all \in Seq(EngineRows), NEW c \in 0..Len(all), NEW p \in 0..Positions, NEW h \in Handlers, NEW t \in Nat,
         NEW i \in 1..Len(all), NEW more, Touches(all, more, i), SamePipes(all[i], more[i]),
         c # 0 \/ h.for = "nothing", Dialogue(all, c, p, h, t)
  PROVE  Dialogue(more, c, p, h, t)
<1>1. (NothingLate(all, c) => NothingLate(more, c)) /\ (OneIsLate(all, c) => OneIsLate(more, c))
  BY LateKept DEF SamePipes
<1>2. c # 0 => more[c].stdout = all[c].stdout /\ more[c].stdin = all[c].stdin
  BY DEF Touches, SamePipes
<1>3. h.for = "nothing" => Rests(more, c, p, t)
  BY <1>1, <1>2 DEF Dialogue, Rests
<1>4. c # 0 /\ ShakesHands(all, c, t) => ShakesHands(more, c, t)
  BY <1>1, <1>2 DEF ShakesHands
<1>5. c # 0 /\ Searches(all, c, p, t) => Searches(more, c, p, t)
  BY <1>1, <1>2 DEF Searches
<1> QED BY <1>3, <1>4, <1>5 DEF Dialogue

\* The process in use leaves: what it had written before is late from now on.
LEMMA DialogueLeft ==
  ASSUME NEW all \in Seq(EngineRows), NEW c \in 0..Len(all), NEW p \in 0..Positions, NEW h \in Handlers,
         h.for # "nothing" => c # 0, Dialogue(all, c, p, h, 0)
  PROVE  OneIsLate(all, 0) \/ (c = 0 /\ p = 0)
<1>1. CASE c = 0
  BY <1>1 DEF Dialogue, Rests, Handlers
<1>2. CASE c # 0
  <2> DEFINE out == all[c].stdout
             in == all[c].stdin
  <2>1. NothingLate(all, c) /\ (out = <<>> \/ OwesOne(out, in) \/ OwesVerdict(out, in, p))
    BY <1>2 DEF Dialogue, Rests, ShakesHands, Searches, Handlers, Engine!NoHandler, Engine!Handshake
  <2>2. Mild(out)
    <3>1. OwesOne(out, in) \/ OwesVerdict(out, in, p) => Mild(out)
      <4> HIDE DEF out, in
      <4> QED BY MildShapes
    <3> QED BY <2>1, <3>1 DEF Mild
  <2>3. \A i \in 1..Len(all) : all[i].stdout # <<>> => i = c
    BY <2>1 DEF NothingLate
  <2>4. \A i \in 1..Len(all) : Mild(all[i].stdout)
    <3>1. Mild(<<>>)
      BY DEF Mild
    <3> QED BY <2>2, <2>3, <3>1
  <2> QED BY <2>3, <2>4 DEF OneIsLate
<1> QED BY <1>1, <1>2

LEMMA LateOver ==
  ASSUME NEW all \in Seq(EngineRows), \A i \in 1..Len(all) : all[i].stdout = <<>>
  PROVE  NothingLate(all, 0) /\ OneIsLate(all, 0)
<1>1. Mild(<<>>)
  BY DEF Mild
<1> QED BY <1>1 DEF NothingLate, OneIsLate

LEMMA MildTail ==
  ASSUME NEW out \in Seq(EngineLines), out # <<>>, Mild(out)
  PROVE  /\ Mild(Tail(out))
         /\ out = <<uciok>> \/ out = <<readyok>> => Tail(out) = <<>>
         /\ Head(out).word \in {"uciok", "readyok"} => Tail(out) = <<>>
<1>1. CASE out = <<uciok>> \/ out = <<readyok>>
  <2>1. Tail(<<uciok>>) = <<>> /\ Tail(<<readyok>>) = <<>>
    OBVIOUS
  <2>2. Tail(out) = <<>>
    BY <1>1, <2>1
  <2> QED BY <2>2 DEF Mild
<1>2. CASE \A n \in 1..Len(out) : out[n].word \in {"info", "bestmove", "none"}
  <2>1. Len(out) \in Nat \ {0} /\ Head(out) = out[1] /\ Len(Tail(out)) = Len(out) - 1
        /\ \A n \in 1..Len(out) - 1 : Tail(out)[n] = out[n + 1]
    BY EmptySeq, HeadTailProperties, LenProperties
  <2>2. \A n \in 1..Len(Tail(out)) : Tail(out)[n].word \in {"info", "bestmove", "none"}
    BY <1>2, <2>1
  <2>3. Head(out).word \in {"info", "bestmove", "none"}
    BY <1>2, <2>1
  <2>4. out # <<uciok>> /\ out # <<readyok>>
    BY <2>3, WordsOf
  <2> QED BY <2>2, <2>3, <2>4 DEF Mild
<1> QED BY <1>1, <1>2 DEF Mild

\* A line of a process that was killed is read: nothing else of it is dangerous.
LEMMA LateRead ==
  ASSUME NEW all \in Seq(EngineRows), NEW c \in 0..Len(all), NEW i \in 1..Len(all), i # c, all[i].stdout # <<>>,
         NEW more, Touches(all, more, i), more[i].stdout = Tail(all[i].stdout), OneIsLate(all, c)
  PROVE  /\ OneIsLate(more, c)
         /\ Head(all[i].stdout).word \in {"uciok", "readyok"} => NothingLate(more, c)
<1> DEFINE out == all[i].stdout
<1>1. out \in Seq(EngineLines) /\ out # <<>>
  BY RowFields
<1>2. Mild(out)
  BY DEF OneIsLate
<1>3. Mild(Tail(out)) /\ (Head(out).word \in {"uciok", "readyok"} => Tail(out) = <<>>)
  <2> HIDE DEF out
  <2> QED BY <1>1, <1>2, MildTail
<1>4. \A j \in 1..Len(all) : j # c /\ j # i => all[j].stdout = <<>> /\ more[j].stdout = <<>>
  BY <1>1 DEF OneIsLate, Touches
<1>5. Mild(<<>>)
  BY DEF Mild
<1>6. Len(more) = Len(all) /\ more[i].stdout = Tail(out)
  BY DEF Touches
<1>7. \A j \in 1..Len(more) : j # c => Mild(more[j].stdout)
  BY <1>3, <1>4, <1>5, <1>6
<1>8. OneIsLate(more, c)
  <2>1. \A j \in 1..Len(more) : j # c /\ more[j].stdout # <<>> => j = i
    BY <1>4, <1>6
  <2> QED BY <1>7, <2>1 DEF OneIsLate
<1>9. Head(out).word \in {"uciok", "readyok"} => NothingLate(more, c)
  BY <1>3, <1>4, <1>6 DEF NothingLate
<1> QED BY <1>8, <1>9

EngineLive == ~disposed /\ worker = "up" /\ overtaken <= 1
EngineRest == <<chain, current, handler, child, evals, disposed, worker, overtaken>>

LEMMA DomainOfProcs == ASSUME EngineInv PROVE DOMAIN procs = 1..Len(procs) /\ Len(procs) \in Nat
  BY LenProperties DEF EngineInv, EngineTypes

LEMMA LiveIsInUse ==
  ASSUME EngineInv, EngineLive, NEW i \in 1..Len(procs), procs[i].alive
  PROVE  i = child
  BY DomainOfProcs DEF EngineInv, EngineLive, Engine!NoZombie, Engine!Up

\* One process changes; the adapter stands still.
LEMMA ProcessMoves ==
  ASSUME EngineInv, NEW i \in 1..Len(procs), Touches(procs, procs', i),
         procs'[i].alive => procs[i].alive, procs'[i].quitting = procs[i].quitting,
         UNCHANGED EngineRest,
         EngineLive => Dialogue(procs', child, current, handler, overtaken)
  PROVE  EngineInv'
<1>0. UNCHANGED <<chain, current, handler, child, evals, disposed, worker, overtaken>>
  BY DEF EngineRest
<1>1. EngineTypes'
  BY <1>0 DEF EngineInv, EngineTypes, Touches
<1>2. WaitingOK'
  BY <1>0 DEF EngineInv, WaitingOK
<1>3. Len(procs') = Len(procs) /\ \A j \in 1..Len(procs) :
        (procs'[j].alive => procs[j].alive) /\ procs'[j].quitting = procs[j].quitting
  BY DEF Touches
<1>4. Engine!AnswerIsOfPosition'
  BY <1>0 DEF EngineInv, Engine!AnswerIsOfPosition, Engine!AnswerOf
<1>5. Engine!NoZombie'
  <2>1. DOMAIN procs = 1..Len(procs) /\ DOMAIN procs' = 1..Len(procs')
    BY <1>1, DomainOfProcs, LenProperties DEF EngineTypes
  <2> QED BY <1>0, <1>3, <2>1 DEF EngineInv, Engine!NoZombie, Engine!Up
<1>6. (handler.for = "nothing" <=> (child = 0 \/ current = 0))' /\ (disposed => child = 0)'
  BY <1>0 DEF EngineInv
<1>7. (~disposed => \A j \in 1..Len(procs) : ~procs[j].quitting)'
  BY <1>0, <1>3 DEF EngineInv
<1>8. (~disposed /\ worker = "up" /\ overtaken <= 1 => Dialogue(procs, child, current, handler, overtaken))'
  BY <1>0 DEF EngineLive
<1> QED BY <1>1, <1>2, <1>4, <1>5, <1>6, <1>7, <1>8 DEF EngineInv

\* What a process is told it can answer.
LEMMA SaysLines ==
  ASSUME NEW c \in EngineCommands, c.word \in {"uci", "isready", "go"}
  PROVE  Engine!Says(c) \in EngineLines
<1>1. c.of \in 0..Positions
  BY DEF EngineCommands
<1>2. CASE c.word = "uci"
  BY <1>2, CommandsAndLines DEF Engine!Says, uciok, Engine!None
<1>3. CASE c.word = "isready"
  BY <1>3, CommandsAndLines DEF Engine!Says, readyok, Engine!None
<1>4. CASE c.word = "go"
  <2>1. Engine!Says(c) = verdictOn(c.of)
    BY <1>4 DEF Engine!Says, verdictOn
  <2> QED BY <1>1, <2>1, CommandsAndLines
<1> QED BY <1>2, <1>3, <1>4

LEMMA SpeakKeeps ==
  ASSUME EngineInv, NEW i \in 1..Len(procs), Engine!Speak(i)
  PROVE  EngineInv'
<1> DEFINE command == Head(procs[i].stdin)
<1>0. procs \in Seq(EngineRows) /\ current \in 0..Positions /\ handler \in Handlers /\ overtaken \in Nat
  BY DEF EngineInv, EngineTypes
<1>1. /\ procs[i].alive /\ procs[i].stdin # <<>> /\ command.word \in {"uci", "isready", "go"}
      /\ procs' = Spoken(procs, i, Engine!Says(command))
      /\ UNCHANGED EngineRest
  BY DEF Engine!Speak, Engine!Heard, EngineRest, Spoken
<1>2. command \in EngineCommands
  BY <1>0, <1>1, RowFields, HeadTailProperties
<1>3. Engine!Says(command) \in EngineLines
  BY <1>1, <1>2, SaysLines
<1>4. /\ Touches(procs, procs', i) /\ SameLife(procs[i], procs'[i])
      /\ procs'[i].stdin = Tail(procs[i].stdin) /\ procs'[i].stdout = Append(procs[i].stdout, Engine!Says(command))
  <2> HIDE DEF command
  <2> QED BY <1>0, <1>1, <1>3, RowSpeaks
<1>5. EngineLive => Dialogue(procs', child, current, handler, overtaken)
  <2> SUFFICES ASSUME EngineLive PROVE Dialogue(procs', child, current, handler, overtaken)
    OBVIOUS
  <2>1. i = child /\ Dialogue(procs, child, current, handler, overtaken)
    BY <1>1, LiveIsInUse DEF EngineInv, EngineLive
  <2> QED BY <1>0, <1>1, <1>4, <2>1, DialogueSpeaks
<1> QED BY <1>1, <1>4, <1>5, ProcessMoves DEF SameLife

LEMMA ThinkKeeps ==
  ASSUME EngineInv, NEW i \in 1..Len(procs), Engine!Think(i)
  PROVE  EngineInv'
<1> DEFINE of == Head(procs[i].stdin).of
<1>0. procs \in Seq(EngineRows) /\ current \in 0..Positions /\ handler \in Handlers /\ overtaken \in Nat
  BY DEF EngineInv, EngineTypes
<1>1. /\ procs[i].alive /\ procs[i].stdin # <<>> /\ Head(procs[i].stdin).word = "go"
      /\ \A n \in DOMAIN procs[i].stdout : procs[i].stdout[n] # Engine!Line("info", of)
      /\ procs' = Thought(procs, i, Engine!Line("info", of))
      /\ UNCHANGED EngineRest
  BY DEF Engine!Think, Engine!Heard, EngineRest, Thought
<1>2. Head(procs[i].stdin) \in EngineCommands
  BY <1>0, <1>1, RowFields, HeadTailProperties
<1>3. Engine!Line("info", of) \in EngineLines
  BY <1>2 DEF EngineCommands, EngineLines, Engine!Line, Words
<1>4. /\ Touches(procs, procs', i) /\ SameLife(procs[i], procs'[i])
      /\ procs'[i].stdin = procs[i].stdin /\ procs'[i].stdout = Append(procs[i].stdout, Engine!Line("info", of))
  <2> HIDE DEF of
  <2> QED BY <1>0, <1>1, <1>3, RowThinks
<1>5. EngineLive => Dialogue(procs', child, current, handler, overtaken)
  <2> SUFFICES ASSUME EngineLive PROVE Dialogue(procs', child, current, handler, overtaken)
    OBVIOUS
  <2>1. i = child /\ Dialogue(procs, child, current, handler, overtaken)
    BY <1>1, LiveIsInUse DEF EngineInv, EngineLive
  <2>2. procs'[child].stdin = procs[child].stdin
        /\ procs'[child].stdout = Append(procs[child].stdout, Engine!Line("info", Head(procs[child].stdin).of))
    BY <1>4, <2>1
  <2>3. /\ procs[child].stdin # <<>> /\ Head(procs[child].stdin).word = "go"
        /\ \A n \in DOMAIN procs[child].stdout :
             procs[child].stdout[n] # Engine!Line("info", Head(procs[child].stdin).of)
        /\ Touches(procs, procs', child) /\ child \in 1..Len(procs)
    BY <1>1, <1>4, <2>1, Zenon
  <2> HIDE DEF of
  <2> QED BY <1>0, <2>1, <2>2, <2>3, DialogueThinks
<1> QED BY <1>1, <1>4, <1>5, ProcessMoves, Zenon DEF SameLife

\* Death, at any time, on its own or after the grace of quit.
LEMMA DeathKeeps ==
  ASSUME EngineInv, NEW i \in 1..Len(procs), Engine!Die(i) \/ Engine!GraceOver(i)
  PROVE  EngineInv'
<1>0. procs \in Seq(EngineRows) /\ current \in 0..Positions /\ handler \in Handlers /\ overtaken \in Nat
      /\ child \in 0..Len(procs)
  BY DomainOfProcs DEF EngineInv, EngineTypes
<1>1. procs' = Dead(procs, i) /\ UNCHANGED EngineRest
  BY DEF Engine!Die, Engine!GraceOver, EngineRest, Dead
<1>2. Touches(procs, procs', i) /\ SamePipes(procs[i], procs'[i]) /\ procs'[i].quitting = procs[i].quitting
      /\ (procs'[i].alive => procs[i].alive)
  BY <1>0, <1>1, RowLives
<1>3. child # 0 \/ handler.for = "nothing"
  BY DEF EngineInv
<1>4. EngineLive => Dialogue(procs', child, current, handler, overtaken)
  <2>1. EngineLive => Dialogue(procs, child, current, handler, overtaken)
    BY DEF EngineInv, EngineLive
  <2> QED BY <1>0, <1>2, <1>3, <2>1, DialogueStays
<1> QED BY <1>1, <1>2, <1>4, ProcessMoves

LEMMA ToldRow ==
  ASSUME NEW rows \in Seq(EngineRows), NEW n \in 1..Len(rows), NEW w \in EngineCommands
  PROVE  /\ Touches(rows, Told(rows, n, w), n)
         /\ Told(rows, n, w)[n].stdin = rows[n].stdin \o <<w>> /\ Told(rows, n, w)[n].stdout = rows[n].stdout
<1>1. Touches(rows, Told(rows, n, w), n)
  BY RowTold
<1>2. Told(rows, n, w)[n].stdin = rows[n].stdin \o <<w>>
  BY RowTold
<1>3. Told(rows, n, w)[n].stdout = rows[n].stdout
  BY RowTold
<1> QED BY <1>1, <1>2, <1>3

LEMMA ReadAtRest ==
  ASSUME NEW all \in Seq(EngineRows), NEW c \in 0..Len(all), NEW p \in 0..Positions, NEW t \in Nat,
         NEW i \in 1..Len(all), all[i].stdout # <<>>, Rests(all, c, p, t), t <= 1
  PROVE  c = 0 /\ Rests(Read(all, i), 0, p, t)
<1>1. c = 0
  BY DEF Rests, NothingLate
<1>2. OneIsLate(all, 0) => OneIsLate(Read(all, i), 0)
  BY RowRead, LateRead
<1>3. ~NothingLate(all, 0)
  BY DEF NothingLate
<1> QED BY <1>1, <1>2, <1>3 DEF Rests

\* A line is read while the adapter waits for the handshake to end.
LEMMA ReadShaking ==
  ASSUME NEW all \in Seq(EngineRows), NEW c \in 1..Len(all), c = Len(all), NEW p \in 1..Positions, NEW t \in Nat,
         NEW i \in 1..Len(all), all[i].stdout # <<>>, \A j \in 1..(i - 1) : all[j].stdout = <<>>,
         ShakesHands(all, c, t), NEW said, said = Head(all[i].stdout).word
  PROVE  /\ said = "uciok" => ShakesHands(Told(Read(all, i), c, isready), c, t)
         /\ said = "readyok" => Searches(Told(Read(all, i), c, go(p)), c, p, t)
         /\ said \notin {"uciok", "readyok"} => ShakesHands(Read(all, i), c, t)
<1> DEFINE out == all[c].stdout
           in == all[c].stdin
           rest == Read(all, i)
           first == Told(rest, c, isready)
           then == Told(rest, c, go(p))
<1>1. /\ Touches(all, rest, i) /\ rest[i].stdout = Tail(all[i].stdout) /\ rest[i].stdin = all[i].stdin
      /\ rest \in Seq(EngineRows) /\ Len(rest) = Len(all)
  BY RowRead DEF Touches
<1>2. /\ Touches(rest, first, c) /\ first[c].stdin = rest[c].stdin \o <<isready>> /\ first[c].stdout = rest[c].stdout
      /\ Touches(rest, then, c) /\ then[c].stdin = rest[c].stdin \o <<go(p)>> /\ then[c].stdout = rest[c].stdout
  <2>1. isready \in EngineCommands /\ go(p) \in EngineCommands
    BY EngineAssumption, CommandsAndLines
  <2>2. rest \in Seq(EngineRows) /\ c \in 1..Len(rest)
    BY <1>1
  <2> HIDE DEF rest
  <2>3. Touches(rest, first, c) /\ first[c].stdin = rest[c].stdin \o <<isready>> /\ first[c].stdout = rest[c].stdout
    BY <2>1, <2>2, ToldRow
  <2>4. Touches(rest, then, c) /\ then[c].stdin = rest[c].stdin \o <<go(p)>> /\ then[c].stdout = rest[c].stdout
    BY <2>1, <2>2, ToldRow
  <2> QED BY <2>3, <2>4
<1>3. /\ NothingLate(rest, c) => NothingLate(first, c) /\ NothingLate(then, c)
      /\ OneIsLate(rest, c) => OneIsLate(first, c) /\ OneIsLate(then, c)
  <2> HIDE DEF rest, first, then
  <2> QED BY <1>1, <1>2, LateSame
<1>4. p \in 0..Positions
  BY EngineAssumption
<1>5. CASE i = c
  <2>1. NothingLate(all, c)
    BY <1>5 DEF NothingLate
  <2>2. NothingLate(rest, c)
    BY <1>1, <1>5, <2>1, LateSame
  <2>3. /\ rest[c].stdout = Tail(out) /\ rest[c].stdin = in /\ out # <<>> /\ said = Head(out).word
    BY <1>1, <1>5
  <2>4. OwesOne(out, in) \/ (t = 1 /\ OwesTwo(out, in))
    BY DEF ShakesHands, OwesOne, OwesFirst
  <2>5. CASE OwesOne(out, in)
    <3>1. \/ Head(out) = uciok /\ OwesOne(Tail(out), in \o <<isready>>)
          \/ Head(out) = readyok /\ OwesVerdict(Tail(out), in \o <<go(p)>>, p)
      <4> HIDE DEF out, in
      <4> QED BY <1>4, <2>3, <2>5, ReadOwesOne
    <3>2. \/ said = "uciok" /\ OwesOne(first[c].stdout, first[c].stdin)
          \/ said = "readyok" /\ OwesVerdict(then[c].stdout, then[c].stdin, p)
      <4>1. /\ first[c].stdout = Tail(out) /\ first[c].stdin = in \o <<isready>>
            /\ then[c].stdout = Tail(out) /\ then[c].stdin = in \o <<go(p)>>
        BY <1>2, <2>3
      <4>2. Head(out) = uciok => said = "uciok"
        BY <2>3, WordsOf
      <4>3. Head(out) = readyok => said = "readyok"
        BY <2>3, WordsOf
      <4> HIDE DEF first, then, out, in
      <4> QED BY <3>1, <4>1, <4>2, <4>3
    <3> QED BY <1>3, <2>2, <3>2 DEF ShakesHands, Searches
  <2>6. CASE t = 1 /\ OwesTwo(out, in)
    <3>1. \/ Head(out) = uciok /\ OwesTwo(Tail(out), in \o <<isready>>)
          \/ Head(out) = readyok /\ OwesMore(Tail(out), in \o <<go(p)>>, p)
      <4> HIDE DEF out, in
      <4> QED BY <1>4, <2>3, <2>6, ReadOwesTwo
    <3>2. \/ said = "uciok" /\ OwesTwo(first[c].stdout, first[c].stdin)
          \/ said = "readyok" /\ OwesMore(then[c].stdout, then[c].stdin, p)
      <4>1. /\ first[c].stdout = Tail(out) /\ first[c].stdin = in \o <<isready>>
            /\ then[c].stdout = Tail(out) /\ then[c].stdin = in \o <<go(p)>>
        BY <1>2, <2>3
      <4>2. Head(out) = uciok => said = "uciok"
        BY <2>3, WordsOf
      <4>3. Head(out) = readyok => said = "readyok"
        BY <2>3, WordsOf
      <4> HIDE DEF first, then, out, in
      <4> QED BY <3>1, <4>1, <4>2, <4>3
    <3> QED BY <1>3, <2>2, <2>6, <3>2 DEF ShakesHands, Searches
  <2> QED BY <2>4, <2>5, <2>6
<1>6. CASE i # c
  <2>1. t = 1 /\ OneIsLate(all, c) /\ OwesFirst(out, in)
    BY <1>6 DEF ShakesHands, NothingLate
  <2>2. OneIsLate(rest, c) /\ (said \in {"uciok", "readyok"} => NothingLate(rest, c))
    BY <1>1, <1>6, <2>1, LateRead
  <2>3. rest[c].stdout = out /\ rest[c].stdin = in
    BY <1>1, <1>6 DEF Touches
  <2>4. OwesTwo(out, in \o <<isready>>) /\ OwesMore(out, in \o <<go(p)>>, p)
    <3> HIDE DEF out, in
    <3> QED BY <1>4, <2>1, ReadLate
  <2>5. said = "uciok" => ShakesHands(first, c, t)
    BY <1>2, <1>3, <2>1, <2>2, <2>3, <2>4 DEF ShakesHands
  <2>6. said = "readyok" => Searches(then, c, p, t)
    BY <1>2, <1>3, <2>1, <2>2, <2>3, <2>4 DEF Searches
  <2>7. ShakesHands(rest, c, t)
    BY <2>1, <2>2, <2>3 DEF ShakesHands
  <2> QED BY <2>5, <2>6, <2>7
<1> QED BY <1>5, <1>6

\* ... and while it waits for the verdict on a position.
LEMMA ReadSearching ==
  ASSUME NEW all \in Seq(EngineRows), NEW c \in 1..Len(all), NEW p \in 1..Positions, NEW t \in Nat,
         NEW i \in 1..Len(all), all[i].stdout # <<>>, Searches(all, c, p, t),
         NEW line, line = Head(all[i].stdout)
  PROVE  /\ line.word = "info" => line.of = p
         /\ line.word \in {"bestmove", "none"} =>
              /\ line = verdictOn(p) /\ NothingLate(Read(all, i), c)
              /\ Read(all, i)[c].stdout = <<>> /\ Read(all, i)[c].stdin = <<>>
         /\ line.word \notin {"bestmove", "none"} => Searches(Read(all, i), c, p, t)
<1> DEFINE out == all[c].stdout
           in == all[c].stdin
           rest == Read(all, i)
<1>1. i = c
  BY DEF Searches, NothingLate
<1>2. /\ Touches(all, rest, c) /\ rest[c].stdout = Tail(out) /\ rest[c].stdin = in /\ out # <<>> /\ line = Head(out)
  BY <1>1, RowRead
<1>3. NothingLate(rest, c)
  BY <1>2, LateSame DEF Searches
<1>4. p \in 0..Positions
  BY EngineAssumption
<1>5. CASE OwesVerdict(out, in, p)
  <2>1. \/ line = thought(p) /\ OwesVerdict(Tail(out), in, p)
        \/ line = verdictOn(p) /\ Tail(out) = <<>> /\ in = <<>>
    <3> HIDE DEF out, in
    <3> QED BY <1>2, <1>4, <1>5, ReadOwesVerdict
  <2>2. CASE line = thought(p) /\ OwesVerdict(Tail(out), in, p)
    <3>1. line.word = "info" /\ line.of = p
      BY <1>4, <2>2, WordsOf
    <3> QED BY <1>2, <1>3, <2>2, <3>1 DEF Searches
  <2>3. CASE line = verdictOn(p) /\ Tail(out) = <<>> /\ in = <<>>
    <3>1. line.word \in {"bestmove", "none"}
      BY <1>4, <2>3, WordsOf
    <3> QED BY <1>2, <1>3, <2>3, <3>1
  <2> QED BY <2>1, <2>2, <2>3
<1>6. CASE t = 1 /\ OwesMore(out, in, p)
  <2>1. line \in {uciok, readyok} /\ OwesVerdict(Tail(out), in, p)
    <3> HIDE DEF out, in
    <3> QED BY <1>2, <1>4, <1>6, ReadOwesMore
  <2>2. line.word \in {"uciok", "readyok"}
    BY <2>1, WordsOf
  <2> QED BY <1>2, <1>3, <2>1, <2>2 DEF Searches
<1> QED BY <1>5, <1>6 DEF Searches

\* The answers, but for what is said of the position under analysis.
LEMMA AdapterReads ==
  ASSUME EngineInv, Engine!Up, procs' \in Seq(EngineRows), Len(procs') = Len(procs),
         \A j \in 1..Len(procs) : SameLife(procs[j], procs'[j]),
         UNCHANGED <<chain, child, disposed, overtaken, current, evals>>,
         handler' \in Handlers, handler'.for = "nothing" <=> handler.for = "nothing",
         worker' \in {worker, "dead"},
         ~disposed /\ overtaken <= 1 /\ worker' = "up" => Dialogue(procs', child, current, handler', overtaken)
  PROVE  EngineInv'
<1>1. EngineTypes'
  BY DEF EngineInv, EngineTypes
<1>2. WaitingOK'
  BY DEF EngineInv, WaitingOK
<1>3. Engine!AnswerIsOfPosition'
  BY DEF EngineInv, Engine!AnswerIsOfPosition, Engine!AnswerOf
<1>4. Engine!NoZombie'
  <2>1. DOMAIN procs = 1..Len(procs) /\ DOMAIN procs' = 1..Len(procs')
    BY <1>1, DomainOfProcs, LenProperties DEF EngineTypes
  <2> QED BY <2>1 DEF EngineInv, Engine!NoZombie, Engine!Up, SameLife
<1>5. (handler.for = "nothing" <=> (child = 0 \/ current = 0))' /\ (disposed => child = 0)'
  BY DEF EngineInv
<1>6. (~disposed => \A j \in 1..Len(procs) : ~procs[j].quitting)'
  BY DEF EngineInv, SameLife
<1> QED BY <1>1, <1>2, <1>3, <1>4, <1>5, <1>6 DEF EngineInv

\* A word to the process in use, or its end in an error that nobody hears.
Tells(rest, command) ==
  \/ procs[child].alive /\ procs' = Told(rest, child, command) /\ worker' = worker
  \/ procs' = rest /\ worker' = "dead"

LEMMA WriteTells ==
  ASSUME NEW rest, NEW command, Engine!Write(rest, <<command>>)
  PROVE  Tells(rest, command)
  BY DEF Engine!Write, Tells, Told

LEMMA TellsKeepsLife ==
  ASSUME NEW rest \in Seq(EngineRows), NEW command \in EngineCommands, child \in 1..Len(rest), Tells(rest, command)
  PROVE  /\ procs' \in Seq(EngineRows) /\ Len(procs') = Len(rest) /\ worker' \in {worker, "dead"}
         /\ \A j \in 1..Len(rest) : SameLife(rest[j], procs'[j])
         /\ worker' = "up" => procs' = Told(rest, child, command)
<1>1. /\ Touches(rest, Told(rest, child, command), child)
      /\ SameLife(rest[child], Told(rest, child, command)[child])
  BY RowTold
<1>2. Told(rest, child, command) \in Seq(EngineRows) /\ Len(Told(rest, child, command)) = Len(rest)
      /\ \A j \in 1..Len(rest) : SameLife(rest[j], Told(rest, child, command)[j])
  BY <1>1 DEF Touches, SameLife
<1>3. \A j \in 1..Len(rest) : SameLife(rest[j], rest[j])
  BY DEF SameLife
<1> QED BY <1>2, <1>3 DEF Tells

\* What is found: the words of a verdict.
LEMMA VerdictIsTrue ==
  ASSUME NEW p \in 1..Positions, NEW info \in {0, p}, NEW outcome,
         outcome = IF verdictOn(p).word = "none" THEN Engine!Failed ELSE Engine!Found(verdictOn(p).of, info)
  PROVE  /\ outcome \in Answers /\ outcome # Engine!Pending
         /\ outcome.answer = "found" => outcome.of = p /\ outcome.info \in {p, 0}
<1>1. p \in 0..Positions /\ 0 \in 0..Positions
  BY EngineAssumption
<1>2. verdictOn(p).of = p
  BY <1>1, WordsOf
<1>3. CASE outcome = Engine!Failed
  BY <1>3 DEF Engine!Failed, Engine!Pending, Answers
<1>4. CASE outcome = Engine!Found(p, info)
  BY <1>1, <1>4 DEF Engine!Found, Engine!Pending, Answers
<1> QED BY <1>2, <1>3, <1>4

\* The position under analysis is settled.
LEMMA SettledIsWaitedForNoMore ==
  ASSUME EngineInv, current # 0, NEW outcome \in Answers, outcome # Engine!Pending,
         evals' = [evals EXCEPT ![current] = outcome], current' = 0, chain' = chain
  PROVE  /\ evals' \in [1..Positions -> Answers] /\ evals'[current] = outcome
         /\ \A p \in 1..Positions : p # current => evals'[p] = evals[p]
         /\ WaitingOK'
<1>0. chain \in Seq(1..Positions) /\ current \in 1..Positions /\ evals \in [1..Positions -> Answers]
      /\ \A n \in 1..Len(chain) : chain[n] \in 1..Positions
  BY EngineAssumption, ElementOfSeq DEF EngineInv, EngineTypes
<1>1. evals' \in [1..Positions -> Answers] /\ evals'[current] = outcome
      /\ \A p \in 1..Positions : p # current => evals'[p] = evals[p]
  BY <1>0
<1>2. \A p \in 1..Positions :
        evals'[p] = Engine!Pending <=> (p = current' \/ \E n \in 1..Len(chain') : chain'[n] = p)
  <2> TAKE p \in 1..Positions
  <2>1. CASE p = current
    BY <1>0, <1>1, <2>1 DEF EngineInv, WaitingOK
  <2>2. CASE p # current
    BY <1>0, <1>1, <2>2 DEF EngineInv, WaitingOK
  <2> QED BY <2>1, <2>2
<1>3. (\A m, n \in 1..Len(chain) : chain[m] = chain[n] => m = n)'
  BY DEF EngineInv, WaitingOK
<1>4. (\A n \in 1..Len(chain) : chain[n] # current)'
  BY <1>0
<1> QED BY <1>1, <1>2, <1>3, <1>4 DEF WaitingOK

LEMMA AdapterSettles ==
  ASSUME EngineInv, current # 0, NEW outcome \in Answers, outcome # Engine!Pending,
         evals' = [evals EXCEPT ![current] = outcome], current' = 0,
         UNCHANGED <<chain, disposed, worker>>, handler' = Engine!NoHandler,
         overtaken' \in Nat, overtaken <= overtaken',
         procs' \in Seq(EngineRows), Len(procs') = Len(procs),
         \A j \in 1..Len(procs) : procs'[j].quitting = procs[j].quitting /\ (procs'[j].alive => procs[j].alive),
         child' = child \/ (child' = 0 /\ (child # 0 => ~procs'[child].alive)),
         overtaken <= 1 => (outcome.answer = "found" => outcome.of = current /\ outcome.info \in {current, 0}),
         ~disposed /\ overtaken' <= 1 /\ worker = "up" => Rests(procs', child', 0, overtaken')
  PROVE  EngineInv'
<1>1. /\ evals' \in [1..Positions -> Answers] /\ evals'[current] = outcome
      /\ \A p \in 1..Positions : p # current => evals'[p] = evals[p]
      /\ WaitingOK'
  BY SettledIsWaitedForNoMore
<1>2. EngineTypes'
  BY <1>1, EngineAssumption DEF EngineInv, EngineTypes, Handlers
<1>3. Engine!AnswerIsOfPosition'
  <2> SUFFICES ASSUME overtaken' <= 1, NEW p \in 1..Positions PROVE Engine!AnswerOf(p)'
    BY DEF Engine!AnswerIsOfPosition
  <2>1. overtaken <= 1
    BY DEF EngineInv, EngineTypes
  <2>2. Engine!AnswerOf(p)
    BY <2>1 DEF EngineInv, Engine!AnswerIsOfPosition
  <2> QED BY <1>1, <2>1, <2>2 DEF Engine!AnswerOf, Engine!None
<1>4. Engine!NoZombie'
  <2>1. DOMAIN procs = 1..Len(procs) /\ DOMAIN procs' = 1..Len(procs)
    BY DomainOfProcs, LenProperties
  <2> QED BY <2>1 DEF EngineInv, Engine!NoZombie, Engine!Up
<1>5. (handler.for = "nothing" <=> (child = 0 \/ current = 0))' /\ (disposed => child = 0)'
  BY DEF EngineInv, Engine!NoHandler
<1>6. (~disposed => \A j \in 1..Len(procs) : ~procs[j].quitting)'
  BY DEF EngineInv
<1>7. (~disposed /\ worker = "up" /\ overtaken <= 1 => Dialogue(procs, child, current, handler, overtaken))'
  BY DEF Dialogue, Engine!NoHandler
<1> QED BY <1>1, <1>2, <1>3, <1>4, <1>5, <1>6, <1>7 DEF EngineInv

LEMMA ReadKeeps ==
  ASSUME EngineInv, NEW i \in 1..Len(procs), Engine!ReadLine(i)
  PROVE  EngineInv'
<1> DEFINE line == Head(procs[i].stdout)
           rest == Read(procs, i)
<1>0. /\ procs \in Seq(EngineRows) /\ current \in 0..Positions /\ handler \in Handlers /\ overtaken \in Nat
      /\ child \in {0, Len(procs)} /\ Len(procs) \in Nat /\ child \in 0..Len(procs)
  BY DomainOfProcs DEF EngineInv, EngineTypes
<1>1. /\ Engine!Up /\ procs[i].stdout # <<>> /\ \A j \in 1..(i - 1) : procs[j].stdout = <<>>
      /\ UNCHANGED <<chain, child, disposed, overtaken>>
  BY DEF Engine!ReadLine, Engine!Readable
<1>2. line \in EngineLines
  BY <1>0, <1>1, RowFields, HeadTailProperties
<1>3. Touches(procs, rest, i) /\ SameLife(procs[i], rest[i])
  BY <1>0, <1>1, RowRead
<1>4. rest \in Seq(EngineRows) /\ Len(rest) = Len(procs) /\ \A j \in 1..Len(procs) : SameLife(procs[j], rest[j])
  BY <1>3 DEF Touches, SameLife
<1>5. rest = [procs EXCEPT ![i].stdout = Tail(@)]
  BY DEF Read
<1>6. EngineLive => Dialogue(procs, child, current, handler, overtaken)
  BY DEF EngineInv, EngineLive
<1>7. handler.for # "nothing" => child \in 1..Len(procs) /\ child = Len(procs) /\ current \in 1..Positions /\ ~disposed
  BY <1>0, EngineAssumption DEF EngineInv
<1>8. handler.for \in {"nothing", "handshake", "search"}
  BY <1>0 DEF Handlers, Engine!NoHandler, Engine!Handshake
<1>9. CASE handler.for = "handshake"
  <2>0. EngineLive => ShakesHands(procs, child, overtaken)
    BY <1>6, <1>9 DEF Dialogue
  <2>1. EngineLive =>
        /\ line.word = "uciok" => ShakesHands(Told(rest, child, isready), child, overtaken)
        /\ line.word = "readyok" => Searches(Told(rest, child, go(current)), child, current, overtaken)
        /\ line.word \notin {"uciok", "readyok"} => ShakesHands(rest, child, overtaken)
    BY <1>0, <1>1, <1>7, <1>9, <2>0, ReadShaking
  <2>2. CASE line.word = "uciok"
    <3>1. Engine!Write(rest, <<isready>>) /\ UNCHANGED <<handler, evals, current>>
      BY <1>5, <1>9, <2>2 DEF Engine!ReadLine, isready, Engine!None
    <3>2. Tells(rest, isready) /\ isready \in EngineCommands
      BY <3>1, WriteTells, CommandsAndLines
    <3>3. /\ procs' \in Seq(EngineRows) /\ Len(procs') = Len(rest) /\ worker' \in {worker, "dead"}
          /\ \A j \in 1..Len(rest) : SameLife(rest[j], procs'[j])
          /\ worker' = "up" => procs' = Told(rest, child, isready)
      <4> HIDE DEF rest
      <4> QED BY <1>4, <1>7, <1>9, <3>2, TellsKeepsLife
    <3>4. \A j \in 1..Len(procs) : SameLife(procs[j], procs'[j])
      BY <1>4, <3>3 DEF SameLife
    <3>5. ~disposed /\ overtaken <= 1 /\ worker' = "up" => Dialogue(procs', child, current, handler', overtaken)
      <4> HIDE DEF rest
      <4> QED BY <1>1, <1>9, <2>1, <2>2, <3>1, <3>3 DEF Dialogue, EngineLive, Engine!Up
    <3> HIDE DEF rest
    <3> QED BY <1>0, <1>1, <1>4, <3>1, <3>3, <3>4, <3>5, AdapterReads
  <2>3. CASE line.word = "readyok"
    <3>1. Engine!Write(rest, <<go(current)>>) /\ handler' = Engine!Search /\ UNCHANGED <<evals, current>>
      BY <1>5, <1>9, <2>3 DEF Engine!ReadLine, Engine!GoCommands, go
    <3>2. Tells(rest, go(current)) /\ go(current) \in EngineCommands
      BY <1>0, <3>1, WriteTells, CommandsAndLines
    <3>3. /\ procs' \in Seq(EngineRows) /\ Len(procs') = Len(rest) /\ worker' \in {worker, "dead"}
          /\ \A j \in 1..Len(rest) : SameLife(rest[j], procs'[j])
          /\ worker' = "up" => procs' = Told(rest, child, go(current))
      <4> HIDE DEF rest
      <4> QED BY <1>4, <1>7, <1>9, <3>2, TellsKeepsLife
    <3>4. \A j \in 1..Len(procs) : SameLife(procs[j], procs'[j])
      BY <1>4, <3>3 DEF SameLife
    <3>5. handler' \in Handlers /\ handler'.for = "search" /\ handler'.info = 0
      BY <3>1, EngineAssumption DEF Engine!Search, Handlers, Engine!None
    <3>6. ~disposed /\ overtaken <= 1 /\ worker' = "up" => Dialogue(procs', child, current, handler', overtaken)
      <4> HIDE DEF rest
      <4> QED BY <1>1, <1>9, <2>1, <2>3, <3>3, <3>5 DEF Dialogue, EngineLive, Engine!Up
    <3> HIDE DEF rest
    <3> QED BY <1>0, <1>1, <1>4, <1>9, <3>1, <3>3, <3>4, <3>5, <3>6, AdapterReads
  <2>4. CASE line.word \notin {"uciok", "readyok"}
    <3>1. procs' = rest /\ UNCHANGED <<handler, evals, current, worker>>
      BY <1>5, <1>9, <2>4 DEF Engine!ReadLine
    <3>2. ~disposed /\ overtaken <= 1 /\ worker' = "up" => Dialogue(procs', child, current, handler', overtaken)
      <4> HIDE DEF rest
      <4> QED BY <1>1, <1>9, <2>1, <2>4, <3>1 DEF Dialogue, EngineLive
    <3> HIDE DEF rest
    <3> QED BY <1>0, <1>1, <1>4, <3>1, <3>2, AdapterReads
  <2> QED BY <2>2, <2>3, <2>4
<1>10. CASE handler.for = "search"
  <2>0. EngineLive => Searches(procs, child, current, overtaken) /\ handler.info \in {0, current}
    BY <1>6, <1>10 DEF Dialogue
  <2>1. EngineLive =>
        /\ line.word = "info" => line.of = current
        /\ line.word \in {"bestmove", "none"} =>
             /\ line = verdictOn(current) /\ NothingLate(rest, child)
             /\ rest[child].stdout = <<>> /\ rest[child].stdin = <<>>
        /\ line.word \notin {"bestmove", "none"} => Searches(rest, child, current, overtaken)
    BY <1>0, <1>1, <1>7, <1>10, <2>0, ReadSearching
  <2>2. handler \in [for : {"search"}, info : 0..Positions]
    BY <1>0, <1>10 DEF Handlers, Engine!NoHandler, Engine!Handshake
  <2>3. CASE line.word = "info"
    <3>1. procs' = rest /\ handler' = [handler EXCEPT !.info = line.of] /\ UNCHANGED <<evals, current, worker>>
      BY <1>5, <1>10, <2>3 DEF Engine!ReadLine
    <3>2. line.of \in 0..Positions
      BY <1>2 DEF EngineLines
    <3>3. handler' \in Handlers /\ handler'.for = "search" /\ handler'.info = line.of
      BY <2>2, <3>1, <3>2 DEF Handlers
    <3>4. ~disposed /\ overtaken <= 1 /\ worker' = "up" => Dialogue(procs', child, current, handler', overtaken)
      <4> HIDE DEF rest
      <4> QED BY <1>1, <2>1, <2>3, <3>1, <3>3 DEF Dialogue, EngineLive
    <3> HIDE DEF rest
    <3> QED BY <1>0, <1>1, <1>4, <1>10, <3>1, <3>3, <3>4, AdapterReads
  <2>4. CASE line.word \in {"bestmove", "none"}
    <3> DEFINE outcome == IF line.word = "none" THEN Engine!Failed ELSE Engine!Found(line.of, handler.info)
    <3>1. procs' = rest /\ handler' = Engine!NoHandler /\ evals' = [evals EXCEPT ![current] = outcome]
          /\ current' = 0 /\ worker' = worker
      BY <1>5, <1>10, <2>4 DEF Engine!ReadLine, Engine!Settle, Engine!None
    <3>2. outcome \in Answers /\ outcome # Engine!Pending
      <4>1. line.of \in 0..Positions /\ handler.info \in 0..Positions
        BY <1>2, <2>2 DEF EngineLines
      <4> QED BY <4>1 DEF Answers, Engine!Failed, Engine!Found, Engine!Pending
    <3>3. EngineLive => (outcome.answer = "found" => outcome.of = current /\ outcome.info \in {current, 0})
      BY <1>7, <1>10, <2>0, <2>1, <2>4, VerdictIsTrue
    <3> HIDE DEF outcome
    <3>4. ~disposed /\ overtaken <= 1 /\ worker = "up" => Rests(rest, child, 0, overtaken)
      <4> HIDE DEF rest
      <4> QED BY <1>7, <1>10, <2>1, <2>4 DEF Rests, EngineLive
    <3>5. overtaken <= 1 => (outcome.answer = "found" => outcome.of = current /\ outcome.info \in {current, 0})
      BY <1>1, <1>7, <1>10, <3>3 DEF EngineLive, Engine!Up
    <3>6. current # 0 /\ overtaken' = overtaken /\ overtaken <= overtaken
      BY <1>0, <1>1, <1>7, <1>10
    <3>7. \A j \in 1..Len(procs) : procs'[j].quitting = procs[j].quitting /\ (procs'[j].alive => procs[j].alive)
      BY <1>4, <3>1 DEF SameLife
    <3> HIDE DEF rest
    <3> QED BY <1>0, <1>1, <1>4, <3>1, <3>2, <3>4, <3>5, <3>6, <3>7, AdapterSettles
  <2>5. CASE line.word \notin {"info", "bestmove", "none"}
    <3>1. procs' = rest /\ UNCHANGED <<handler, evals, current, worker>>
      BY <1>5, <1>10, <2>5 DEF Engine!ReadLine
    <3>2. ~disposed /\ overtaken <= 1 /\ worker' = "up" => Dialogue(procs', child, current, handler', overtaken)
      <4> HIDE DEF rest
      <4> QED BY <1>1, <1>10, <2>0, <2>1, <2>5, <3>1 DEF Dialogue, EngineLive
    <3> HIDE DEF rest
    <3> QED BY <1>0, <1>1, <1>4, <3>1, <3>2, AdapterReads
  <2> QED BY <2>3, <2>4, <2>5
<1>11. CASE handler.for = "nothing"
  <2>1. procs' = rest /\ UNCHANGED <<handler, evals, current, worker>>
    BY <1>5, <1>11 DEF Engine!ReadLine
  <2>2. ~disposed /\ overtaken <= 1 /\ worker' = "up" => Dialogue(procs', child, current, handler', overtaken)
    <3> SUFFICES ASSUME EngineLive PROVE Dialogue(procs', child, current, handler', overtaken)
      BY <2>1 DEF EngineLive
    <3>1. Rests(procs, child, current, overtaken) /\ overtaken <= 1
      BY <1>6, <1>11 DEF Dialogue, EngineLive
    <3>2. child = 0 /\ Rests(rest, 0, current, overtaken)
      BY <1>0, <1>1, <3>1, ReadAtRest
    <3> HIDE DEF rest
    <3> QED BY <1>11, <2>1, <3>2 DEF Dialogue
  <2> HIDE DEF rest
  <2> QED BY <1>0, <1>1, <1>4, <2>1, <2>2, AdapterReads
<1> QED BY <1>8, <1>9, <1>10, <1>11

LEMMA EngineShape ==
  ASSUME EngineInv
  PROVE  /\ procs \in Seq(EngineRows) /\ current \in 0..Positions /\ handler \in Handlers /\ overtaken \in Nat
         /\ child \in {0, Len(procs)} /\ Len(procs) \in Nat /\ child \in 0..Len(procs)
         /\ DOMAIN procs = 1..Len(procs) /\ (child # 0 => child \in 1..Len(procs))
  BY DomainOfProcs DEF EngineInv, EngineTypes

LEMMA TimeoutKeeps == ASSUME EngineInv, Engine!Timeout PROVE EngineInv'
<1> DEFINE spoken == \E i \in 1..Len(procs) : procs[i].stdout # <<>>
<1>0. /\ procs \in Seq(EngineRows) /\ current \in 0..Positions /\ handler \in Handlers /\ overtaken \in Nat
      /\ child \in {0, Len(procs)} /\ Len(procs) \in Nat /\ child \in 0..Len(procs)
      /\ DOMAIN procs = 1..Len(procs) /\ (child # 0 => child \in 1..Len(procs))
  BY EngineShape
<1>1. /\ Engine!Up /\ current # 0 /\ procs' = IF child = 0 THEN procs ELSE Dead(procs, child)
      /\ child' = 0 /\ handler' = Engine!NoHandler
      /\ evals' = [evals EXCEPT ![current] = Engine!Failed] /\ current' = 0
      /\ overtaken' = overtaken + (IF spoken THEN 1 ELSE 0)
      /\ UNCHANGED <<chain, disposed, worker>>
  BY <1>0 DEF Engine!Timeout, Engine!Killed, Engine!Settle, Engine!None, Dead
<1>2. /\ procs' \in Seq(EngineRows) /\ Len(procs') = Len(procs)
      /\ \A j \in 1..Len(procs) : /\ procs'[j].quitting = procs[j].quitting /\ (procs'[j].alive => procs[j].alive)
                                  /\ procs'[j].stdout = procs[j].stdout
      /\ child # 0 => ~procs'[child].alive
  <2>1. CASE child = 0
    BY <1>0, <1>1, <2>1
  <2>2. CASE child # 0
    <3>1. procs' = Dead(procs, child) /\ child \in 1..Len(procs)
      BY <1>0, <1>1, <2>2, Zenon
    <3>2. /\ Touches(procs, procs', child) /\ SamePipes(procs[child], procs'[child])
          /\ procs'[child].quitting = procs[child].quitting
          /\ (procs'[child].alive => procs[child].alive) /\ ~procs'[child].alive
      BY <1>0, <3>1, RowLives, Zenon
    <3> QED BY <3>2 DEF Touches, SamePipes
  <2> QED BY <2>1, <2>2
<1>3. Engine!Failed \in Answers /\ Engine!Failed # Engine!Pending /\ Engine!Failed.answer # "found"
  BY DEF Answers, Engine!Failed, Engine!Pending
<1>4. overtaken' \in Nat /\ overtaken <= overtaken' /\ (overtaken' <= 1 /\ spoken => overtaken = 0 /\ overtaken' = 1)
  <2>1. overtaken' = overtaken + (IF spoken THEN 1 ELSE 0) /\ overtaken \in Nat
    BY <1>0, <1>1, Zenon
  <2> HIDE DEF spoken
  <2> QED BY <2>1
<1>5. ~disposed /\ overtaken' <= 1 /\ worker = "up" => Rests(procs', child', 0, overtaken')
  <2> SUFFICES ASSUME ~disposed, overtaken' <= 1, worker = "up" PROVE Rests(procs', 0, 0, overtaken')
    BY <1>1
  <2>1. CASE ~spoken
    <3>1. NothingLate(procs', 0) /\ OneIsLate(procs', 0)
      BY <1>0, <1>2, <2>1, LateOver, Zenon
    <3> QED BY <3>1 DEF Rests
  <2>2. CASE spoken
    <3>1. overtaken = 0 /\ overtaken' = 1
      BY <1>4, <2>2
    <3>2. Dialogue(procs, child, current, handler, 0) /\ (handler.for # "nothing" => child # 0)
      BY <3>1 DEF EngineInv
    <3>3. OneIsLate(procs, 0)
      BY <1>0, <1>1, <3>2, DialogueLeft, Zenon
    <3>4. OneIsLate(procs', 0)
      BY <1>2, <3>3 DEF OneIsLate
    <3> QED BY <3>1, <3>4 DEF Rests
  <2> QED BY <2>1, <2>2
<1> QED BY <1>1, <1>2, <1>3, <1>4, <1>5, AdapterSettles

LEMMA SpawnErrorKeeps == ASSUME EngineInv, Engine!SpawnError PROVE EngineInv'
<1>0. /\ procs \in Seq(EngineRows) /\ current \in 0..Positions /\ handler \in Handlers /\ overtaken \in Nat
      /\ child \in {0, Len(procs)} /\ Len(procs) \in Nat /\ child \in 0..Len(procs)
      /\ DOMAIN procs = 1..Len(procs) /\ (child # 0 => child \in 1..Len(procs))
  BY EngineShape
<1>1. /\ handler.for = "handshake" /\ procs[child].stdin = <<uci>>
      /\ procs' = Unborn(procs, child)
      /\ child' = 0 /\ handler' = Engine!NoHandler
      /\ evals' = [evals EXCEPT ![current] = Engine!Failed] /\ current' = 0
      /\ UNCHANGED <<chain, disposed, worker, overtaken>>
  BY DEF Engine!SpawnError, Engine!Handshake, Engine!Spawned, Engine!Settle, Engine!None, Unborn, uci
<1>2. child \in 1..Len(procs) /\ current # 0
  BY <1>0, <1>1 DEF EngineInv
<1>3. /\ Touches(procs, procs', child) /\ SamePipes(procs[child], procs'[child])
      /\ procs'[child].quitting = procs[child].quitting
      /\ (procs'[child].alive => procs[child].alive) /\ ~procs'[child].alive
  BY <1>0, <1>1, <1>2, RowLives
<1>4. /\ procs' \in Seq(EngineRows) /\ Len(procs') = Len(procs)
      /\ \A j \in 1..Len(procs) : /\ procs'[j].quitting = procs[j].quitting /\ (procs'[j].alive => procs[j].alive)
                                  /\ procs'[j].stdout = procs[j].stdout
  BY <1>3 DEF Touches, SamePipes
<1>5. Engine!Failed \in Answers /\ Engine!Failed # Engine!Pending /\ Engine!Failed.answer # "found"
  BY DEF Answers, Engine!Failed, Engine!Pending
<1>6. ~disposed /\ overtaken' <= 1 /\ worker = "up" => Rests(procs', child', 0, overtaken')
  <2> SUFFICES ASSUME ~disposed, overtaken <= 1, worker = "up" PROVE Rests(procs', 0, 0, overtaken)
    BY <1>1
  <2>1. ShakesHands(procs, child, overtaken)
    BY <1>1 DEF EngineInv, Dialogue
  <2> DEFINE out == procs[child].stdout
             in == procs[child].stdin
  <2>2. /\ OwesOne(out, in) => out = <<>>
        /\ OwesFirst(out, in) => out = <<>>
        /\ ~OwesTwo(out, in)
    <3>1. in = <<uci>> /\ <<uci>> # <<>> /\ uci # isready
      BY <1>1, WordsOf
    <3> HIDE DEF out, in
    <3>2. OwesOne(out, in) => out = <<>>
      BY <3>1 DEF OwesOne, Stand
    <3>3. OwesFirst(out, in) => out = <<>>
      BY <3>1 DEF OwesFirst, Stand
    <3>4. <<uci>> # <<uci, isready>> /\ <<uci>> # <<isready>> /\ <<uci>> # <<isready, isready>>
      <4>1. Len(<<uci>>) = 1 /\ Len(<<uci, isready>>) = 2 /\ Len(<<isready, isready>>) = 2
            /\ Head(<<uci>>) = uci /\ Head(<<isready>>) = isready
        OBVIOUS
      <4> QED BY <3>1, <4>1
    <3>5. ~OwesTwo(out, in)
      BY <3>1, <3>4 DEF OwesTwo, Stand
    <3> QED BY <3>2, <3>3, <3>5
  <2>3. out = <<>> /\ (NothingLate(procs, child) \/ (overtaken = 1 /\ OneIsLate(procs, child)))
    BY <2>1, <2>2 DEF ShakesHands
  <2>4. CASE NothingLate(procs, child)
    <3>1. \A j \in 1..Len(procs') : procs'[j].stdout = <<>>
      BY <1>4, <2>3, <2>4 DEF NothingLate
    <3>2. NothingLate(procs', 0) /\ OneIsLate(procs', 0)
      BY <1>0, <1>4, <3>1, LateOver, Zenon
    <3> QED BY <3>2 DEF Rests
  <2>5. CASE overtaken = 1 /\ OneIsLate(procs, child)
    <3>1. Mild(<<>>)
      BY DEF Mild
    <3>2. OneIsLate(procs', 0)
      BY <1>4, <2>3, <2>5, <3>1 DEF OneIsLate
    <3> QED BY <2>5, <3>2 DEF Rests
  <2> QED BY <2>3, <2>4, <2>5
<1>7. overtaken' \in Nat /\ overtaken <= overtaken'
  <2>1. overtaken' = overtaken /\ overtaken \in Nat
    BY <1>0, <1>1, Zenon
  <2> QED BY <2>1
<1> QED BY <1>1, <1>2, <1>3, <1>4, <1>5, <1>6, <1>7, AdapterSettles

LEMMA ExitKeeps ==
  ASSUME EngineInv, NEW i \in 1..Len(procs), Engine!Exit(i)
  PROVE  EngineInv'
<1>0. /\ procs \in Seq(EngineRows) /\ current \in 0..Positions /\ handler \in Handlers /\ overtaken \in Nat
      /\ child \in {0, Len(procs)} /\ Len(procs) \in Nat /\ child \in 0..Len(procs)
      /\ DOMAIN procs = 1..Len(procs) /\ (child # 0 => child \in 1..Len(procs))
  BY EngineShape
<1>1. /\ ~procs[i].alive /\ procs' = SeenToGo(procs, i)
      /\ IF child = i THEN child' = 0 /\ handler' = Engine!NoHandler ELSE UNCHANGED <<child, handler>>
      /\ UNCHANGED <<chain, current, evals, disposed, worker, overtaken>>
  BY DEF Engine!Exit, Engine!InUse, Engine!None, SeenToGo
<1>2. /\ Touches(procs, procs', i) /\ SamePipes(procs[i], procs'[i])
      /\ procs'[i].quitting = procs[i].quitting /\ (procs'[i].alive => procs[i].alive)
  BY <1>0, <1>1, RowLives, Zenon
<1>3. CASE child # i
  <2>1. UNCHANGED EngineRest
    BY <1>1, <1>3 DEF EngineRest
  <2>2. child # 0 \/ handler.for = "nothing"
    BY DEF EngineInv
  <2>3. EngineLive => Dialogue(procs', child, current, handler, overtaken)
    <3>1. EngineLive => Dialogue(procs, child, current, handler, overtaken)
      BY DEF EngineInv, EngineLive
    <3> QED BY <1>0, <1>2, <2>2, <3>1, DialogueStays, Zenon
  <2> QED BY <1>2, <2>1, <2>3, ProcessMoves
<1>4. CASE child = i
  <2>1. /\ child' = 0 /\ handler' = Engine!NoHandler /\ ~disposed
        /\ UNCHANGED <<chain, current, evals, disposed, worker, overtaken>>
    BY <1>1, <1>4 DEF EngineInv
  <2>2. /\ procs' \in Seq(EngineRows) /\ Len(procs') = Len(procs)
        /\ \A j \in 1..Len(procs) : /\ procs'[j].quitting = procs[j].quitting /\ (procs'[j].alive => procs[j].alive)
                                    /\ procs'[j].stdout = procs[j].stdout
        /\ ~procs'[i].alive
    BY <1>1, <1>2 DEF Touches, SamePipes
  <2>3. EngineTypes'
    BY <2>1, <2>2 DEF EngineInv, EngineTypes, Handlers
  <2>4. WaitingOK'
    BY <2>1 DEF EngineInv, WaitingOK
  <2>5. Engine!AnswerIsOfPosition'
    BY <2>1 DEF EngineInv, Engine!AnswerIsOfPosition, Engine!AnswerOf
  <2>6. Engine!NoZombie'
    <3>1. DOMAIN procs' = 1..Len(procs)
      BY <2>2, LenProperties
    <3> QED BY <1>0, <1>4, <2>1, <2>2, <3>1, Zenon DEF EngineInv, Engine!NoZombie, Engine!Up
  <2>7. (handler.for = "nothing" <=> (child = 0 \/ current = 0))' /\ (disposed => child = 0)'
    BY <2>1 DEF EngineInv, Engine!NoHandler
  <2>8. (~disposed => \A j \in 1..Len(procs) : ~procs[j].quitting)'
    BY <2>1, <2>2 DEF EngineInv
  <2>9. (~disposed /\ worker = "up" /\ overtaken <= 1 => Dialogue(procs, child, current, handler, overtaken))'
    <3> SUFFICES ASSUME ~disposed, worker = "up", overtaken <= 1 PROVE Dialogue(procs', 0, current, Engine!NoHandler, overtaken)
      BY <2>1
    <3>1. Dialogue(procs, child, current, handler, overtaken) /\ (handler.for # "nothing" => child # 0)
      BY DEF EngineInv
    <3>2. CASE current = 0
      <4>1. Rests(procs, child, 0, overtaken)
        BY <3>1, <3>2 DEF EngineInv, Dialogue
      <4>2. \A j \in 1..Len(procs') : procs'[j].stdout = <<>>
        BY <1>4, <2>2, <4>1 DEF Rests, NothingLate
      <4>3. NothingLate(procs', 0) /\ OneIsLate(procs', 0)
        BY <1>0, <2>2, <4>2, LateOver, Zenon
      <4> QED BY <3>2, <4>3 DEF Dialogue, Rests, Engine!NoHandler
    <3>3. CASE current # 0 /\ overtaken = 0
      <4>1. OneIsLate(procs, 0)
        BY <1>0, <3>1, <3>3, DialogueLeft, Zenon
      <4>2. OneIsLate(procs', 0)
        BY <2>2, <4>1 DEF OneIsLate
      <4> QED BY <3>3, <4>2 DEF Dialogue, Rests, Engine!NoHandler
    <3>4. CASE current # 0 /\ overtaken # 0
      BY <3>4 DEF Dialogue, Rests, Engine!NoHandler
    <3> QED BY <3>2, <3>3, <3>4
  <2> QED BY <2>3, <2>4, <2>5, <2>6, <2>7, <2>8, <2>9 DEF EngineInv
<1> QED BY <1>3, <1>4

LEMMA DisposeKeeps == ASSUME EngineInv, Engine!Dispose PROVE EngineInv'
<1>0. /\ procs \in Seq(EngineRows) /\ current \in 0..Positions /\ handler \in Handlers /\ overtaken \in Nat
      /\ child \in {0, Len(procs)} /\ Len(procs) \in Nat /\ child \in 0..Len(procs)
      /\ DOMAIN procs = 1..Len(procs) /\ (child # 0 => child \in 1..Len(procs))
  BY EngineShape
<1>1. /\ disposed' = TRUE /\ child' = 0 /\ handler' = Engine!NoHandler
      /\ UNCHANGED <<chain, current, evals, overtaken>>
  BY DEF Engine!Dispose, Engine!None
<1>2. /\ procs' \in Seq(EngineRows) /\ worker' \in {worker, "dead"}
      /\ worker' = "up" => \A j \in 1..Len(procs') : procs'[j].alive => procs'[j].quitting
  <2>1. CASE child = 0
    <3>1. UNCHANGED <<procs, worker>>
      BY <2>1 DEF Engine!Dispose, Engine!None
    <3> QED BY <1>0, <2>1, <3>1 DEF EngineInv, Engine!NoZombie, Engine!Up
  <2>2. CASE child # 0
    <3> DEFINE rest == Quits(procs, child)
               quit == Engine!Command("quit", 0)
    <3>0. child \in 1..Len(procs)
      BY <1>0, <2>2, Zenon
    <3>1. Engine!Write(rest, <<quit>>)
      BY <2>2 DEF Engine!Dispose, Engine!None, Quits
    <3>2. /\ Touches(procs, rest, child) /\ rest[child].quitting
          /\ (rest[child].alive => procs[child].alive)
      BY <1>0, <3>0, RowLives, Zenon
    <3>3. rest \in Seq(EngineRows) /\ Len(rest) = Len(procs) /\ child \in 1..Len(rest) /\ quit \in EngineCommands
      BY <3>0, <3>2, CommandsAndLines DEF Touches
    <3> HIDE DEF rest, quit
    <3>4. Tells(rest, quit)
      BY <3>1, WriteTells
    <3>5. /\ procs' \in Seq(EngineRows) /\ Len(procs') = Len(rest) /\ worker' \in {worker, "dead"}
          /\ \A j \in 1..Len(rest) : SameLife(rest[j], procs'[j])
      BY <3>3, <3>4, TellsKeepsLife
    <3>6. worker' = "up" => \A j \in 1..Len(procs) : rest[j].alive => rest[j].quitting
      <4> SUFFICES ASSUME worker' = "up", NEW j \in 1..Len(procs), rest[j].alive PROVE rest[j].quitting
        OBVIOUS
      <4>1. CASE j = child
        BY <3>2, <4>1
      <4>2. CASE j # child
        BY <1>0, <3>2, <4>2 DEF Touches, EngineInv, Engine!NoZombie, Engine!Up, Engine!Dispose
      <4> QED BY <4>1, <4>2
    <3> QED BY <3>3, <3>5, <3>6 DEF SameLife
  <2> QED BY <2>1, <2>2
<1>3. EngineTypes'
  BY <1>1, <1>2 DEF EngineInv, EngineTypes, Handlers
<1>4. WaitingOK'
  BY <1>1 DEF EngineInv, WaitingOK
<1>5. Engine!AnswerIsOfPosition'
  BY <1>1 DEF EngineInv, Engine!AnswerIsOfPosition, Engine!AnswerOf
<1>6. Engine!NoZombie'
  <2>1. DOMAIN procs' = 1..Len(procs')
    BY <1>2, LenProperties
  <2> QED BY <1>2, <2>1 DEF Engine!NoZombie, Engine!Up
<1>7. (handler.for = "nothing" <=> (child = 0 \/ current = 0))' /\ (disposed => child = 0)' /\ disposed'
  BY <1>1 DEF Engine!NoHandler
<1> QED BY <1>3, <1>4, <1>5, <1>6, <1>7 DEF EngineInv

LEMMA AnalyzeKeeps ==
  ASSUME EngineInv, NEW p \in 1..Positions, Engine!AnalyzePosition(p)
  PROVE  EngineInv'
<1>1. /\ evals[p] = Engine!Unasked /\ chain' = Append(chain, p) /\ evals' = [evals EXCEPT ![p] = Engine!Pending]
      /\ UNCHANGED <<current, handler, child, procs, disposed, worker, overtaken>>
  BY DEF Engine!AnalyzePosition
<1>2. /\ chain \in Seq(1..Positions) /\ Len(chain) \in Nat /\ current \in 0..Positions
      /\ evals \in [1..Positions -> Answers]
      /\ evals[p] # Engine!Pending /\ p # current /\ \A n \in 1..Len(chain) : chain[n] # p
  <2>1. Engine!Unasked # Engine!Pending
    BY DEF Engine!Unasked, Engine!Pending
  <2> QED BY <1>1, <2>1, LenProperties DEF EngineInv, EngineTypes, WaitingOK
<1>3. /\ chain' \in Seq(1..Positions) /\ Len(chain') = Len(chain) + 1
      /\ \A n \in 1..Len(chain) : chain'[n] = chain[n]
      /\ chain'[Len(chain) + 1] = p
  BY <1>1, <1>2, AppendProperties
<1>4. /\ evals' \in [1..Positions -> Answers] /\ evals'[p] = Engine!Pending
      /\ \A q \in 1..Positions : q # p => evals'[q] = evals[q]
  BY <1>1, <1>2 DEF Answers
<1>5. EngineTypes'
  BY <1>1, <1>3, <1>4 DEF EngineInv, EngineTypes
<1>6. \A n \in 1..Len(chain') : n \in 1..Len(chain) \/ n = Len(chain) + 1
  BY <1>2, <1>3
<1>7. WaitingOK'
  <2>1. \A q \in 1..Positions :
          evals'[q] = Engine!Pending <=> (q = current' \/ \E n \in 1..Len(chain') : chain'[n] = q)
    <3> TAKE q \in 1..Positions
    <3>1. CASE q = p
      <4>1. Len(chain) + 1 \in 1..Len(chain')
        BY <1>2, <1>3
      <4> QED BY <1>3, <1>4, <3>1, <4>1
    <3>2. CASE q # p
      <4>1. evals[q] = Engine!Pending <=> (q = current \/ \E n \in 1..Len(chain) : chain[n] = q)
        BY DEF EngineInv, WaitingOK
      <4>2. (\E n \in 1..Len(chain') : chain'[n] = q) <=> (\E n \in 1..Len(chain) : chain[n] = q)
        <5>1. \A n \in 1..Len(chain) : n \in 1..Len(chain')
          BY <1>2, <1>3
        <5> QED BY <1>3, <1>6, <3>2, <5>1
      <4> QED BY <1>1, <1>4, <3>2, <4>1, <4>2
    <3> QED BY <3>1, <3>2
  <2>2. \A m, n \in 1..Len(chain') : chain'[m] = chain'[n] => m = n
    <3>1. \A m, n \in 1..Len(chain) : chain[m] = chain[n] => m = n
      BY DEF EngineInv, WaitingOK
    <3> QED BY <1>2, <1>3, <1>6, <3>1
  <2>3. \A n \in 1..Len(chain') : chain'[n] # current'
    BY <1>1, <1>2, <1>3, <1>6 DEF EngineInv, WaitingOK
  <2> QED BY <2>1, <2>2, <2>3 DEF WaitingOK
<1>8. Engine!AnswerIsOfPosition'
  <2>1. Engine!Pending.answer # "found"
    BY DEF Engine!Pending
  <2> SUFFICES ASSUME overtaken' <= 1, NEW q \in 1..Positions PROVE Engine!AnswerOf(q)'
    BY DEF Engine!AnswerIsOfPosition
  <2>2. Engine!AnswerOf(q)
    BY <1>1 DEF EngineInv, Engine!AnswerIsOfPosition
  <2> QED BY <1>4, <2>1, <2>2 DEF Engine!AnswerOf
<1>9. Engine!NoZombie'
  BY <1>1 DEF EngineInv, Engine!NoZombie, Engine!Up
<1>10. (handler.for = "nothing" <=> (child = 0 \/ current = 0))' /\ (disposed => child = 0)'
  BY <1>1 DEF EngineInv
<1>11. (~disposed => \A j \in 1..Len(procs) : ~procs[j].quitting)'
  BY <1>1 DEF EngineInv
<1>12. (~disposed /\ worker = "up" /\ overtaken <= 1 => Dialogue(procs, child, current, handler, overtaken))'
  BY <1>1 DEF EngineInv
<1> QED BY <1>5, <1>7, <1>8, <1>9, <1>10, <1>11, <1>12 DEF EngineInv

\* The first of those who wait leaves the chain.
LEMMA HeadOfChain ==
  ASSUME EngineInv, chain # <<>>
  PROVE  /\ Head(chain) \in 1..Positions /\ Head(chain) \in 0..Positions /\ Head(chain) # 0
         /\ Tail(chain) \in Seq(1..Positions)
         /\ \A n \in 1..Len(Tail(chain)) : Tail(chain)[n] # Head(chain) /\ Tail(chain)[n] \in 1..Positions
         /\ \A m, n \in 1..Len(Tail(chain)) : Tail(chain)[m] = Tail(chain)[n] => m = n
         /\ \A q \in 1..Positions :
              (\E n \in 1..Len(chain) : chain[n] = q) <=> (q = Head(chain) \/ \E n \in 1..Len(Tail(chain)) : Tail(chain)[n] = q)
<1>1. chain \in Seq(1..Positions) /\ \A m, n \in 1..Len(chain) : chain[m] = chain[n] => m = n
  BY DEF EngineInv, EngineTypes, WaitingOK
<1>2. /\ Len(chain) \in Nat \ {0} /\ Head(chain) = chain[1] /\ Tail(chain) \in Seq(1..Positions)
      /\ Len(Tail(chain)) = Len(chain) - 1
      /\ \A n \in 1..Len(chain) - 1 : Tail(chain)[n] = chain[n + 1]
  BY <1>1, EmptySeq, HeadTailProperties, LenProperties
<1>3. Head(chain) \in 1..Positions /\ \A n \in 1..Len(chain) : chain[n] \in 1..Positions
  BY <1>1, <1>2, ElementOfSeq, HeadTailProperties
<1>4. \A n \in 1..Len(Tail(chain)) : n + 1 \in 1..Len(chain) /\ n + 1 # 1 /\ Tail(chain)[n] = chain[n + 1]
  BY <1>2
<1>5. 1 \in 1..Len(chain)
  BY <1>2
<1>6. \A n \in 1..Len(chain) : n = 1 \/ (n - 1 \in 1..Len(Tail(chain)) /\ chain[n] = Tail(chain)[n - 1])
  BY <1>2
<1>7. \A m, n \in 1..Len(Tail(chain)) : Tail(chain)[m] = Tail(chain)[n] => m = n
  <2> SUFFICES ASSUME NEW m \in 1..Len(Tail(chain)), NEW n \in 1..Len(Tail(chain)), Tail(chain)[m] = Tail(chain)[n]
               PROVE  m = n
    OBVIOUS
  <2>1. m + 1 = n + 1
    BY <1>1, <1>4
  <2>2. m \in Int /\ n \in Int
    OBVIOUS
  <2> QED BY <2>1, <2>2
<1>8. \A n \in 1..Len(Tail(chain)) : Tail(chain)[n] # Head(chain) /\ Tail(chain)[n] \in 1..Positions
  BY <1>1, <1>2, <1>3, <1>4, <1>5
<1>9. \A q \in 1..Positions :
        (\E n \in 1..Len(chain) : chain[n] = q) <=> (q = Head(chain) \/ \E n \in 1..Len(Tail(chain)) : Tail(chain)[n] = q)
  <2> TAKE q \in 1..Positions
  <2>1. (\E n \in 1..Len(chain) : chain[n] = q) => (q = Head(chain) \/ \E n \in 1..Len(Tail(chain)) : Tail(chain)[n] = q)
    BY <1>2, <1>6
  <2>2. q = Head(chain) => \E n \in 1..Len(chain) : chain[n] = q
    BY <1>2, <1>5
  <2>3. (\E n \in 1..Len(Tail(chain)) : Tail(chain)[n] = q) => \E n \in 1..Len(chain) : chain[n] = q
    BY <1>4
  <2> QED BY <2>1, <2>2, <2>3
<1>10. Head(chain) \in 0..Positions /\ Head(chain) # 0
  BY <1>3, EngineAssumption
<1> QED BY <1>2, <1>3, <1>7, <1>8, <1>9, <1>10

\* A position is begun, or fails at once.
LEMMA BegunIsWaitedFor ==
  ASSUME EngineInv, chain # <<>>, current = 0, chain' = Tail(chain),
         \/ current' = Head(chain) /\ evals' = evals
         \/ current' = 0 /\ evals' = [evals EXCEPT ![Head(chain)] = Engine!Failed]
  PROVE  /\ chain' \in Seq(1..Positions) /\ current' \in 0..Positions
         /\ evals' \in [1..Positions -> Answers] /\ WaitingOK'
         /\ \A q \in 1..Positions : evals'[q] = evals[q] \/ evals'[q] = Engine!Failed
<1>0. evals \in [1..Positions -> Answers]
  BY DEF EngineInv, EngineTypes
<1>1. \A q \in 1..Positions :
        evals[q] = Engine!Pending <=> (q = Head(chain) \/ \E n \in 1..Len(Tail(chain)) : Tail(chain)[n] = q)
  <2>1. \A q \in 1..Positions : q # 0
    OBVIOUS
  <2>2. \A q \in 1..Positions : evals[q] = Engine!Pending <=> (q = 0 \/ \E n \in 1..Len(chain) : chain[n] = q)
    BY DEF EngineInv, WaitingOK
  <2> QED BY <2>1, <2>2, HeadOfChain
<1>2. (\A m, n \in 1..Len(chain) : chain[m] = chain[n] => m = n)'
  BY HeadOfChain
<1>3. CASE current' = Head(chain) /\ evals' = evals
  <2>1. \A q \in 1..Positions :
          evals'[q] = Engine!Pending <=> (q = current' \/ \E n \in 1..Len(chain') : chain'[n] = q)
    BY <1>1, <1>3
  <2>2. \A n \in 1..Len(chain') : chain'[n] # current'
    BY <1>3, HeadOfChain
  <2>3. WaitingOK'
    BY <1>2, <2>1, <2>2 DEF WaitingOK
  <2> QED BY <1>0, <1>3, <2>3, HeadOfChain
<1>4. CASE current' = 0 /\ evals' = [evals EXCEPT ![Head(chain)] = Engine!Failed]
  <2>0. Engine!Failed \in Answers /\ Engine!Failed # Engine!Pending
    BY DEF Answers, Engine!Failed, Engine!Pending
  <2>1. /\ evals' \in [1..Positions -> Answers] /\ evals'[Head(chain)] = Engine!Failed
        /\ \A q \in 1..Positions : q # Head(chain) => evals'[q] = evals[q]
    BY <1>0, <1>4, <2>0, HeadOfChain
  <2>2. \A n \in 1..Len(chain') : chain'[n] # current'
    <3>1. \A n \in 1..Len(chain') : chain'[n] \in 1..Positions
      BY HeadOfChain
    <3> QED BY <1>4, <3>1
  <2>3. \A q \in 1..Positions :
          evals'[q] = Engine!Pending <=> (q = current' \/ \E n \in 1..Len(chain') : chain'[n] = q)
    <3> TAKE q \in 1..Positions
    <3>1. CASE q = Head(chain)
      BY <1>4, <2>0, <2>1, <3>1, HeadOfChain
    <3>2. CASE q # Head(chain)
      BY <1>1, <1>4, <2>1, <3>2
    <3> QED BY <3>1, <3>2
  <2>4. WaitingOK'
    BY <1>2, <2>2, <2>3 DEF WaitingOK
  <2> QED BY <1>4, <2>1, <2>4, EngineAssumption, HeadOfChain
<1> QED BY <1>3, <1>4

\* The adapter takes up a position: the pipes and the process are as they should be.
LEMMA AdapterBegins ==
  ASSUME EngineInv, chain # <<>>, current = 0, chain' = Tail(chain),
         \/ current' = Head(chain) /\ evals' = evals /\ child' # 0 /\ handler'.for # "nothing"
         \/ current' = 0 /\ evals' = [evals EXCEPT ![Head(chain)] = Engine!Failed] /\ handler'.for = "nothing",
         handler' \in Handlers, child' \in {0, Len(procs')}, procs' \in Seq(EngineRows),
         worker' \in {worker, "dead"}, UNCHANGED <<disposed, overtaken>>, disposed => child' = 0,
         worker' = "up" => \A j \in 1..Len(procs') : procs'[j].alive => j = child' \/ procs'[j].quitting,
         ~disposed => \A j \in 1..Len(procs') : ~procs'[j].quitting,
         ~disposed /\ worker' = "up" /\ overtaken <= 1 => Dialogue(procs', child', current', handler', overtaken)
  PROVE  EngineInv'
<1>1. /\ chain' \in Seq(1..Positions) /\ current' \in 0..Positions
      /\ evals' \in [1..Positions -> Answers] /\ WaitingOK'
      /\ \A q \in 1..Positions : evals'[q] = evals[q] \/ evals'[q] = Engine!Failed
  BY BegunIsWaitedFor
<1>2. EngineTypes'
  BY <1>1 DEF EngineInv, EngineTypes
<1>3. Engine!AnswerIsOfPosition'
  <2>1. Engine!Failed.answer # "found"
    BY DEF Engine!Failed
  <2> SUFFICES ASSUME overtaken' <= 1, NEW q \in 1..Positions PROVE Engine!AnswerOf(q)'
    BY DEF Engine!AnswerIsOfPosition
  <2>2. Engine!AnswerOf(q)
    BY DEF EngineInv, Engine!AnswerIsOfPosition
  <2> QED BY <1>1, <2>1, <2>2 DEF Engine!AnswerOf
<1>4. Engine!NoZombie'
  <2>1. DOMAIN procs' = 1..Len(procs')
    BY LenProperties
  <2> QED BY <2>1 DEF Engine!NoZombie, Engine!Up
<1>5. (handler.for = "nothing" <=> (child = 0 \/ current = 0))'
  BY HeadOfChain
<1>6. (disposed => child = 0)' /\ (~disposed => \A j \in 1..Len(procs) : ~procs[j].quitting)'
  OBVIOUS
<1>7. (~disposed /\ worker = "up" /\ overtaken <= 1 => Dialogue(procs, child, current, handler, overtaken))'
  OBVIOUS
<1> QED BY <1>1, <1>2, <1>3, <1>4, <1>5, <1>6, <1>7 DEF EngineInv

\* A new process, after one whose words may still come.
LEMMA DialogueOpens ==
  ASSUME NEW all \in Seq(EngineRows), NEW p \in 0..Positions, NEW t \in Nat, t <= 1, Rests(all, 0, 0, t),
         NEW row \in EngineRows, row.stdin = <<uci>>, row.stdout = <<>>
  PROVE  ShakesHands(Append(all, row), Len(all) + 1, t)
<1> DEFINE more == Append(all, row)
<1>1. /\ Len(more) = Len(all) + 1 /\ Len(all) \in Nat /\ more[Len(all) + 1] = row
      /\ \A i \in 1..Len(all) : more[i] = all[i]
  BY AppendProperties, LenProperties
<1>2. \A i \in 1..Len(more) : i # Len(all) + 1 => i \in 1..Len(all) /\ i # 0
  BY <1>1
<1> HIDE DEF more
<1>3. NothingLate(all, 0) => NothingLate(more, Len(all) + 1)
  BY <1>1, <1>2 DEF NothingLate
<1>4. OneIsLate(all, 0) => OneIsLate(more, Len(all) + 1)
  BY <1>1, <1>2 DEF OneIsLate
<1>5. OwesOne(row.stdout, row.stdin) /\ OwesFirst(row.stdout, row.stdin)
  BY DEF OwesOne, OwesFirst, Stand
<1>6. t = 0 \/ t = 1
  OBVIOUS
<1>7. ShakesHands(more, Len(all) + 1, t)
  BY <1>1, <1>3, <1>4, <1>5, <1>6 DEF Rests, ShakesHands
<1> QED BY <1>7 DEF more

LEMMA BeginKeeps == ASSUME EngineInv, Engine!Begin PROVE EngineInv'
<1>0. /\ procs \in Seq(EngineRows) /\ current \in 0..Positions /\ handler \in Handlers /\ overtaken \in Nat
      /\ child \in {0, Len(procs)} /\ Len(procs) \in Nat /\ child \in 0..Len(procs)
      /\ DOMAIN procs = 1..Len(procs) /\ (child # 0 => child \in 1..Len(procs))
  BY EngineShape
<1>1. /\ worker = "up" /\ current = 0 /\ chain # <<>> /\ chain' = Tail(chain) /\ UNCHANGED <<disposed, overtaken>>
  BY DEF Engine!Begin, Engine!None, Engine!Up
<1>2. CASE disposed
  <2>1. evals' = [evals EXCEPT ![Head(chain)] = Engine!Failed] /\ UNCHANGED <<current, handler, child, procs, worker>>
    BY <1>2 DEF Engine!Begin
  <2>2. handler.for = "nothing" /\ child = 0
    BY <1>1, <1>2 DEF EngineInv
  <2>3. \A j \in 1..Len(procs) : procs[j].alive => j = child \/ procs[j].quitting
    BY <1>0, <1>1, Zenon DEF EngineInv, Engine!NoZombie, Engine!Up
  <2> QED BY <1>0, <1>1, <1>2, <2>1, <2>2, <2>3, AdapterBegins
<1>3. CASE ~disposed /\ child = 0
  <2> DEFINE row == Engine!Spawned
  <2>1. /\ current' = Head(chain) /\ procs' = Append(procs, row) /\ child' = Len(procs')
        /\ handler' = Engine!Handshake /\ UNCHANGED <<evals, worker>>
    BY <1>3 DEF Engine!Begin, Engine!None
  <2>2. row \in EngineRows /\ row.stdin = <<uci>> /\ row.stdout = <<>> /\ ~row.quitting
    <3>1. <<uci>> \in Seq(EngineCommands) /\ <<>> \in Seq(EngineLines)
      BY CommandsAndLines
    <3> QED BY <3>1 DEF Engine!Spawned, EngineRows, uci, Engine!None
  <2> HIDE DEF row
  <2>3. /\ procs' \in Seq(EngineRows) /\ Len(procs') = Len(procs) + 1 /\ child' = Len(procs) + 1 /\ child' # 0
        /\ procs'[Len(procs) + 1] = row /\ \A j \in 1..Len(procs) : procs'[j] = procs[j]
    <3>1. procs \in Seq(EngineRows) /\ Len(procs) \in Nat /\ procs' = Append(procs, row) /\ child' = Len(procs')
      BY <1>0, <2>1, Zenon
    <3>2. /\ procs' \in Seq(EngineRows) /\ Len(procs') = Len(procs) + 1
          /\ procs'[Len(procs) + 1] = row /\ \A j \in 1..Len(procs) : procs'[j] = procs[j]
      BY <2>2, <3>1, AppendProperties
    <3> QED BY <3>1, <3>2
  <2>4. \A j \in 1..Len(procs') : j \in 1..Len(procs) \/ j = child'
    <3>1. Len(procs) \in Nat /\ Len(procs') = Len(procs) + 1 /\ child' = Len(procs) + 1
      BY <1>0, <2>3, Zenon
    <3> QED BY <3>1
  <2>5. \A j \in 1..Len(procs) : ~procs[j].quitting /\ (procs[j].alive => j = child \/ procs[j].quitting)
    BY <1>0, <1>1, <1>3 DEF EngineInv, Engine!NoZombie, Engine!Up
  <2>6. \A j \in 1..Len(procs) : j # 0
    OBVIOUS
  <2>7. \A j \in 1..Len(procs') : ~procs'[j].quitting /\ (procs'[j].alive => j = child')
    BY <1>3, <2>2, <2>3, <2>4, <2>5, <2>6
  <2>8. handler' \in Handlers /\ handler'.for = "handshake"
    BY <2>1 DEF Handlers, Engine!Handshake
  <2>9. overtaken <= 1 => Dialogue(procs', child', current', handler', overtaken)
    <3> SUFFICES ASSUME overtaken <= 1 PROVE Dialogue(procs', child', current', handler', overtaken)
      OBVIOUS
    <3>1. handler.for = "nothing" /\ Dialogue(procs, child, current, handler, overtaken)
      BY <1>1, <1>3 DEF EngineInv
    <3>2. Rests(procs, 0, 0, overtaken)
      BY <1>1, <1>3, <3>1 DEF Dialogue
    <3>3. ShakesHands(procs', child', overtaken)
      BY <1>0, <2>1, <2>2, <2>3, <3>2, DialogueOpens, Zenon
    <3> QED BY <2>8, <3>3 DEF Dialogue
  <2>10. worker' \in {worker, "dead"} /\ evals' = evals
    BY <2>1
  <2> QED BY <1>1, <1>3, <2>1, <2>3, <2>7, <2>8, <2>9, <2>10, AdapterBegins
<1>4. CASE ~disposed /\ child # 0
  <2> DEFINE p == Head(chain)
  <2>1. /\ current' = p /\ handler' = Engine!Search /\ Engine!Write(procs, <<go(p)>>) /\ UNCHANGED <<evals, child>>
    BY <1>4 DEF Engine!Begin, Engine!None, Engine!GoCommands, go
  <2>2. p \in 1..Positions /\ p \in 0..Positions /\ go(p) \in EngineCommands
    BY <1>1, HeadOfChain, CommandsAndLines
  <2> HIDE DEF p
  <2>3. Tells(procs, go(p)) /\ child \in 1..Len(procs)
    BY <1>0, <1>4, <2>1, WriteTells, Zenon
  <2>4. /\ procs' \in Seq(EngineRows) /\ Len(procs') = Len(procs) /\ worker' \in {worker, "dead"}
        /\ \A j \in 1..Len(procs) : SameLife(procs[j], procs'[j])
        /\ worker' = "up" => procs' = Told(procs, child, go(p))
    BY <1>0, <2>2, <2>3, TellsKeepsLife, Zenon
  <2>5. \A j \in 1..Len(procs) : ~procs[j].quitting /\ (procs[j].alive => j = child \/ procs[j].quitting)
    BY <1>0, <1>1, <1>4, Zenon DEF EngineInv, Engine!NoZombie, Engine!Up
  <2>6. \A j \in 1..Len(procs') : ~procs'[j].quitting /\ (procs'[j].alive => j = child')
    BY <2>1, <2>4, <2>5 DEF SameLife
  <2>7. handler' \in Handlers /\ handler'.for = "search" /\ handler'.info = 0
    BY <2>1, EngineAssumption DEF Engine!Search, Handlers, Engine!None
  <2>8. overtaken <= 1 /\ worker' = "up" => Dialogue(procs', child, current', handler', overtaken)
    <3> SUFFICES ASSUME overtaken <= 1, worker' = "up" PROVE Dialogue(procs', child, p, handler', overtaken)
      BY <2>1
    <3>1. handler.for = "nothing" /\ Dialogue(procs, child, current, handler, overtaken)
      BY <1>1, <1>4 DEF EngineInv
    <3>2. NothingLate(procs, child) /\ procs[child].stdout = <<>> /\ procs[child].stdin = <<>>
      BY <1>4, <3>1 DEF Dialogue, Rests
    <3>3. /\ Touches(procs, procs', child) /\ procs'[child].stdin = procs[child].stdin \o <<go(p)>>
          /\ procs'[child].stdout = procs[child].stdout
      BY <1>0, <2>2, <2>3, <2>4, ToldRow, Zenon
    <3>4. NothingLate(procs', child)
      BY <1>0, <2>3, <3>2, <3>3, LateSame
    <3>5. procs'[child].stdin = <<go(p)>> /\ procs'[child].stdout = <<>>
      BY <3>2, <3>3, JoinOfNone
    <3>6. Searches(procs', child, p, overtaken)
      BY <3>4, <3>5 DEF Searches, OwesVerdict, Stand
    <3> QED BY <2>7, <3>6 DEF Dialogue
  <2>9. child' = child /\ child' # 0 /\ evals' = evals /\ child' \in {0, Len(procs')}
    BY <1>0, <1>4, <2>1, <2>4, Zenon
  <2>10. current' = Head(chain)
    BY <2>1 DEF p
  <2> QED BY <1>1, <1>4, <2>4, <2>6, <2>7, <2>8, <2>9, <2>10, AdapterBegins
<1> QED BY <1>2, <1>3, <1>4

LEMMA EngineStarts == ASSUME Engine!Init PROVE EngineInv
<1>1. /\ chain = <<>> /\ current = 0 /\ handler = Engine!NoHandler /\ child = 0 /\ procs = <<>>
      /\ evals = [p \in 1..Positions |-> Engine!Unasked]
      /\ disposed = FALSE /\ worker = "up" /\ overtaken = 0
  BY DEF Engine!Init, Engine!None
<1>2. Len(chain) = 0 /\ Len(procs) = 0 /\ chain \in Seq(1..Positions) /\ procs \in Seq(EngineRows) /\ DOMAIN procs = {}
  BY <1>1
<1>3. \A p \in 1..Positions : evals[p] = Engine!Unasked
  BY <1>1
<1>4. EngineTypes
  <2>1. Engine!Unasked \in Answers
    BY DEF Answers
  <2>2. evals \in [1..Positions -> Answers]
    BY <1>1, <2>1
  <2>3. handler \in Handlers /\ current \in 0..Positions /\ child \in {0, Len(procs)}
    BY <1>1, EngineAssumption DEF Handlers
  <2>4. disposed \in BOOLEAN /\ worker \in {"up", "dead"} /\ overtaken \in Nat
    BY <1>1
  <2> QED BY <1>2, <2>2, <2>3, <2>4 DEF EngineTypes
<1>5. WaitingOK
  <2>1. Engine!Unasked # Engine!Pending
    BY DEF Engine!Unasked, Engine!Pending
  <2>2. \A n \in 1..Len(chain) : FALSE
    BY <1>2
  <2>3. \A p \in 1..Positions : p # current
    BY <1>1
  <2> QED BY <1>3, <2>1, <2>2, <2>3 DEF WaitingOK
<1>6. Engine!AnswerIsOfPosition
  BY <1>3 DEF Engine!AnswerIsOfPosition, Engine!AnswerOf, Engine!Unasked
<1>7. Engine!NoZombie
  BY <1>2 DEF Engine!NoZombie
<1>8. \A i \in 1..Len(procs) : FALSE
  BY <1>2
<1>9. Dialogue(procs, child, current, handler, overtaken)
  BY <1>1, <1>8 DEF Dialogue, Rests, NothingLate, Engine!NoHandler
<1> QED BY <1>1, <1>4, <1>5, <1>6, <1>7, <1>8, <1>9 DEF EngineInv, Engine!NoHandler

LEMMA EngineStep == ASSUME EngineInv, Engine!Next PROVE EngineInv'
<1>1. CASE \E p \in 1..Positions : Engine!AnalyzePosition(p)
  BY <1>1, AnalyzeKeeps
<1>2. CASE Engine!Begin
  BY <1>2, BeginKeeps
<1>3. CASE Engine!Timeout
  BY <1>3, TimeoutKeeps
<1>4. CASE Engine!SpawnError
  BY <1>4, SpawnErrorKeeps
<1>5. CASE Engine!Dispose
  BY <1>5, DisposeKeeps
<1>6. CASE \E i \in DOMAIN procs : Engine!ReadLine(i) \/ Engine!Exit(i) \/ Engine!GraceOver(i) \/ Engine!Speak(i) \/ Engine!Think(i) \/ Engine!Die(i)
  <2>1. PICK i \in 1..Len(procs) :
          Engine!ReadLine(i) \/ Engine!Exit(i) \/ Engine!GraceOver(i) \/ Engine!Speak(i) \/ Engine!Think(i) \/ Engine!Die(i)
    BY <1>6, DomainOfProcs
  <2> QED BY <2>1, ReadKeeps, ExitKeeps, DeathKeeps, SpeakKeeps, ThinkKeeps
<1> QED BY <1>1, <1>2, <1>3, <1>4, <1>5, <1>6 DEF Engine!Next

LEMMA EngineStutters == ASSUME EngineInv, UNCHANGED engine PROVE EngineInv'
<1>1. UNCHANGED <<chain, current, handler, child, procs, evals, disposed, worker, overtaken>>
  BY DEF engine
<1> QED BY <1>1 DEF EngineInv, EngineTypes, WaitingOK, Engine!AnswerIsOfPosition, Engine!AnswerOf,
        Engine!NoZombie, Engine!Up

LEMMA EngineIsSound ==
  ASSUME EngineInv
  PROVE  Engine!TypeOK /\ Engine!AnswerIsOfPosition /\ Engine!NoZombie
<1>1. child \in 0..Len(procs) /\ current \in 0..Positions
  BY EngineShape
<1>2. handler.for \in {"nothing", "handshake", "search"}
  BY EngineShape DEF Handlers, Engine!NoHandler, Engine!Handshake
<1>3. current # 0 <=> \E p \in 1..Positions : evals[p] = Engine!Pending /\ \A n \in DOMAIN chain : chain[n] # p
  <2>1. DOMAIN chain = 1..Len(chain)
    BY LenProperties DEF EngineInv, EngineTypes
  <2>2. \A p \in 1..Positions : evals[p] = Engine!Pending <=> (p = current \/ \E n \in 1..Len(chain) : chain[n] = p)
    BY DEF EngineInv, WaitingOK
  <2>3. \A n \in 1..Len(chain) : chain[n] # current
    BY DEF EngineInv, WaitingOK
  <2>4. \A p \in 1..Positions : p # 0
    OBVIOUS
  <2>5. current # 0 => current \in 1..Positions
    BY <1>1, EngineAssumption
  <2> QED BY <2>1, <2>2, <2>3, <2>4, <2>5
<1> QED BY <1>1, <1>2, <1>3 DEF EngineInv, Engine!TypeOK, Engine!None

EngineScene == focus = "engine" => EngineInv

\* The evaluation an analysis stores is of the position it was asked for, whatever
\* lines an earlier search or process still sends, and no process is left behind
\* that nobody will kill (UciEngine: analyse, onLine, abort, dispose).
THEOREM EveryAnswerIsTrue == MCSpec => []AnswersAreTrue
<1>1. MCInit => EngineScene
  BY EngineStarts DEF MCInit, GameInit, EngineScene
<1>2. EngineScene /\ [MCNext]_everything => EngineScene'
  <2> SUFFICES ASSUME EngineScene, [MCNext]_everything, focus' = "engine" PROVE EngineInv'
    BY DEF EngineScene
  <2>1. focus = focus'
    BY DEF MCNext, GameNext, EngineNext, NoticesNext, everything
  <2>2. EngineInv
    BY <2>1 DEF EngineScene
  <2>3. CASE GameNext \/ NoticesNext
    BY <2>1, <2>3 DEF GameNext, NoticesNext
  <2>4. CASE EngineNext
    BY <2>2, <2>4, EngineStep DEF EngineNext
  <2>5. CASE UNCHANGED everything
    BY <2>2, <2>5, EngineStutters DEF everything
  <2> QED BY <2>3, <2>4, <2>5 DEF MCNext
<1>3. EngineScene => AnswersAreTrue
  BY EngineIsSound DEF EngineScene, AnswersAreTrue
<1> QED BY <1>1, <1>2, <1>3, PTL DEF MCSpec, everything

\* The clock of every scene is the one the theorems above speak of: it runs in the
\* scene that is about it (applyMove, isFlagged) and stands still in the others.
THEOREM TheClockRunsAlone == MCSpec => Spec
<1>1. MCInit => Init
  BY DEF MCInit, GameInit, NoGame, ClockStands
<1>2. [MCNext]_everything => [Next]_vars
  BY DEF MCNext, GameNext, EngineNext, NoticesNext, clock, everything
<1> QED BY <1>1, <1>2, PTL DEF MCSpec, Spec, everything

-----------------------------------------------------------------------------
(* Fair play.  A slot that stopped at an await holds on to what it has     *)
(* read; the invariant says what of it is still true.                      *)

ClueTypes == (UNION Findings) \cup {"MANUAL_REPORT"}
Clues == [type : ClueTypes, game : Examined, reporter : Reporters \cup {Null}]
ClueRows == [case : Nat, type : ClueTypes, game : Examined, reporter : Reporters \cup {Null}]
CaseStates == {"OPEN", "APPEALED", "CLOSED_CLEARED", "CLOSED_WARNING", "CLOSED_SANCTION"}
CaseRows == [player : Suspects, status : CaseStates, counted : SUBSET Clues,
             reviewedBy : Commission \cup {Null}, sanction : BOOLEAN]
AppealRows == [case : Nat, status : {"SUBMITTED", "UPHELD", "REJECTED"},
               reviewedBy : Commission \cup {Null}]
CaseLocals == [job : FairPlay!JobIds \cup {Null}, todo : SUBSET Suspects, player : Suspects \cup {Null},
               signals : SUBSET Clues, found : Nat, old : SUBSET Clues, case : Nat,
               by : Commission \cup {Null}]

CaseTypes ==
  /\ cases \in Seq(CaseRows) /\ signals \in SUBSET ClueRows /\ appeals \in Seq(AppealRows)
  /\ jobs \in [FairPlay!JobIds -> {"none", "waiting", "active", "kept"}]
  /\ pc \in [Desks -> {"idle", "record", "write", "enqueue", "analyze", "appeal", "decide"}]
  /\ loc \in [Desks -> CaseLocals]
  /\ both \in BOOLEAN
  /\ \A x \in signals : x.case \in 1..Len(cases)
  /\ \A a \in 1..Len(appeals) : appeals[a].case \in 1..Len(cases)

\* A job that is being worked on is in the hands of one process.
JobsHeld ==
  /\ \A id \in FairPlay!JobIds : jobs[id] = "active" <=> \E s \in Desks : loc[s].job = id
  /\ \A s, t \in Desks : loc[s].job = loc[t].job /\ loc[s].job # Null => s = t

\* What a request or a process may rely on at each await.
DeskKnows(s) ==
  /\ pc[s] \in {"idle", "enqueue", "appeal", "decide"} => loc[s].job = Null
  /\ pc[s] = "analyze" => loc[s].job # Null
  /\ pc[s] \in {"record", "write"} => loc[s].player # Null
  /\ pc[s] = "write" => loc[s].found \in 0..Len(cases)
  /\ pc[s] = "appeal" => loc[s].case \in 1..Len(cases) /\ cases[loc[s].case].status # "OPEN"
  /\ pc[s] = "decide" =>
       /\ loc[s].case \in 1..Len(appeals) /\ loc[s].by # Null
       /\ loc[s].by # cases[appeals[loc[s].case].case].reviewedBy

\* Only what was decided is appealed against.
CasesJudged ==
  /\ \A c \in 1..Len(cases) :
       /\ cases[c].sanction <=> cases[c].status = "CLOSED_SANCTION"
       /\ cases[c].status = "OPEN" <=> cases[c].reviewedBy = Null
       /\ cases[c].status = "APPEALED" <=> \E a \in 1..Len(appeals) : appeals[a].case = c /\ appeals[a].status = "UPHELD"
  /\ \A a \in 1..Len(appeals) :
       /\ cases[appeals[a].case].status # "OPEN"
       /\ appeals[a].status # "SUBMITTED" =>
            appeals[a].reviewedBy # Null /\ appeals[a].reviewedBy # cases[appeals[a].case].reviewedBy

OneOpenCase ==
  /\ \A c, d \in 1..Len(cases) :
       cases[c].player = cases[d].player /\ cases[c].status = "OPEN" /\ cases[d].status = "OPEN" => c = d
  /\ both => Len(cases) <= 1

\* One process at a time: it finds the signals of the case as it read them, and no
\* other case has been opened for the player.
ScoresWhole ==
  ~both =>
    /\ \A s, t \in Desks : pc[s] # "idle" /\ pc[t] # "idle" => s = t
    /\ \A c \in 1..Len(cases) : cases[c].counted = FairPlay!SignalsOf(c)
    /\ \A s \in Desks : pc[s] = "write" =>
         /\ loc[s].old = FairPlay!SignalsOf(loc[s].found)
         /\ loc[s].found = 0 =>
              \A c \in 1..Len(cases) : cases[c].player = loc[s].player => cases[c].status # "OPEN"

CasesInv ==
  CaseTypes /\ JobsHeld /\ (\A s \in Desks : DeskKnows(s)) /\ CasesJudged /\ OneOpenCase /\ ScoresWhole

LEMMA CasesTypes ==
  ASSUME CaseTypes
  PROVE  /\ Len(cases) \in Nat /\ Len(appeals) \in Nat
         /\ DOMAIN cases = 1..Len(cases) /\ DOMAIN appeals = 1..Len(appeals)
         /\ \A c \in 1..Len(cases) : cases[c] \in CaseRows
         /\ \A a \in 1..Len(appeals) : appeals[a] \in AppealRows
         /\ \A s \in Desks : loc[s] \in CaseLocals
  BY LenProperties, ElementOfSeq DEF CaseTypes

\* What a slot that has nothing in hand looks like, and a request that begins.
LEMMA BlankLocals ==
  /\ FairPlay!Blank \in CaseLocals /\ FairPlay!Blank.job = Null
  BY DEF FairPlay!Blank, CaseLocals

\* The newest open case of a player is one of them, or 0 if he has none.
LEMMA NewestIsOpen ==
  ASSUME CaseTypes, OneOpenCase, NEW p \in Suspects
  PROVE  /\ FairPlay!NewestOpen(p) \in 0..Len(cases)
         /\ FairPlay!NewestOpen(p) = 0 =>
              \A c \in 1..Len(cases) : cases[c].player = p => cases[c].status # "OPEN"
<1> DEFINE S == FairPlay!OpenCases(p)
<1>1. /\ Len(cases) \in Nat /\ DOMAIN cases = 1..Len(cases)
      /\ \A c \in 1..Len(cases) : cases[c] \in CaseRows
  BY CasesTypes
<1>2. \A c : c \in S <=> c \in 1..Len(cases) /\ cases[c].player = p /\ cases[c].status = "OPEN"
  BY <1>1 DEF FairPlay!OpenCases, FairPlay!Undecided, CaseRows, CaseStates
<1>3. FairPlay!NewestOpen(p) = CHOOSE x \in S \cup {0} : \A y \in S \cup {0} : x >= y
  BY DEF FairPlay!NewestOpen, FairPlay!Max
<1>4. CASE S = {}
  <2>1. FairPlay!NewestOpen(p) = 0
    BY <1>3, <1>4
  <2> QED BY <2>1, <1>1, <1>2, <1>4
<1>5. CASE S # {}
  <2>1. PICK c \in S : TRUE
    BY <1>5
  <2>2. S = {c} /\ c \in 1..Len(cases)
    BY <2>1, <1>2 DEF OneOpenCase
  <2>3. \E x \in {c, 0} : \A y \in {c, 0} : x >= y
    BY <2>2, <1>1
  <2>4. FairPlay!NewestOpen(p) \in {c, 0} /\ \A y \in {c, 0} : FairPlay!NewestOpen(p) >= y
    BY <2>2, <2>3, <1>3
  <2>5. FairPlay!NewestOpen(p) = c
    BY <2>4, <2>2, <1>1
  <2> QED BY <2>5, <2>2, <1>1
<1> QED BY <1>4, <1>5

CaseTables == <<cases, signals, appeals>>
CaseLabels == {"idle", "record", "write", "enqueue", "analyze", "appeal", "decide"}

\* What its label asks of the locals of a slot that went on by itself.
ScoreKnown(l) ==
  /\ l.old = FairPlay!SignalsOf(l.found)
  /\ l.found = 0 => \A c \in 1..Len(cases) : cases[c].player = l.player => cases[c].status # "OPEN"

LEMMA SlotMoves ==
  ASSUME CaseTypes, NEW d \in Desks, NEW label \in CaseLabels, NEW l \in CaseLocals, FairPlay!Goto(d, label, l)
  PROVE  /\ pc' \in [Desks -> CaseLabels] /\ loc' \in [Desks -> CaseLocals]
         /\ pc'[d] = label /\ loc'[d] = l
         /\ \A t \in Desks \ {d} : pc'[t] = pc[t] /\ loc'[t] = loc[t]
  BY DEF FairPlay!Goto, CaseTypes, CaseLabels

\* A slot goes on with the job it has; the tables stay.
LEMMA SlotGoesOn ==
  ASSUME CasesInv, NEW d \in Desks, NEW label \in CaseLabels, NEW l \in CaseLocals, FairPlay!Goto(d, label, l),
         UNCHANGED <<cases, signals, appeals, both>>, ~both => Alone(d),
         jobs' \in [FairPlay!JobIds -> {"none", "waiting", "active", "kept"}], JobsHeld', DeskKnows(d)',
         label = "write" => ScoreKnown(l)
  PROVE  CasesInv'
<1>1. /\ pc' \in [Desks -> CaseLabels] /\ loc' \in [Desks -> CaseLocals]
      /\ pc'[d] = label /\ loc'[d] = l
      /\ \A t \in Desks \ {d} : pc'[t] = pc[t] /\ loc'[t] = loc[t]
  BY SlotMoves DEF CasesInv
<1>2. CaseTypes'
  BY <1>1 DEF CasesInv, CaseTypes, CaseLabels
<1>3. \A s \in Desks : DeskKnows(s)'
  <2> SUFFICES ASSUME NEW s \in Desks, s # d PROVE DeskKnows(s)'
    OBVIOUS
  <2> QED BY <1>1 DEF CasesInv, DeskKnows
<1>4. CasesJudged'
  BY DEF CasesInv, CasesJudged
<1>5. OneOpenCase'
  BY DEF CasesInv, OneOpenCase
<1>6. ScoresWhole'
  <2> SUFFICES ASSUME ~both PROVE ScoresWhole'
    BY DEF ScoresWhole
  <2>1. \A t \in Desks \ {d} : pc'[t] = "idle"
    BY <1>1 DEF Alone
  <2>2. \A c : FairPlay!SignalsOf(c)' = FairPlay!SignalsOf(c)
    BY DEF FairPlay!SignalsOf
  <2>3. \A c \in 1..Len(cases) : cases[c].counted = FairPlay!SignalsOf(c)
    BY DEF CasesInv, ScoresWhole
  <2>4. \A s, t \in Desks : pc'[s] # "idle" /\ pc'[t] # "idle" => s = t
    BY <2>1
  <2>5. \A s \in Desks : pc'[s] = "write" => s = d
    BY <2>1
  <2>6. pc'[d] = "write" => ScoreKnown(loc'[d])
    BY <1>1
  <2> QED BY <2>2, <2>3, <2>4, <2>5, <2>6 DEF ScoresWhole, ScoreKnown
<1> QED BY <1>2, <1>3, <1>4, <1>5, <1>6 DEF CasesInv

\* The jobs stay, and so does the one in its hands.
LEMMA JobStays ==
  ASSUME CasesInv, NEW d \in Desks, NEW label \in CaseLabels, NEW l \in CaseLocals, FairPlay!Goto(d, label, l),
         UNCHANGED jobs, l.job = loc[d].job
  PROVE  JobsHeld' /\ jobs' \in [FairPlay!JobIds -> {"none", "waiting", "active", "kept"}]
<1>1. \A t \in Desks : loc'[t].job = loc[t].job
  BY SlotMoves DEF CasesInv
<1>2. JobsHeld'
  BY <1>1 DEF CasesInv, JobsHeld
<1> QED BY <1>2 DEF CasesInv, CaseTypes

LEMMA AnyReply ==
  ASSUME NEW d, FairPlay!Reply(d)
  PROVE  FairPlay!Goto(d, "idle", FairPlay!Blank)
  BY DEF FairPlay!Reply

LEMMA ReportStep ==
  ASSUME CasesInv, NEW d \in Desks, ~both => Alone(d), UNCHANGED both, FairPlay!SubmitReport(d)
  PROVE  CasesInv'
<1>1. PICK g \in Examined, p \in Suspects, r \in Reporters :
        FairPlay!Goto(d, "record", [FairPlay!Blank EXCEPT !.player = p,
                                      !.signals = {FairPlay!Evidence("MANUAL_REPORT", g, r)}])
  BY DEF FairPlay!SubmitReport
<1> DEFINE l == [FairPlay!Blank EXCEPT !.player = p, !.signals = {FairPlay!Evidence("MANUAL_REPORT", g, r)}]
<1>2. FairPlay!Evidence("MANUAL_REPORT", g, r) \in Clues
  <2>1. "MANUAL_REPORT" \in ClueTypes
    BY DEF ClueTypes
  <2> QED BY <2>1 DEF FairPlay!Evidence, Clues
<1>3. l \in CaseLocals /\ l.job = Null /\ l.player = p
  BY <1>2 DEF FairPlay!Blank, CaseLocals
<1>4. pc[d] = "idle" /\ UNCHANGED <<cases, signals, appeals, jobs>>
  BY DEF FairPlay!SubmitReport, FairPlay!tables
<1>5. loc[d].job = Null
  BY <1>4 DEF CasesInv, DeskKnows
<1>6. "record" \in CaseLabels
  BY DEF CaseLabels
<1>7. CaseTypes
  BY DEF CasesInv
<1> HIDE DEF l
<1>8. FairPlay!Goto(d, "record", l)
  BY <1>1 DEF l
<1>9. JobsHeld' /\ jobs' \in [FairPlay!JobIds -> {"none", "waiting", "active", "kept"}]
  BY <1>3, <1>4, <1>5, <1>6, <1>8, JobStays
<1>10. pc'[d] = "record" /\ loc'[d] = l
  BY <1>3, <1>6, <1>7, <1>8, SlotMoves
<1>11. DeskKnows(d)'
  BY <1>10, <1>3, CasesAssumption DEF DeskKnows
<1> QED BY <1>3, <1>4, <1>6, <1>8, <1>9, <1>11, SlotGoesOn

LEMMA FindStep ==
  ASSUME CasesInv, NEW d \in Desks, ~both => Alone(d), UNCHANGED both, FairPlay!FindCase(d)
  PROVE  CasesInv'
<1> DEFINE c == FairPlay!NewestOpen(loc[d].player)
           l == [loc[d] EXCEPT !.found = c, !.old = FairPlay!SignalsOf(c)]
<1>1. FairPlay!Goto(d, "write", l) /\ pc[d] = "record" /\ UNCHANGED <<cases, signals, appeals, jobs>>
  BY DEF FairPlay!FindCase, FairPlay!tables
<1>2. loc[d] \in CaseLocals /\ loc[d].player \in Suspects
  BY <1>1, CasesTypes DEF CasesInv, DeskKnows, CaseLocals
<1>3. c \in 0..Len(cases) /\ (c = 0 => \A k \in 1..Len(cases) : cases[k].player = loc[d].player => cases[k].status # "OPEN")
  BY <1>2, NewestIsOpen DEF CasesInv
<1>4. FairPlay!SignalsOf(c) \subseteq Clues
  BY DEF CasesInv, CaseTypes, FairPlay!SignalsOf, FairPlay!Of, FairPlay!Evidence, Clues, ClueRows
<1>5. /\ l \in CaseLocals /\ l.job = loc[d].job /\ l.player = loc[d].player /\ l.found = c
      /\ l.old = FairPlay!SignalsOf(c)
  <2>1. c \in Nat
    BY <1>3, CasesTypes DEF CasesInv
  <2> QED BY <1>2, <1>4, <2>1 DEF CaseLocals
<1>6. "write" \in CaseLabels
  BY DEF CaseLabels
<1>7. CaseTypes
  BY DEF CasesInv
<1>8. ScoreKnown(l)
  BY <1>3, <1>5 DEF ScoreKnown
<1> HIDE DEF l
<1>9. JobsHeld' /\ jobs' \in [FairPlay!JobIds -> {"none", "waiting", "active", "kept"}]
  BY <1>1, <1>5, <1>6, JobStays
<1>10. pc'[d] = "write" /\ loc'[d] = l
  BY <1>1, <1>5, <1>6, <1>7, SlotMoves
<1>11. l.player # Null
  BY <1>2, <1>5, CasesAssumption
<1>12. DeskKnows(d)'
  BY <1>1, <1>10, <1>11, <1>3, <1>5 DEF DeskKnows
<1> QED BY <1>1, <1>5, <1>6, <1>8, <1>9, <1>12, SlotGoesOn

\* Nobody moves, and the tables stay.
LEMMA CasesStand ==
  ASSUME CasesInv, UNCHANGED <<cases, signals, appeals, both, pc, loc>>,
         jobs' \in [FairPlay!JobIds -> {"none", "waiting", "active", "kept"}], JobsHeld'
  PROVE  CasesInv'
<1>1. CaseTypes'
  BY DEF CasesInv, CaseTypes
<1>2. (\A s \in Desks : DeskKnows(s))' /\ CasesJudged' /\ OneOpenCase'
  BY DEF CasesInv, DeskKnows, CasesJudged, OneOpenCase
<1>3. ScoresWhole'
  BY DEF CasesInv, ScoresWhole, FairPlay!SignalsOf
<1> QED BY <1>1, <1>2, <1>3 DEF CasesInv

JobStates == {"none", "waiting", "active", "kept"}

\* A job is queued only if the queue has forgotten it, and nobody works on it then.
LEMMA QueueTakesIt ==
  ASSUME CasesInv, NEW id, jobs' = jobs \/ jobs' = FairPlay!Queued(id),
         \A t \in Desks : loc'[t].job = loc[t].job
  PROVE  JobsHeld' /\ jobs' \in [FairPlay!JobIds -> JobStates]
<1>1. /\ jobs' \in [FairPlay!JobIds -> JobStates]
      /\ \A k \in FairPlay!JobIds : jobs'[k] = "active" <=> jobs[k] = "active"
  BY DEF CasesInv, CaseTypes, FairPlay!Queued, JobStates
<1>2. JobsHeld'
  BY <1>1 DEF CasesInv, JobsHeld
<1> QED BY <1>1, <1>2

LEMMA EnqueueStep ==
  ASSUME CasesInv, NEW d \in Desks, ~both => Alone(d), UNCHANGED both, FairPlay!EnqueueAnalysis(d)
  PROVE  CasesInv'
<1>1. /\ FairPlay!Goto(d, "idle", FairPlay!Blank) /\ pc[d] = "enqueue"
      /\ UNCHANGED <<cases, signals, appeals>>
      /\ \E id : jobs' = FairPlay!Queued(id)
  BY AnyReply DEF FairPlay!EnqueueAnalysis, FairPlay!tables
<1>2. "idle" \in CaseLabels
  BY DEF CaseLabels
<1>3. /\ pc'[d] = "idle" /\ loc'[d] = FairPlay!Blank
      /\ \A t \in Desks \ {d} : loc'[t] = loc[t]
  BY <1>1, <1>2, BlankLocals, SlotMoves DEF CasesInv
<1>4. loc[d].job = Null
  BY <1>1 DEF CasesInv, DeskKnows
<1>5. \A t \in Desks : loc'[t].job = loc[t].job
  BY <1>3, <1>4, BlankLocals
<1>6. JobsHeld' /\ jobs' \in [FairPlay!JobIds -> JobStates]
  BY <1>1, <1>5, QueueTakesIt
<1>7. DeskKnows(d)'
  BY <1>3, BlankLocals DEF DeskKnows
<1> QED BY <1>1, <1>2, <1>6, <1>7, BlankLocals, SlotGoesOn DEF JobStates

LEMMA TakeStep ==
  ASSUME CasesInv, NEW d \in Desks, ~both => Alone(d), UNCHANGED both, FairPlay!TakeJob(d)
  PROVE  CasesInv'
<1>1. PICK id \in FairPlay!JobIds :
        /\ jobs[id] = "waiting"
        /\ IF id.game \in finished
           THEN /\ jobs' = [jobs EXCEPT ![id] = "active"]
                /\ FairPlay!Goto(d, "analyze", [FairPlay!Blank EXCEPT !.job = id,
                          !.todo = IF id.player = Null THEN Suspects ELSE {id.player}])
           ELSE jobs' = [jobs EXCEPT ![id] = "kept"] /\ UNCHANGED <<pc, loc>>
  BY DEF FairPlay!TakeJob
<1>2. pc[d] = "idle" /\ UNCHANGED <<cases, signals, appeals>>
  BY DEF FairPlay!TakeJob, FairPlay!tables
<1>3. loc[d].job = Null
  BY <1>2 DEF CasesInv, DeskKnows
<1>4. id # Null
  BY CasesAssumption DEF FairPlay!JobIds
<1>5. \A t \in Desks : loc[t].job # id
  BY <1>1 DEF CasesInv, JobsHeld
<1>6. CASE id.game \in finished
  <2> DEFINE l == [FairPlay!Blank EXCEPT !.job = id,
                          !.todo = IF id.player = Null THEN Suspects ELSE {id.player}]
  <2>1. l \in CaseLocals /\ l.job = id
    BY DEF FairPlay!Blank, CaseLocals, FairPlay!JobIds
  <2>2. FairPlay!Goto(d, "analyze", l) /\ jobs' = [jobs EXCEPT ![id] = "active"]
    BY <1>1, <1>6
  <2> HIDE DEF l
  <2>3. "analyze" \in CaseLabels
    BY DEF CaseLabels
  <2>4. /\ pc'[d] = "analyze" /\ loc'[d] = l
        /\ \A t \in Desks \ {d} : loc'[t] = loc[t]
    BY <2>1, <2>2, <2>3, SlotMoves DEF CasesInv
  <2>5. /\ jobs' \in [FairPlay!JobIds -> JobStates]
        /\ \A k \in FairPlay!JobIds : jobs'[k] = "active" <=> k = id \/ jobs[k] = "active"
    BY <2>2 DEF CasesInv, CaseTypes, JobStates
  <2>6. \A k \in FairPlay!JobIds : jobs'[k] = "active" <=> \E s \in Desks : loc'[s].job = k
    <3> SUFFICES ASSUME NEW k \in FairPlay!JobIds
                 PROVE  jobs'[k] = "active" <=> \E s \in Desks : loc'[s].job = k
      OBVIOUS
    <3>1. CASE k = id
      BY <3>1, <2>1, <2>4, <2>5
    <3>2. CASE k # id
      <4>1. k # Null
        BY CasesAssumption DEF FairPlay!JobIds
      <4>2. jobs[k] = "active" <=> \E s \in Desks : loc[s].job = k
        BY DEF CasesInv, JobsHeld
      <4>3. \A s \in Desks : loc'[s].job = k <=> loc[s].job = k
        BY <3>2, <4>1, <1>3, <2>1, <2>4
      <4> QED BY <3>2, <4>2, <4>3, <2>5
    <3> QED BY <3>1, <3>2
  <2>7. \A s, t \in Desks : loc'[s].job = loc'[t].job /\ loc'[s].job # Null => s = t
    BY <2>1, <2>4, <1>5 DEF CasesInv, JobsHeld
  <2>8. JobsHeld'
    BY <2>6, <2>7 DEF JobsHeld
  <2>9. DeskKnows(d)'
    BY <2>1, <2>4, <1>4 DEF DeskKnows
  <2> QED BY <1>2, <2>1, <2>2, <2>3, <2>5, <2>8, <2>9, SlotGoesOn DEF JobStates
<1>7. CASE id.game \notin finished
  <2>1. jobs' = [jobs EXCEPT ![id] = "kept"] /\ UNCHANGED <<pc, loc>>
    BY <1>1, <1>7
  <2>2. /\ jobs' \in [FairPlay!JobIds -> JobStates]
        /\ \A k \in FairPlay!JobIds : jobs'[k] = "active" <=> jobs[k] = "active"
    BY <2>1, <1>1 DEF CasesInv, CaseTypes, JobStates
  <2>3. JobsHeld'
    BY <2>1, <2>2 DEF CasesInv, JobsHeld
  <2> QED BY <1>2, <2>1, <2>2, <2>3, CasesStand DEF JobStates
<1> QED BY <1>6, <1>7

\* What a slot gives back when it replies is its job.
LEMMA JobGivenBack ==
  ASSUME CasesInv, NEW d \in Desks, FairPlay!Reply(d), loc[d].job \in FairPlay!JobIds,
         NEW state \in {"waiting", "kept"}, jobs' = [jobs EXCEPT ![loc[d].job] = state]
  PROVE  JobsHeld' /\ jobs' \in [FairPlay!JobIds -> JobStates]
<1>1. "idle" \in CaseLabels
  BY DEF CaseLabels
<1>2. /\ loc'[d] = FairPlay!Blank
      /\ \A t \in Desks \ {d} : loc'[t] = loc[t]
  BY <1>1, AnyReply, BlankLocals, SlotMoves DEF CasesInv
<1>3. /\ jobs' \in [FairPlay!JobIds -> JobStates]
      /\ \A k \in FairPlay!JobIds : jobs'[k] = "active" <=> k # loc[d].job /\ jobs[k] = "active"
  BY DEF CasesInv, CaseTypes, JobStates
<1>4. \A k \in FairPlay!JobIds : jobs'[k] = "active" <=> \E s \in Desks : loc'[s].job = k
  <2> SUFFICES ASSUME NEW k \in FairPlay!JobIds
               PROVE  jobs'[k] = "active" <=> \E s \in Desks : loc'[s].job = k
    OBVIOUS
  <2>1. k # Null
    BY CasesAssumption DEF FairPlay!JobIds
  <2>2. jobs[k] = "active" <=> \E s \in Desks : loc[s].job = k
    BY DEF CasesInv, JobsHeld
  <2>3. \A s, t \in Desks : loc[s].job = loc[t].job /\ loc[s].job # Null => s = t
    BY DEF CasesInv, JobsHeld
  <2>4. \A s \in Desks : loc'[s].job = k <=> s # d /\ loc[s].job = k
    BY <2>1, <1>2, BlankLocals
  <2> QED BY <2>1, <2>2, <2>3, <2>4, <1>3
<1>5. \A s, t \in Desks : loc'[s].job = loc'[t].job /\ loc'[s].job # Null => s = t
  BY <1>2, BlankLocals DEF CasesInv, JobsHeld
<1> QED BY <1>3, <1>4, <1>5 DEF JobsHeld

\* A slot that replies leaves nothing behind.
LEMMA SlotReplies ==
  ASSUME CasesInv, NEW d \in Desks, FairPlay!Reply(d), ~both => Alone(d),
         UNCHANGED <<cases, signals, appeals, both>>,
         JobsHeld' /\ jobs' \in [FairPlay!JobIds -> JobStates]
  PROVE  CasesInv'
<1>1. "idle" \in CaseLabels /\ FairPlay!Goto(d, "idle", FairPlay!Blank)
  BY AnyReply DEF CaseLabels
<1>2. pc'[d] = "idle" /\ loc'[d] = FairPlay!Blank
  BY <1>1, BlankLocals, SlotMoves DEF CasesInv
<1>3. DeskKnows(d)'
  BY <1>2, BlankLocals DEF DeskKnows
<1> QED BY <1>1, <1>3, BlankLocals, SlotGoesOn DEF JobStates

LEMMA CompleteStep ==
  ASSUME CasesInv, NEW d \in Desks, ~both => Alone(d), UNCHANGED both, FairPlay!CompleteJob(d)
  PROVE  CasesInv'
<1>1. /\ pc[d] = "analyze" /\ FairPlay!Reply(d) /\ UNCHANGED <<cases, signals, appeals>>
      /\ jobs' = [jobs EXCEPT ![loc[d].job] = "kept"]
  BY DEF FairPlay!CompleteJob, FairPlay!tables
<1>2. loc[d].job \in FairPlay!JobIds
  BY <1>1, CasesTypes DEF CasesInv, DeskKnows, CaseLocals
<1>3. JobsHeld' /\ jobs' \in [FairPlay!JobIds -> JobStates]
  BY <1>1, <1>2, JobGivenBack
<1> QED BY <1>1, <1>3, SlotReplies

LEMMA CrashStep ==
  ASSUME CasesInv, NEW d \in Desks, ~both => Alone(d), UNCHANGED both, FairPlay!Crash(d)
  PROVE  CasesInv'
<1>1. FairPlay!Reply(d) /\ UNCHANGED <<cases, signals, appeals>>
  BY DEF FairPlay!Crash, FairPlay!tables
<1>2. JobsHeld' /\ jobs' \in [FairPlay!JobIds -> JobStates]
  <2>1. CASE loc[d].job = Null
    <3>1. UNCHANGED jobs
      BY <2>1 DEF FairPlay!Crash
    <3>2. "idle" \in CaseLabels
      BY DEF CaseLabels
    <3> QED BY <3>1, <3>2, <2>1, <1>1, AnyReply, BlankLocals, JobStays DEF JobStates
  <2>2. CASE loc[d].job # Null
    <3>1. PICK state \in {"waiting", "kept"} : jobs' = [jobs EXCEPT ![loc[d].job] = state]
      BY <2>2 DEF FairPlay!Crash
    <3>2. loc[d].job \in FairPlay!JobIds
      BY <2>2, CasesTypes DEF CasesInv, CaseLocals
    <3> QED BY <3>1, <3>2, <1>1, JobGivenBack
  <2> QED BY <2>1, <2>2
<1> QED BY <1>1, <1>2, SlotReplies

LEMMA AnalyzeStep ==
  ASSUME CasesInv, NEW d \in Desks, ~both => Alone(d), UNCHANGED both, FairPlay!AnalyzePlayer(d)
  PROVE  CasesInv'
<1>1. /\ pc[d] = "analyze" /\ UNCHANGED <<cases, signals, appeals, jobs>>
  BY DEF FairPlay!AnalyzePlayer, FairPlay!tables
<1>2. PICK p \in loc[d].todo, kinds \in Findings :
        FairPlay!Goto(d, IF kinds = {} THEN "analyze" ELSE "record",
           [[loc[d] EXCEPT !.todo = @ \ {p}] EXCEPT !.player = p,
             !.signals = {FairPlay!Evidence(k, loc[d].job.game, Null) : k \in kinds}])
  BY DEF FairPlay!AnalyzePlayer
<1> DEFINE label == IF kinds = {} THEN "analyze" ELSE "record"
           l == [[loc[d] EXCEPT !.todo = @ \ {p}] EXCEPT !.player = p,
                  !.signals = {FairPlay!Evidence(k, loc[d].job.game, Null) : k \in kinds}]
<1>3. loc[d] \in CaseLocals /\ loc[d].job \in FairPlay!JobIds /\ loc[d].job # Null
  BY <1>1, CasesTypes DEF CasesInv, DeskKnows, CaseLocals
<1>4. {FairPlay!Evidence(k, loc[d].job.game, Null) : k \in kinds} \subseteq Clues
  <2> SUFFICES ASSUME NEW k \in kinds PROVE FairPlay!Evidence(k, loc[d].job.game, Null) \in Clues
    OBVIOUS
  <2>1. k \in ClueTypes /\ loc[d].job.game \in Examined
    BY <1>3 DEF ClueTypes, FairPlay!JobIds
  <2> QED BY <2>1 DEF FairPlay!Evidence, Clues
<1>5. l \in CaseLocals /\ l.job = loc[d].job /\ l.player = p /\ p \in Suspects
  BY <1>3, <1>4 DEF CaseLocals
<1>6. label \in CaseLabels /\ label \in {"analyze", "record"}
  BY DEF CaseLabels
<1>7. FairPlay!Goto(d, label, l)
  BY <1>2
<1> HIDE DEF l, label
<1>8. pc'[d] = label /\ loc'[d] = l
  BY <1>5, <1>6, <1>7, SlotMoves DEF CasesInv
<1>9. JobsHeld' /\ jobs' \in [FairPlay!JobIds -> JobStates]
  BY <1>1, <1>5, <1>6, <1>7, JobStays DEF JobStates
<1>10. DeskKnows(d)'
  BY <1>3, <1>5, <1>6, <1>8, CasesAssumption DEF DeskKnows
<1> QED BY <1>1, <1>5, <1>6, <1>7, <1>9, <1>10, SlotGoesOn DEF JobStates

LEMMA GameOverStep ==
  ASSUME CasesInv, NEW g \in Examined, UNCHANGED both, FairPlay!OnGameFinished(g)
  PROVE  CasesInv'
<1>1. /\ UNCHANGED <<cases, signals, appeals, pc, loc>>
      /\ \E id : jobs' = jobs \/ jobs' = FairPlay!Queued(id)
  BY DEF FairPlay!OnGameFinished, FairPlay!tables
<1>2. JobsHeld' /\ jobs' \in [FairPlay!JobIds -> JobStates]
  BY <1>1, QueueTakesIt
<1> QED BY <1>1, <1>2, CasesStand DEF JobStates

LEMMA EvictStep ==
  ASSUME CasesInv, NEW id \in FairPlay!JobIds, UNCHANGED both, FairPlay!Evict(id)
  PROVE  CasesInv'
<1>1. /\ UNCHANGED <<cases, signals, appeals, pc, loc>>
      /\ jobs[id] = "kept" /\ jobs' = [jobs EXCEPT ![id] = "none"]
  BY DEF FairPlay!Evict, FairPlay!tables
<1>2. /\ jobs' \in [FairPlay!JobIds -> JobStates]
      /\ \A k \in FairPlay!JobIds : jobs'[k] = "active" <=> jobs[k] = "active"
  BY <1>1 DEF CasesInv, CaseTypes, JobStates
<1>3. JobsHeld'
  BY <1>1, <1>2 DEF CasesInv, JobsHeld
<1> QED BY <1>1, <1>2, <1>3, CasesStand DEF JobStates

LEMMA WindowStep ==
  ASSUME CasesInv, NEW c, UNCHANGED both, FairPlay!WindowCloses(c)
  PROVE  CasesInv'
<1>1. UNCHANGED <<cases, signals, appeals, jobs, pc, loc>>
  BY DEF FairPlay!WindowCloses, FairPlay!tables
<1>2. JobsHeld' /\ jobs' \in [FairPlay!JobIds -> JobStates]
  BY <1>1 DEF CasesInv, JobsHeld, CaseTypes, JobStates
<1> QED BY <1>1, <1>2, CasesStand DEF JobStates

LEMMA SubmitAppealStep ==
  ASSUME CasesInv, NEW d \in Desks, ~both => Alone(d), UNCHANGED both, FairPlay!SubmitAppeal(d)
  PROVE  CasesInv'
<1>1. PICK c \in 1..Len(cases) :
        /\ cases[c].status # "OPEN"
        /\ FairPlay!Goto(d, "appeal", [FairPlay!Blank EXCEPT !.case = c])
  BY CasesTypes DEF FairPlay!SubmitAppeal, FairPlay!Appealable, CasesInv
<1> DEFINE l == [FairPlay!Blank EXCEPT !.case = c]
<1>2. /\ pc[d] = "idle" /\ UNCHANGED <<cases, signals, appeals, jobs>>
  BY DEF FairPlay!SubmitAppeal, FairPlay!tables
<1>3. l \in CaseLocals /\ l.job = Null /\ l.case = c
  BY CasesTypes DEF CasesInv, CaseLocals, FairPlay!Blank
<1>4. "appeal" \in CaseLabels /\ FairPlay!Goto(d, "appeal", l)
  BY <1>1 DEF CaseLabels
<1> HIDE DEF l
<1>5. pc'[d] = "appeal" /\ loc'[d] = l
  BY <1>3, <1>4, SlotMoves DEF CasesInv
<1>6. loc[d].job = Null
  BY <1>2 DEF CasesInv, DeskKnows
<1>7. JobsHeld' /\ jobs' \in [FairPlay!JobIds -> JobStates]
  BY <1>2, <1>3, <1>4, <1>6, JobStays DEF JobStates
<1>8. DeskKnows(d)'
  BY <1>1, <1>2, <1>3, <1>5 DEF DeskKnows
<1> QED BY <1>2, <1>3, <1>4, <1>7, <1>8, SlotGoesOn DEF JobStates

LEMMA DecideLocals ==
  ASSUME NEW a \in Nat, NEW u \in Commission
  PROVE  /\ [FairPlay!Blank EXCEPT !.case = a, !.by = u] \in CaseLocals
         /\ [FairPlay!Blank EXCEPT !.case = a, !.by = u].job = Null
         /\ [FairPlay!Blank EXCEPT !.case = a, !.by = u].case = a
         /\ [FairPlay!Blank EXCEPT !.case = a, !.by = u].by = u
  BY DEF FairPlay!Blank, CaseLocals

LEMMA BeginDecideStep ==
  ASSUME CasesInv, NEW d \in Desks, ~both => Alone(d), UNCHANGED both, FairPlay!BeginDecideAppeal(d)
  PROVE  CasesInv'
<1>1. PICK a \in 1..Len(appeals), u \in Commission :
        /\ cases[appeals[a].case].reviewedBy # u
        /\ FairPlay!Goto(d, "decide", [FairPlay!Blank EXCEPT !.case = a, !.by = u])
  BY CasesTypes DEF FairPlay!BeginDecideAppeal, FairPlay!OtherReviewer, CasesInv
<1> DEFINE l == [FairPlay!Blank EXCEPT !.case = a, !.by = u]
<1>2. /\ pc[d] = "idle" /\ UNCHANGED <<cases, signals, appeals, jobs>>
  BY DEF FairPlay!BeginDecideAppeal, FairPlay!tables
<1>3. l \in CaseLocals /\ l.job = Null /\ l.case = a /\ l.by = u
  <2>1. a \in Nat
    BY CasesTypes DEF CasesInv
  <2> QED BY <2>1, DecideLocals
<1>4. "decide" \in CaseLabels /\ FairPlay!Goto(d, "decide", l)
  BY <1>1 DEF CaseLabels
<1> HIDE DEF l
<1>5. pc'[d] = "decide" /\ loc'[d] = l
  BY <1>3, <1>4, SlotMoves DEF CasesInv
<1>6. loc[d].job = Null
  BY <1>2 DEF CasesInv, DeskKnows
<1>7. JobsHeld' /\ jobs' \in [FairPlay!JobIds -> JobStates]
  BY <1>2, <1>3, <1>4, <1>6, JobStays DEF JobStates
<1>8. DeskKnows(d)'
  BY <1>1, <1>2, <1>3, <1>5, CasesAssumption DEF DeskKnows
<1> QED BY <1>2, <1>3, <1>4, <1>7, <1>8, SlotGoesOn DEF JobStates

\* What is left to show of a step that writes in the tables: the others know what they knew.
LEMMA TableStep ==
  ASSUME CasesInv, NEW d \in Desks, ~both => Alone(d), NEW label \in CaseLabels, NEW l \in CaseLocals,
         FairPlay!Goto(d, label, l), label # "write", UNCHANGED both,
         cases' \in Seq(CaseRows), signals' \in SUBSET ClueRows, appeals' \in Seq(AppealRows),
         jobs' \in [FairPlay!JobIds -> JobStates],
         Len(cases') >= Len(cases), Len(appeals') >= Len(appeals),
         \A c \in 1..Len(cases) : /\ cases'[c].reviewedBy = cases[c].reviewedBy
                                  /\ cases[c].status # "OPEN" => cases'[c].status # "OPEN",
         \A a \in 1..Len(appeals) : appeals'[a].case = appeals[a].case,
         \A x \in signals' : x.case \in 1..Len(cases'),
         \A a \in 1..Len(appeals') : appeals'[a].case \in 1..Len(cases'),
         JobsHeld', DeskKnows(d)', CasesJudged', OneOpenCase',
         ~both => \A c \in 1..Len(cases') : cases'[c].counted = FairPlay!SignalsOf(c)'
  PROVE  CasesInv'
<1>1. /\ pc' \in [Desks -> CaseLabels] /\ loc' \in [Desks -> CaseLocals]
      /\ pc'[d] = label /\ loc'[d] = l
      /\ \A t \in Desks \ {d} : pc'[t] = pc[t] /\ loc'[t] = loc[t]
  BY SlotMoves DEF CasesInv
<1>2. CaseTypes'
  BY <1>1 DEF CasesInv, CaseTypes, CaseLabels, JobStates
<1>3. \A s \in Desks : DeskKnows(s)'
  <2> SUFFICES ASSUME NEW s \in Desks, s # d PROVE DeskKnows(s)'
    OBVIOUS
  <2>1. /\ pc'[s] = pc[s] /\ loc'[s] = loc[s] /\ DeskKnows(s) /\ loc[s] \in CaseLocals
    BY <1>1, CasesTypes DEF CasesInv
  <2>2. /\ Len(cases) \in Nat /\ Len(appeals) \in Nat /\ Len(cases') \in Nat /\ Len(appeals') \in Nat
    BY <1>2, CasesTypes, LenProperties DEF CasesInv, CaseTypes
  <2>3. pc[s] = "write" => loc[s].found \in 0..Len(cases')
    BY <2>1, <2>2 DEF DeskKnows
  <2>4. pc[s] = "appeal" => loc[s].case \in 1..Len(cases') /\ cases'[loc[s].case].status # "OPEN"
    BY <2>1, <2>2 DEF DeskKnows
  <2>5. pc[s] = "decide" =>
          /\ loc[s].case \in 1..Len(appeals') /\ loc[s].by # Null
          /\ loc[s].by # cases'[appeals'[loc[s].case].case].reviewedBy
    <3> SUFFICES ASSUME pc[s] = "decide" 
                 PROVE  /\ loc[s].case \in 1..Len(appeals') /\ loc[s].by # Null
                        /\ loc[s].by # cases'[appeals'[loc[s].case].case].reviewedBy
      OBVIOUS
    <3>1. loc[s].case \in 1..Len(appeals) /\ loc[s].by # Null /\ loc[s].by # cases[appeals[loc[s].case].case].reviewedBy
      BY <2>1 DEF DeskKnows
    <3>2. appeals[loc[s].case].case \in 1..Len(cases)
      BY <3>1 DEF CasesInv, CaseTypes
    <3> QED BY <3>1, <3>2, <2>2
  <2> QED BY <2>1, <2>3, <2>4, <2>5 DEF DeskKnows
<1>4. ScoresWhole'
  <2> SUFFICES ASSUME ~both PROVE ScoresWhole'
    BY DEF ScoresWhole
  <2>1. \A t \in Desks \ {d} : pc'[t] = "idle"
    BY <1>1 DEF Alone
  <2>2. \A s, t \in Desks : pc'[s] # "idle" /\ pc'[t] # "idle" => s = t
    BY <2>1
  <2>3. \A s \in Desks : pc'[s] # "write"
    BY <2>1, <1>1
  <2> QED BY <2>2, <2>3 DEF ScoresWhole
<1> QED BY <1>2, <1>3, <1>4 DEF CasesInv

LEMMA CreateStep ==
  ASSUME CasesInv, NEW d \in Desks, ~both => Alone(d), UNCHANGED both, FairPlay!CreateAppeal(d)
  PROVE  CasesInv'
<1> DEFINE n == Len(appeals)
           row == [case |-> loc[d].case, status |-> "SUBMITTED", reviewedBy |-> Null]
<1>1. /\ pc[d] = "appeal" /\ appeals' = Append(appeals, row) /\ FairPlay!Reply(d)
      /\ UNCHANGED <<cases, signals, jobs>>
  BY DEF FairPlay!CreateAppeal
<1>2. /\ Len(cases) \in Nat /\ n \in Nat /\ appeals \in Seq(AppealRows) /\ cases \in Seq(CaseRows)
      /\ signals \in SUBSET ClueRows
  BY CasesTypes DEF CasesInv, CaseTypes
<1>3. /\ loc[d].case \in 1..Len(cases) /\ cases[loc[d].case].status # "OPEN" /\ loc[d].job = Null
  BY <1>1 DEF CasesInv, DeskKnows
<1>4. row \in AppealRows
  BY <1>2, <1>3 DEF AppealRows
<1>5. /\ appeals' \in Seq(AppealRows) /\ Len(appeals') = n + 1
      /\ appeals'[n + 1] = row
      /\ \A a \in 1..n : appeals'[a] = appeals[a]
  BY <1>1, <1>2, <1>4, AppendProperties
<1> HIDE DEF row
<1>6. row.case = loc[d].case /\ row.status = "SUBMITTED"
  BY DEF row
<1>7. \A a \in 1..n + 1 : a \in 1..n \/ a = n + 1
  BY <1>2
<1>8. \A a \in 1..n : a \in 1..n + 1
  BY <1>2
<1>9. CasesJudged'
  <2>1. \A c \in 1..Len(cases) : (\E a \in 1..n + 1 : appeals'[a].case = c /\ appeals'[a].status = "UPHELD") <=>
                                 (\E a \in 1..n : appeals[a].case = c /\ appeals[a].status = "UPHELD")
    BY <1>5, <1>6, <1>7, <1>8
  <2>2. \A c \in 1..Len(cases) :
          /\ cases[c].sanction <=> cases[c].status = "CLOSED_SANCTION"
          /\ cases[c].status = "OPEN" <=> cases[c].reviewedBy = Null
          /\ cases[c].status = "APPEALED" <=> \E a \in 1..n : appeals[a].case = c /\ appeals[a].status = "UPHELD"
    BY DEF CasesInv, CasesJudged
  <2>3. \A a \in 1..n + 1 :
          /\ cases[appeals'[a].case].status # "OPEN"
          /\ appeals'[a].status # "SUBMITTED" =>
               appeals'[a].reviewedBy # Null /\ appeals'[a].reviewedBy # cases[appeals'[a].case].reviewedBy
    BY <1>3, <1>5, <1>6, <1>7 DEF CasesInv, CasesJudged
  <2> QED BY <2>1, <2>2, <2>3, <1>1, <1>5 DEF CasesJudged
<1>10. OneOpenCase'
  BY <1>1 DEF CasesInv, OneOpenCase
<1>11. /\ "idle" \in CaseLabels /\ FairPlay!Goto(d, "idle", FairPlay!Blank)
  BY <1>1, AnyReply DEF CaseLabels
<1>12. pc'[d] = "idle" /\ loc'[d] = FairPlay!Blank
  BY <1>11, BlankLocals, SlotMoves DEF CasesInv
<1>13. DeskKnows(d)'
  BY <1>12, BlankLocals DEF DeskKnows
<1>14. JobsHeld' /\ jobs' \in [FairPlay!JobIds -> JobStates]
  BY <1>1, <1>3, <1>11, BlankLocals, JobStays DEF JobStates
<1>15. \A a \in 1..Len(appeals') : appeals'[a].case \in 1..Len(cases')
  BY <1>1, <1>3, <1>5, <1>6, <1>7 DEF CasesInv, CaseTypes
<1>16. ~both => \A c \in 1..Len(cases') : cases'[c].counted = FairPlay!SignalsOf(c)'
  BY <1>1 DEF CasesInv, ScoresWhole, FairPlay!SignalsOf
<1>17. \A x \in signals' : x.case \in 1..Len(cases')
  BY <1>1 DEF CasesInv, CaseTypes
<1>18. Len(cases') >= Len(cases) /\ Len(appeals') >= Len(appeals)
  BY <1>1, <1>2, <1>5
<1>19. /\ \A c \in 1..Len(cases) : /\ cases'[c].reviewedBy = cases[c].reviewedBy
                                   /\ cases[c].status # "OPEN" => cases'[c].status # "OPEN"
       /\ \A a \in 1..Len(appeals) : appeals'[a].case = appeals[a].case
       /\ cases' \in Seq(CaseRows) /\ signals' \in SUBSET ClueRows
  BY <1>1, <1>2, <1>5
<1> QED BY <1>5, <1>9, <1>10, <1>11, <1>13, <1>14, <1>15, <1>16, <1>17, <1>18, <1>19, BlankLocals, TableStep

LEMMA DecideCaseStep ==
  ASSUME CasesInv, NEW u \in Commission, NEW k \in Nat, UNCHANGED both, FairPlay!DecideCase(u, k)
  PROVE  CasesInv'
<1> DEFINE n == Len(cases)
<1>1. /\ k \in 1..n /\ cases[k].status = "OPEN" /\ UNCHANGED <<signals, appeals, jobs, pc, loc>>
  BY CasesTypes DEF FairPlay!DecideCase, FairPlay!Undecided, CasesInv, CaseRows, CaseStates
<1>2. PICK ruling \in FairPlay!Verdicts :
        cases' = [cases EXCEPT ![k].status = ruling, ![k].reviewedBy = u,
                               ![k].sanction = (ruling = "CLOSED_SANCTION")]
  BY DEF FairPlay!DecideCase
<1> DEFINE row == [[[cases[k] EXCEPT !.status = ruling] EXCEPT !.reviewedBy = u]
                     EXCEPT !.sanction = (ruling = "CLOSED_SANCTION")]
<1>3. /\ n \in Nat /\ cases \in Seq(CaseRows) /\ cases[k] \in CaseRows
  BY <1>1, CasesTypes DEF CasesInv, CaseTypes
<1>4. ruling \in CaseStates /\ ruling # "OPEN" /\ ruling # "APPEALED"
  BY DEF FairPlay!Verdicts, CaseStates
<1>5. /\ row \in CaseRows /\ row.status = ruling /\ row.reviewedBy = u
      /\ row.sanction = (ruling = "CLOSED_SANCTION")
      /\ row.player = cases[k].player /\ row.counted = cases[k].counted
  BY <1>3, <1>4 DEF CaseRows
<1>6. cases' = [cases EXCEPT ![k] = row]
  BY <1>2
<1> HIDE DEF row
<1>7. /\ cases' \in Seq(CaseRows) /\ Len(cases') = n /\ cases'[k] = row
      /\ \A c \in 1..n : c # k => cases'[c] = cases[c]
  BY <1>1, <1>3, <1>5, <1>6, ExceptSeq
<1>8. u # Null
  BY CasesAssumption
<1>9. CaseTypes'
  BY <1>1, <1>7 DEF CasesInv, CaseTypes
<1>10. JobsHeld'
  BY <1>1 DEF CasesInv, JobsHeld
<1>11. \A a \in 1..Len(appeals) : appeals[a].case \in 1..n /\ appeals[a].case # k
  BY <1>1 DEF CasesInv, CaseTypes, CasesJudged
<1>12. \A s \in Desks : DeskKnows(s)'
  <2> SUFFICES ASSUME NEW s \in Desks PROVE DeskKnows(s)'
    OBVIOUS
  <2>1. DeskKnows(s)
    BY DEF CasesInv
  <2>2. pc[s] = "appeal" => cases'[loc[s].case].status # "OPEN"
    BY <2>1, <1>1, <1>7 DEF DeskKnows
  <2>3. pc[s] = "decide" => cases'[appeals[loc[s].case].case].reviewedBy = cases[appeals[loc[s].case].case].reviewedBy
    BY <2>1, <1>7, <1>11 DEF DeskKnows
  <2> QED BY <2>1, <2>2, <2>3, <1>1, <1>7 DEF DeskKnows
<1>13. CasesJudged'
  <2>1. \A c \in 1..n : c # k =>
          /\ cases[c].sanction <=> cases[c].status = "CLOSED_SANCTION"
          /\ cases[c].status = "OPEN" <=> cases[c].reviewedBy = Null
          /\ cases[c].status = "APPEALED" <=> \E a \in 1..Len(appeals) : appeals[a].case = c /\ appeals[a].status = "UPHELD"
    BY DEF CasesInv, CasesJudged
  <2>2. /\ cases'[k].sanction <=> cases'[k].status = "CLOSED_SANCTION"
        /\ cases'[k].status = "OPEN" <=> cases'[k].reviewedBy = Null
        /\ cases'[k].status = "APPEALED" <=> \E a \in 1..Len(appeals) : appeals[a].case = k /\ appeals[a].status = "UPHELD"
    BY <1>4, <1>5, <1>7, <1>8, <1>11
  <2>3. \A a \in 1..Len(appeals) :
       /\ cases[appeals[a].case].status # "OPEN"
       /\ appeals[a].status # "SUBMITTED" =>
            appeals[a].reviewedBy # Null /\ appeals[a].reviewedBy # cases[appeals[a].case].reviewedBy
    BY DEF CasesInv, CasesJudged
  <2>4. \A a \in 1..Len(appeals) : cases'[appeals[a].case] = cases[appeals[a].case]
    BY <1>7, <1>11
  <2>5. \A c \in 1..n : 
          /\ cases'[c].sanction <=> cases'[c].status = "CLOSED_SANCTION"
          /\ cases'[c].status = "OPEN" <=> cases'[c].reviewedBy = Null
          /\ cases'[c].status = "APPEALED" <=> \E a \in 1..Len(appeals) : appeals[a].case = c /\ appeals[a].status = "UPHELD"
    BY <2>1, <2>2, <1>7
  <2>6. \A a \in 1..Len(appeals) :
       /\ cases'[appeals[a].case].status # "OPEN"
       /\ appeals[a].status # "SUBMITTED" =>
            appeals[a].reviewedBy # Null /\ appeals[a].reviewedBy # cases'[appeals[a].case].reviewedBy
    BY <2>3, <2>4
  <2> QED BY <2>5, <2>6, <1>1, <1>7 DEF CasesJudged
<1>14. OneOpenCase'
  <2>1. \A c \in 1..n : cases'[c].status = "OPEN" => c # k /\ cases'[c] = cases[c]
    BY <1>4, <1>5, <1>7
  <2> QED BY <2>1, <1>7 DEF CasesInv, OneOpenCase
<1>15. ScoresWhole'
  <2> SUFFICES ASSUME ~both PROVE ScoresWhole'
    BY DEF ScoresWhole
  <2>1. \A c : FairPlay!SignalsOf(c)' = FairPlay!SignalsOf(c)
    BY <1>1 DEF FairPlay!SignalsOf
  <2>2. \A c \in 1..n : cases'[c].counted = cases[c].counted /\ cases'[c].player = cases[c].player
                        /\ (cases'[c].status = "OPEN" => cases[c].status = "OPEN")
    BY <1>4, <1>5, <1>7
  <2>3. \A c \in 1..n : cases'[c].counted = FairPlay!SignalsOf(c)
    BY <2>2 DEF CasesInv, ScoresWhole
  <2>4. \A s \in Desks : pc[s] = "write" =>
          /\ loc[s].old = FairPlay!SignalsOf(loc[s].found)
          /\ loc[s].found = 0 => \A c \in 1..n : cases'[c].player = loc[s].player => cases'[c].status # "OPEN"
    BY <2>2 DEF CasesInv, ScoresWhole
  <2>5. \A s, t \in Desks : pc[s] # "idle" /\ pc[t] # "idle" => s = t
    BY DEF CasesInv, ScoresWhole
  <2> QED BY <2>1, <2>3, <2>4, <2>5, <1>1, <1>7 DEF ScoresWhole
<1> QED BY <1>9, <1>10, <1>12, <1>13, <1>14, <1>15 DEF CasesInv

LEMMA DecideAppealStep ==
  ASSUME CasesInv, NEW d \in Desks, ~both => Alone(d), UNCHANGED both, FairPlay!DecideAppeal(d)
  PROVE  CasesInv'
<1> DEFINE a == loc[d].case
           c == appeals[a].case
           n == Len(cases)
           m == Len(appeals)
<1>1. /\ pc[d] = "decide" /\ FairPlay!Reply(d) /\ UNCHANGED <<signals, jobs>>
  BY DEF FairPlay!DecideAppeal, FairPlay!tables
<1>2. /\ a \in 1..m /\ loc[d].by # Null /\ loc[d].by # cases[c].reviewedBy /\ loc[d].job = Null
      /\ loc[d].by \in Commission
  BY <1>1, CasesTypes DEF CasesInv, DeskKnows, CaseLocals
<1>3. c \in 1..n /\ cases[c].status # "OPEN"
  BY <1>2 DEF CasesInv, CaseTypes, CasesJudged
<1>4. /\ n \in Nat /\ m \in Nat /\ cases \in Seq(CaseRows) /\ appeals \in Seq(AppealRows)
      /\ cases[c] \in CaseRows /\ appeals[a] \in AppealRows /\ signals \in SUBSET ClueRows
  BY <1>2, <1>3, CasesTypes DEF CasesInv, CaseTypes
<1>5. /\ "idle" \in CaseLabels /\ FairPlay!Goto(d, "idle", FairPlay!Blank)
  BY <1>1, AnyReply DEF CaseLabels
<1>6. JobsHeld' /\ jobs' \in [FairPlay!JobIds -> JobStates]
  BY <1>1, <1>2, <1>5, BlankLocals, JobStays DEF JobStates
<1>7. pc'[d] = "idle" /\ loc'[d] = FairPlay!Blank
  BY <1>5, BlankLocals, SlotMoves DEF CasesInv
<1>8. DeskKnows(d)'
  BY <1>7, BlankLocals DEF DeskKnows
<1>9. CASE appeals[a].status \notin FairPlay!Active
  <2>1. UNCHANGED <<cases, appeals>>
    BY <1>9 DEF FairPlay!DecideAppeal, FairPlay!tables
  <2> QED BY <2>1, <1>1, <1>6, SlotReplies
<1>10. CASE appeals[a].status \in FairPlay!Active
  <2>1. PICK ruling \in {"UPHELD", "REJECTED"} :
          /\ appeals' = [appeals EXCEPT ![a].status = ruling, ![a].reviewedBy = loc[d].by]
          /\ cases' = IF ruling = "REJECTED" THEN cases
                      ELSE [cases EXCEPT ![c].status = "APPEALED", ![c].sanction = FALSE]
    BY <1>10 DEF FairPlay!DecideAppeal
  <2>2. appeals[a].status = "SUBMITTED"
    BY <1>4, <1>10 DEF FairPlay!Active, AppealRows
  <2> DEFINE row == [[appeals[a] EXCEPT !.status = ruling] EXCEPT !.reviewedBy = loc[d].by]
             file == [[cases[c] EXCEPT !.status = "APPEALED"] EXCEPT !.sanction = FALSE]
  <2>3. /\ row \in AppealRows /\ row.case = c /\ row.status = ruling /\ row.reviewedBy = loc[d].by
    BY <1>2, <1>4 DEF AppealRows
  <2>4. /\ file \in CaseRows /\ file.status = "APPEALED" /\ file.sanction = FALSE
        /\ file.reviewedBy = cases[c].reviewedBy /\ file.counted = cases[c].counted
        /\ file.player = cases[c].player
    BY <1>4 DEF CaseRows, CaseStates
  <2>5. appeals' = [appeals EXCEPT ![a] = row]
    BY <2>1, Zenon
  <2>6. cases' = IF ruling = "REJECTED" THEN cases ELSE [cases EXCEPT ![c] = file]
    BY <2>1, Zenon
  <2> HIDE DEF row, file
  <2>7. /\ appeals' \in Seq(AppealRows) /\ Len(appeals') = m /\ appeals'[a] = row
        /\ \A b \in 1..m : b # a => appeals'[b] = appeals[b]
    BY <1>2, <1>4, <2>3, <2>5, ExceptSeq
  <2>8. /\ cases' \in Seq(CaseRows) /\ Len(cases') = n
        /\ \A k \in 1..n : k # c => cases'[k] = cases[k]
        /\ cases'[c] = IF ruling = "REJECTED" THEN cases[c] ELSE file
    BY <1>3, <1>4, <2>4, <2>6, ExceptSeq
  <2>9. \A k \in 1..n :
          /\ cases'[k].reviewedBy = cases[k].reviewedBy /\ cases'[k].player = cases[k].player
          /\ cases'[k].counted = cases[k].counted
          /\ cases'[k].status # "OPEN" <=> cases[k].status # "OPEN"
    BY <1>3, <2>4, <2>8
  <2>10. \A b \in 1..m : appeals'[b].case = appeals[b].case
    BY <2>3, <2>7
  <2>11. CasesJudged'
    <3>1. \A k \in 1..n :
            /\ cases[k].sanction <=> cases[k].status = "CLOSED_SANCTION"
            /\ cases[k].status = "OPEN" <=> cases[k].reviewedBy = Null
            /\ cases[k].status = "APPEALED" <=> \E b \in 1..m : appeals[b].case = k /\ appeals[b].status = "UPHELD"
      BY DEF CasesInv, CasesJudged
    <3>2. \A k \in 1..n : cases'[k].sanction <=> cases'[k].status = "CLOSED_SANCTION"
      BY <3>1, <2>4, <2>8
    <3>3. \A k \in 1..n : cases'[k].status = "OPEN" <=> cases'[k].reviewedBy = Null
      BY <3>1, <2>9
    <3>4. \A k \in 1..n : cases'[k].status = "APPEALED" <=> \E b \in 1..m : appeals'[b].case = k /\ appeals'[b].status = "UPHELD"
      <4> SUFFICES ASSUME NEW k \in 1..n
                   PROVE  cases'[k].status = "APPEALED" <=> \E b \in 1..m : appeals'[b].case = k /\ appeals'[b].status = "UPHELD"
        OBVIOUS
      <4>1. CASE k = c /\ ruling = "UPHELD"
        BY <4>1, <1>2, <2>3, <2>4, <2>7, <2>8
      <4>2. CASE ~(k = c /\ ruling = "UPHELD")
        <5>1. cases'[k].status = cases[k].status
          BY <4>2, <2>8
        <5>2. \A b \in 1..m : (appeals'[b].case = k /\ appeals'[b].status = "UPHELD") <=>
                              (appeals[b].case = k /\ appeals[b].status = "UPHELD")
          BY <4>2, <2>2, <2>3, <2>7
        <5> QED BY <5>1, <5>2, <3>1
      <4> QED BY <4>1, <4>2
    <3>5. \A b \in 1..m : b # a =>
         /\ cases'[appeals'[b].case].status # "OPEN"
         /\ appeals'[b].status # "SUBMITTED" =>
              appeals'[b].reviewedBy # Null /\ appeals'[b].reviewedBy # cases'[appeals'[b].case].reviewedBy
      <4>1. \A b \in 1..m :
              /\ cases[appeals[b].case].status # "OPEN"
              /\ appeals[b].status # "SUBMITTED" =>
                   appeals[b].reviewedBy # Null /\ appeals[b].reviewedBy # cases[appeals[b].case].reviewedBy
        BY DEF CasesInv, CasesJudged
      <4>2. \A b \in 1..m : appeals[b].case \in 1..n
        BY DEF CasesInv, CaseTypes
      <4> QED BY <4>1, <4>2, <2>7, <2>9
    <3>6. /\ cases'[appeals'[a].case].status # "OPEN"
          /\ appeals'[a].reviewedBy # Null /\ appeals'[a].reviewedBy # cases'[appeals'[a].case].reviewedBy
      BY <1>2, <1>3, <2>3, <2>7, <2>9
    <3> QED BY <3>2, <3>3, <3>4, <3>5, <3>6, <2>7, <2>8 DEF CasesJudged
  <2>12. OneOpenCase'
    BY <2>8, <2>9 DEF CasesInv, OneOpenCase
  <2>13. ~both => \A k \in 1..Len(cases') : cases'[k].counted = FairPlay!SignalsOf(k)'
    BY <1>1, <2>8, <2>9 DEF CasesInv, ScoresWhole, FairPlay!SignalsOf
  <2>14. \A x \in signals' : x.case \in 1..Len(cases')
    BY <1>1, <2>8 DEF CasesInv, CaseTypes
  <2>15. \A b \in 1..Len(appeals') : appeals'[b].case \in 1..Len(cases')
    BY <2>7, <2>8, <2>10 DEF CasesInv, CaseTypes
  <2>16. /\ \A k \in 1..Len(cases) : /\ cases'[k].reviewedBy = cases[k].reviewedBy
                                     /\ cases[k].status # "OPEN" => cases'[k].status # "OPEN"
         /\ Len(cases') >= Len(cases) /\ Len(appeals') >= Len(appeals) /\ signals' \in SUBSET ClueRows
    BY <1>1, <1>4, <2>7, <2>8, <2>9
  <2> HIDE DEF a, c, n, m
  <2> QED BY <1>5, <1>6, <1>8, <2>7, <2>8, <2>10, <2>11, <2>12, <2>13, <2>14, <2>15, <2>16, BlankLocals, TableStep DEF n, m
<1> QED BY <1>9, <1>10

\* The rows that are written for what was not there, and the table with them.
FreshClues(l, c) ==
  {[case |-> c, type |-> e.type, game |-> e.game, reporter |-> e.reporter] : e \in l.signals \ l.old}
CluesOf(table, c) == {FairPlay!Of(x) : x \in {y \in table : y.case = c}}

LEMMA FreshAreClues ==
  ASSUME NEW l \in CaseLocals, NEW c \in Nat
  PROVE  /\ FreshClues(l, c) \subseteq ClueRows
         /\ \A x \in FreshClues(l, c) : x.case = c
         /\ CluesOf(FreshClues(l, c), c) = l.signals \ l.old
<1>1. l.signals \subseteq Clues
  BY DEF CaseLocals
<1>2. \A e \in Clues : /\ [case |-> c, type |-> e.type, game |-> e.game, reporter |-> e.reporter] \in ClueRows
                       /\ [case |-> c, type |-> e.type, game |-> e.game, reporter |-> e.reporter].case = c
                       /\ FairPlay!Of([case |-> c, type |-> e.type, game |-> e.game, reporter |-> e.reporter]) = e
  BY DEF Clues, ClueRows, FairPlay!Of, FairPlay!Evidence
<1>3. FreshClues(l, c) \subseteq ClueRows
  BY <1>1, <1>2 DEF FreshClues
<1>4. \A x \in FreshClues(l, c) : x.case = c
  BY <1>1, <1>2 DEF FreshClues
<1>5. CluesOf(FreshClues(l, c), c) \subseteq l.signals \ l.old
  BY <1>1, <1>2 DEF FreshClues, CluesOf
<1>6. ASSUME NEW e \in l.signals \ l.old PROVE e \in CluesOf(FreshClues(l, c), c)
  <2> DEFINE x == [case |-> c, type |-> e.type, game |-> e.game, reporter |-> e.reporter]
  <2>1. x \in FreshClues(l, c) /\ x.case = c /\ FairPlay!Of(x) = e
    BY <1>1, <1>2 DEF FreshClues
  <2> HIDE DEF x
  <2> QED BY <2>1 DEF CluesOf
<1> QED BY <1>3, <1>4, <1>5, <1>6

LEMMA CluesAddUp ==
  ASSUME NEW table, NEW more, NEW c
  PROVE  CluesOf(table \cup more, c) = CluesOf(table, c) \cup CluesOf(more, c)
  BY DEF CluesOf

LEMMA RecordStep ==
  ASSUME CasesInv, NEW d \in Desks, ~both => Alone(d), UNCHANGED both, both => Len(cases') <= 1,
         FairPlay!RecordSignals(d)
  PROVE  CasesInv'
<1> DEFINE l == loc[d]
           n == Len(cases)
           c == IF l.found = 0 THEN n + 1 ELSE l.found
           label == IF l.job = Null THEN "enqueue" ELSE "analyze"
           new == [player |-> l.player, status |-> "OPEN", counted |-> l.old \cup l.signals,
                   reviewedBy |-> Null, sanction |-> FALSE]
           old == [cases[c] EXCEPT !.counted = l.old \cup l.signals]
<1>1. /\ pc[d] = "write" /\ UNCHANGED <<appeals, jobs>> /\ FairPlay!Goto(d, label, l)
      /\ signals' = signals \cup FreshClues(l, c)
      /\ cases' = IF l.found = 0 THEN Append(cases, new) ELSE [cases EXCEPT ![c] = old]
  BY DEF FairPlay!RecordSignals, FairPlay!Counted, FreshClues
<1>2. /\ n \in Nat /\ cases \in Seq(CaseRows) /\ signals \in SUBSET ClueRows /\ appeals \in Seq(AppealRows)
      /\ \A k \in 1..n : cases[k] \in CaseRows
      /\ l \in CaseLocals
  BY CasesTypes DEF CasesInv, CaseTypes
<1>3. l.found \in 0..n /\ l.player \in Suspects /\ l.old \subseteq Clues /\ l.signals \subseteq Clues
  BY <1>1, <1>2 DEF CasesInv, DeskKnows, CaseLocals
<1>4. label \in CaseLabels /\ label # "write" /\ label # "record"
  BY DEF CaseLabels
<1>5. c \in Nat /\ (l.found # 0 => c \in 1..n)
  BY <1>2, <1>3
<1>6. /\ new \in CaseRows /\ new.status = "OPEN" /\ new.reviewedBy = Null /\ new.sanction = FALSE
      /\ new.player = l.player /\ new.counted = l.old \cup l.signals
  BY <1>3 DEF CaseRows, CaseStates
<1>7. l.found # 0 => /\ old \in CaseRows /\ old.status = cases[c].status /\ old.reviewedBy = cases[c].reviewedBy
                     /\ old.sanction = cases[c].sanction /\ old.player = cases[c].player
                     /\ old.counted = l.old \cup l.signals
  BY <1>2, <1>3, <1>5 DEF CaseRows
<1> HIDE DEF new, old, label, c
<1>8. /\ cases' \in Seq(CaseRows) /\ Len(cases') >= n /\ c \in 1..Len(cases')
      /\ cases'[c].counted = l.old \cup l.signals
      /\ \A k \in 1..Len(cases') : k # c => k \in 1..n /\ cases'[k].counted = cases[k].counted
      /\ \A k \in 1..n : cases'[k].status = cases[k].status /\ cases'[k].reviewedBy = cases[k].reviewedBy
      /\ CasesJudged' /\ OneOpenCase'
  <2>1. CASE l.found = 0
    <3>1. c = n + 1
      BY <2>1 DEF c
    <3>2. /\ cases' \in Seq(CaseRows) /\ Len(cases') = n + 1 /\ cases'[n + 1] = new
          /\ \A k \in 1..n : cases'[k] = cases[k]
      BY <2>1, <1>1, <1>2, <1>6, AppendProperties
    <3>3. \A k \in 1..n + 1 : k \in 1..n \/ k = n + 1
      BY <1>2
    <3>4. \A k \in 1..n : k \in 1..n + 1 /\ k # n + 1
      BY <1>2
    <3>5. CasesJudged'
      <4>1. \A a \in 1..Len(appeals) : appeals[a].case \in 1..n
        BY DEF CasesInv, CaseTypes
      <4>2. ~ \E a \in 1..Len(appeals) : appeals[a].case = n + 1
        BY <4>1, <3>4
      <4>3. \A k \in 1..n :
         /\ cases'[k].sanction <=> cases'[k].status = "CLOSED_SANCTION"
         /\ cases'[k].status = "OPEN" <=> cases'[k].reviewedBy = Null
         /\ cases'[k].status = "APPEALED" <=> \E a \in 1..Len(appeals) : appeals[a].case = k /\ appeals[a].status = "UPHELD"
        BY <3>2 DEF CasesInv, CasesJudged
      <4>4. /\ cases'[n + 1].sanction <=> cases'[n + 1].status = "CLOSED_SANCTION"
            /\ cases'[n + 1].status = "OPEN" <=> cases'[n + 1].reviewedBy = Null
            /\ cases'[n + 1].status = "APPEALED" <=> \E a \in 1..Len(appeals) : appeals[a].case = n + 1 /\ appeals[a].status = "UPHELD"
        BY <4>2, <3>2, <1>6
      <4>5. \A a \in 1..Len(appeals) :
         /\ cases'[appeals[a].case].status # "OPEN"
         /\ appeals[a].status # "SUBMITTED" =>
              appeals[a].reviewedBy # Null /\ appeals[a].reviewedBy # cases'[appeals[a].case].reviewedBy
        BY <4>1, <3>2 DEF CasesInv, CasesJudged
      <4>6. \A k \in 1..Len(cases') :
       /\ cases'[k].sanction <=> cases'[k].status = "CLOSED_SANCTION"
       /\ cases'[k].status = "OPEN" <=> cases'[k].reviewedBy = Null
       /\ cases'[k].status = "APPEALED" <=> \E a \in 1..Len(appeals) : appeals[a].case = k /\ appeals[a].status = "UPHELD"
        <5> SUFFICES ASSUME NEW k \in 1..Len(cases')
                     PROVE  /\ cases'[k].sanction <=> cases'[k].status = "CLOSED_SANCTION"
                            /\ cases'[k].status = "OPEN" <=> cases'[k].reviewedBy = Null
                            /\ cases'[k].status = "APPEALED" <=> \E a \in 1..Len(appeals) : appeals[a].case = k /\ appeals[a].status = "UPHELD"
          OBVIOUS
        <5>1. k \in 1..n \/ k = n + 1
          BY <3>2, <3>3
        <5> QED BY <5>1, <4>3, <4>4
      <4>7. appeals' = appeals
        BY <1>1
      <4> QED BY <4>5, <4>6, <4>7 DEF CasesJudged
    <3>6. OneOpenCase'
      <4>1. CASE both
        <5>1. n + 1 <= 1
          BY <4>1, <3>2
        <5> QED BY <5>1, <3>2, <1>2 DEF OneOpenCase
      <4>2. CASE ~both
        <5>1. \A k \in 1..n : cases[k].player = l.player => cases[k].status # "OPEN"
          BY <4>2, <1>1, <2>1 DEF CasesInv, ScoresWhole
        <5> QED BY <5>1, <4>2, <3>2, <3>3, <1>6 DEF CasesInv, OneOpenCase
      <4> QED BY <4>1, <4>2
    <3>7. \A k \in 1..n : /\ cases'[k].status = cases[k].status /\ cases'[k].reviewedBy = cases[k].reviewedBy
                          /\ cases'[k].counted = cases[k].counted
      BY <3>2
    <3>8. Len(cases') >= n /\ c \in 1..Len(cases') /\ cases'[c].counted = l.old \cup l.signals
      BY <3>1, <3>2, <1>2, <1>6
    <3>9. \A k \in 1..Len(cases') : k # c => k \in 1..n
      BY <3>1, <3>2, <3>3
    <3> QED BY <3>2, <3>5, <3>6, <3>7, <3>8, <3>9
  <2>2. CASE l.found # 0
    <3>1. /\ cases' \in Seq(CaseRows) /\ Len(cases') = n /\ cases'[c] = old
          /\ \A k \in 1..n : k # c => cases'[k] = cases[k]
      BY <2>2, <1>1, <1>2, <1>5, <1>7, ExceptSeq
    <3>2. \A k \in 1..n : /\ cases'[k].status = cases[k].status /\ cases'[k].reviewedBy = cases[k].reviewedBy
                          /\ cases'[k].sanction = cases[k].sanction /\ cases'[k].player = cases[k].player
                          /\ k # c => cases'[k].counted = cases[k].counted
      BY <2>2, <3>1, <1>7
    <3>3. \A a \in 1..Len(appeals) : appeals[a].case \in 1..n
      BY DEF CasesInv, CaseTypes
    <3>4. CasesJudged'
      BY <3>1, <3>2, <3>3, <1>1 DEF CasesInv, CasesJudged
    <3>5. OneOpenCase'
      BY <3>1, <3>2 DEF CasesInv, OneOpenCase
    <3>6. Len(cases') >= n /\ c \in 1..Len(cases') /\ cases'[c].counted = l.old \cup l.signals
      BY <2>2, <3>1, <1>2, <1>5, <1>7
    <3> QED BY <3>1, <3>2, <3>4, <3>5, <3>6
  <2> QED BY <2>1, <2>2
<1>9. pc'[d] = label /\ loc'[d] = l
  BY <1>1, <1>2, <1>4, SlotMoves DEF CasesInv
<1>10. DeskKnows(d)'
  BY <1>9, CasesAssumption DEF DeskKnows, label
<1>11. JobsHeld' /\ jobs' \in [FairPlay!JobIds -> JobStates]
  BY <1>1, <1>2, <1>4, JobStays DEF JobStates
<1>12. /\ FreshClues(l, c) \subseteq ClueRows /\ \A x \in FreshClues(l, c) : x.case = c
       /\ CluesOf(FreshClues(l, c), c) = l.signals \ l.old
  BY <1>2, <1>5, FreshAreClues
<1>13. signals' \in SUBSET ClueRows /\ \A x \in signals' : x.case \in 1..Len(cases')
  <2>1. \A x \in signals : x.case \in 1..n
    BY DEF CasesInv, CaseTypes
  <2>2. Len(cases') \in Nat
    BY <1>8, LenProperties
  <2>3. \A k \in 1..n : k \in 1..Len(cases')
    BY <1>2, <1>8, <2>2
  <2> QED BY <2>1, <2>3, <1>1, <1>2, <1>8, <1>12
<1>14. \A a \in 1..Len(appeals') : appeals'[a].case \in 1..Len(cases')
  <2>1. \A a \in 1..Len(appeals) : appeals[a].case \in 1..n
    BY DEF CasesInv, CaseTypes
  <2>2. Len(cases') \in Nat
    BY <1>8, LenProperties
  <2> QED BY <2>1, <2>2, <1>1, <1>2, <1>8
<1>15. ASSUME ~both, NEW k \in 1..Len(cases') PROVE cases'[k].counted = FairPlay!SignalsOf(k)'
  <2>1. /\ \A j \in 1..n : cases[j].counted = CluesOf(signals, j)
        /\ l.old = CluesOf(signals, l.found)
    BY <1>1, <1>15 DEF CasesInv, ScoresWhole, FairPlay!SignalsOf, CluesOf
  <2>2. FairPlay!SignalsOf(k)' = CluesOf(signals, k) \cup CluesOf(FreshClues(l, c), k)
    <3>1. FairPlay!SignalsOf(k)' = CluesOf(signals', k)
      BY DEF FairPlay!SignalsOf, CluesOf
    <3> QED BY <3>1, <1>1, CluesAddUp
  <2>3. CASE k # c
    <3>1. CluesOf(FreshClues(l, c), k) = {}
      BY <2>3, <1>12 DEF CluesOf
    <3> QED BY <3>1, <2>1, <2>2, <2>3, <1>8
  <2>4. CASE k = c
    <3>1. CluesOf(signals, c) = l.old
      <4>1. \A x \in signals : x.case # 0 /\ x.case # n + 1
        BY <1>2 DEF CasesInv, CaseTypes
      <4>2. CluesOf(signals, 0) = {} /\ CluesOf(signals, n + 1) = {}
        BY <4>1 DEF CluesOf
      <4> QED BY <4>2, <2>1 DEF c
    <3> QED BY <3>1, <2>2, <2>4, <1>8, <1>12
  <2> QED BY <2>3, <2>4
<1>16. /\ Len(appeals') >= Len(appeals) /\ appeals' \in Seq(AppealRows)
       /\ \A a \in 1..Len(appeals) : appeals'[a].case = appeals[a].case
  BY <1>1, <1>2, CasesTypes DEF CasesInv
<1> HIDE DEF l, n
<1> QED BY <1>1, <1>2, <1>4, <1>8, <1>10, <1>11, <1>13, <1>14, <1>15, <1>16, TableStep DEF n

CasesScene == focus = "fair play" => CasesInv

LEMMA CasesStart ==
  ASSUME FairPlay!Init, both \in BOOLEAN
  PROVE  CasesInv
<1>1. /\ cases = <<>> /\ signals = {} /\ appeals = <<>>
      /\ jobs = [id \in FairPlay!JobIds |-> "none"]
      /\ pc = [s \in Desks |-> "idle"] /\ loc = [s \in Desks |-> FairPlay!Blank]
  BY DEF FairPlay!Init
<1>2. /\ cases \in Seq(CaseRows) /\ appeals \in Seq(AppealRows) /\ Len(cases) = 0 /\ Len(appeals) = 0
  BY <1>1
<1>3. CaseTypes
  BY <1>1, <1>2, BlankLocals DEF CaseTypes
<1>4. JobsHeld
  <2>1. \A k \in FairPlay!JobIds : k # Null
    BY CasesAssumption DEF FairPlay!JobIds
  <2> QED BY <1>1, <2>1, BlankLocals DEF JobsHeld
<1>5. \A s \in Desks : DeskKnows(s)
  BY <1>1, BlankLocals DEF DeskKnows
<1>6. CasesJudged /\ OneOpenCase
  BY <1>2 DEF CasesJudged, OneOpenCase
<1>7. ScoresWhole
  BY <1>1, <1>2 DEF ScoresWhole
<1> QED BY <1>3, <1>4, <1>5, <1>6, <1>7 DEF CasesInv

LEMMA CasesStep ==
  ASSUME CasesInv, UNCHANGED both, FairPlayNext
  PROVE  CasesInv'
<1>1. ASSUME NEW g \in Examined, FairPlay!OnGameFinished(g) PROVE CasesInv'
  BY <1>1, GameOverStep
<1>2. ASSUME NEW id \in FairPlay!JobIds, FairPlay!Evict(id) PROVE CasesInv'
  BY <1>2, EvictStep
<1>3. ASSUME NEW u \in Commission, NEW n \in 1..MaxCases, FairPlay!DecideCase(u, n) PROVE CasesInv'
  <2>1. n \in Nat
    BY <1>3, CasesTypes DEF FairPlay!DecideCase, CasesInv
  <2> QED BY <1>3, <2>1, DecideCaseStep
<1>4. ASSUME NEW n \in 1..MaxCases, FairPlay!WindowCloses(n) PROVE CasesInv'
  BY <1>4, WindowStep
<1>5. ASSUME NEW d \in Desks, FairPlay!Step(d), ~both => Alone(d), both => Len(cases') <= 1
      PROVE  CasesInv'
  <2>1. CASE FairPlay!SubmitReport(d) \/ FairPlay!FindCase(d) \/ FairPlay!RecordSignals(d) \/ FairPlay!EnqueueAnalysis(d)
    BY <1>5, <2>1, ReportStep, FindStep, RecordStep, EnqueueStep
  <2>2. CASE FairPlay!TakeJob(d) \/ FairPlay!AnalyzePlayer(d) \/ FairPlay!CompleteJob(d) \/ FairPlay!Crash(d)
    BY <1>5, <2>2, TakeStep, AnalyzeStep, CompleteStep, CrashStep
  <2>3. CASE FairPlay!SubmitAppeal(d) \/ FairPlay!CreateAppeal(d) \/ FairPlay!BeginDecideAppeal(d) \/ FairPlay!DecideAppeal(d)
    BY <1>5, <2>3, SubmitAppealStep, CreateStep, BeginDecideStep, DecideAppealStep
  <2> QED BY <1>5, <2>1, <2>2, <2>3 DEF FairPlay!Step
<1> QED BY <1>1, <1>2, <1>3, <1>4, <1>5 DEF FairPlayNext

LEMMA CasesStutter ==
  ASSUME CasesInv, UNCHANGED <<both, fairPlay, pc, loc>>
  PROVE  CasesInv'
<1>1. UNCHANGED <<cases, signals, appeals, both, pc, loc, jobs>>
  BY DEF fairPlay
<1>2. JobsHeld' /\ jobs' \in [FairPlay!JobIds -> JobStates]
  BY <1>1 DEF CasesInv, JobsHeld, CaseTypes, JobStates
<1> QED BY <1>1, <1>2, CasesStand DEF JobStates

LEMMA SameCount == ASSUME NEW S PROVE FairPlay!Cardinality(S) = Cardinality(S)
  BY DEF FairPlay!Cardinality, Cardinality

LEMMA CasesAreSound ==
  ASSUME CasesInv
  PROVE  FairPlay!TypeOK /\ FairPlay!JudgedByPeople /\ (~both => FairPlay!OneCaseTellsAll)
<1>1. /\ Len(cases) \in Nat /\ DOMAIN cases = 1..Len(cases) /\ DOMAIN appeals = 1..Len(appeals)
      /\ \A c \in 1..Len(cases) : cases[c] \in CaseRows
      /\ \A a \in 1..Len(appeals) : appeals[a] \in AppealRows
  BY CasesTypes DEF CasesInv
<1>2. FairPlay!TypeOK
  <2>1. \A c \in 1..Len(cases) :
          /\ cases[c].player \in Suspects
          /\ cases[c].status \in {"OPEN", "APPEALED"} \cup FairPlay!Verdicts
          /\ cases[c].reviewedBy \in Commission \cup {Null}
    BY <1>1 DEF CaseRows, CaseStates, FairPlay!Verdicts
  <2> QED BY <1>1, <2>1 DEF FairPlay!TypeOK, CasesInv, CaseTypes, JobsHeld
<1>3. FairPlay!JudgedByPeople
  <2>1. \A a \in 1..Len(appeals) : appeals[a].status \notin FairPlay!Active => appeals[a].status # "SUBMITTED"
    BY DEF FairPlay!Active
  <2> QED BY <1>1, <2>1 DEF FairPlay!JudgedByPeople, CasesInv, CasesJudged
<1>4. ASSUME ~both PROVE FairPlay!OneCaseTellsAll
  <2>1. ASSUME NEW p \in Suspects PROVE Cardinality(FairPlay!OpenCases(p)) <= 1
    <3>1. \A c \in FairPlay!OpenCases(p) : c \in 1..Len(cases) /\ cases[c].player = p /\ cases[c].status = "OPEN"
      BY <1>1 DEF FairPlay!OpenCases, FairPlay!Undecided, CaseRows, CaseStates
    <3>2. \A c, d \in FairPlay!OpenCases(p) : c = d
      BY <3>1 DEF CasesInv, OneOpenCase
    <3>3. CASE FairPlay!OpenCases(p) = {}
      <4>1. Cardinality(FairPlay!OpenCases(p)) = 0
        BY <3>3, FS_EmptySet
      <4> QED BY <4>1
    <3>4. CASE FairPlay!OpenCases(p) # {}
      <4>1. PICK c : FairPlay!OpenCases(p) = {c}
        BY <3>2, <3>4
      <4>2. Cardinality({c}) = 1
        BY FS_Singleton
      <4> QED BY <4>1, <4>2
    <3> QED BY <3>3, <3>4
  <2>2. \A c \in 1..Len(cases) : cases[c].counted = FairPlay!SignalsOf(c)
    BY <1>4 DEF CasesInv, ScoresWhole
  <2> QED BY <1>1, <2>1, <2>2, SameCount DEF FairPlay!OneCaseTellsAll
<1> QED BY <1>2, <1>3, <1>4

\* Whatever machines record and whoever decides at once, a sanction rests on the decision
\* of a person and an appeal is decided by another one; and with one process at a time a
\* player has one open case, whose score is that of all that is said of him in it
\* (recordSignals, decideCase, decideAppeal).
THEOREM CasesAlwaysJudged == MCSpec => []CasesAreJudged
<1>1. MCInit => CasesScene
  BY CasesStart DEF MCInit, GameInit, CasesScene
<1>2. CasesScene /\ [MCNext]_everything => CasesScene'
  <2> SUFFICES ASSUME CasesScene, [MCNext]_everything, focus' = "fair play" PROVE CasesInv'
    BY DEF CasesScene
  <2>1. focus = focus' /\ UNCHANGED both
    BY DEF MCNext, GameNext, EngineNext, NoticesNext, everything
  <2>2. CasesInv
    BY <2>1 DEF CasesScene
  <2>3. CASE GameNext
    BY <2>1, <2>2, <2>3, CasesStep DEF GameNext
  <2>4. CASE EngineNext \/ NoticesNext
    BY <2>1, <2>4 DEF EngineNext, NoticesNext
  <2>5. CASE UNCHANGED everything
    BY <2>2, <2>5, CasesStutter DEF everything
  <2> QED BY <2>3, <2>4, <2>5 DEF MCNext
<1>3. CasesScene => CasesAreJudged
  BY CasesAreSound DEF CasesScene, CasesAreJudged
<1> QED BY <1>1, <1>2, <1>3, PTL DEF MCSpec, everything

-----------------------------------------------------------------------------
(* The page.  What it will show once all that was sent has arrived is the   *)
(* board of the server, or is behind it by what the one handler under way  *)
(* is about to tell.                                                        *)

Times == [whiteMs : Int, blackMs : Int]
Offers == Page!Sides \cup {Null}
Boards == [fen : Nat, moves : Seq(Nat), over : BOOLEAN, offer : Offers,
           clock : Times \cup [gameId : {"g"}, clock : Times]]
Letters ==
  [event : {"ack"}, fen : Nat, moves : Seq(Nat), over : BOOLEAN, offer : Offers] \cup
  [event : {"move_made"}, fen : Nat, san : Nat, clock : Times] \cup
  [event : {"ended"}, finalFen : Nat] \cup
  [event : {"draw_offered"}, from : Offers] \cup
  [event : {"clock_update"}, payload : [gameId : {"g"}, clock : Times]]
Joining == {"row", "log", "offer", "enter", "ack"}
PageLabels == Joining \cup {"idle", "made", "tell", "finished", "announce", "set", "offered"}
PageLocals == [link : Nat, fen : Nat, over : BOOLEAN, moves : Seq(Nat), offer : Offers, ends : BOOLEAN]
Links == [number : Nat, up : BOOLEAN, joined : BOOLEAN]

PageTypes ==
  /\ plies \in 0..MaxPlies /\ ended \in BOOLEAN /\ offer \in Offers
  /\ link \in Links /\ inbox \in Seq(Letters) /\ board \in Boards
  /\ connection \in {"connecting", "open", "syncing", "reconnecting", "offline"}
  /\ smooth \in BOOLEAN
  /\ pc \in [Desks -> PageLabels] /\ loc \in [Desks -> PageLocals]

\* The page shows f after it has taken the letters of the queue q, one after the other.
Leads(q, b, f) ==
  \E bs : /\ bs[1] = b /\ bs[Len(q) + 1] = f
          /\ \A i \in 1..Len(q) : bs[i + 1] = Page!Shown(bs[i], q[i])

HasAck == \E i \in 1..Len(inbox) : inbox[i].event = "ack"
Quiet == \A t \in Desks : pc[t] = "idle"
\* The page has a snapshot of this connection, or will have one.
Fed == connection = "open" \/ HasAck

LinkOK ==
  /\ link.joined => link.up
  /\ inbox # <<>> => link.up
  /\ Fed => link.joined
  /\ \A t \in Desks :
       /\ loc[t].link <= link.number
       /\ pc[t] = "ack" /\ link.up /\ loc[t].link = link.number => link.joined

\* No position is older than the game, whoever has it.
NotAhead(e) == (e.event \in {"ack", "move_made"} => e.fen <= plies) /\ (e.event = "ended" => e.finalFen <= plies)
FensOK ==
  /\ board.fen <= plies
  /\ \A t \in Desks : loc[t].fen <= plies
  /\ \A i \in 1..Len(inbox) : NotAhead(inbox[i])

\* What the one handler under way has done and has still to do.
StageOK(t) ==
  /\ pc[t] \in Joining => connection # "open" /\ (ended => offer = Null)
  /\ pc[t] \in {"log", "offer", "enter", "ack"} => loc[t].fen = plies /\ loc[t].over = ended
  /\ pc[t] \in {"offer", "enter", "ack"} => loc[t].moves = Page!Log(plies)
  /\ pc[t] \in {"enter", "ack"} => loc[t].offer = offer
  /\ pc[t] \in {"made", "tell"} => loc[t].fen = plies /\ plies >= 1 /\ loc[t].ends = ended
  /\ pc[t] \in {"finished", "announce"} => loc[t].fen = plies /\ ended
  /\ pc[t] \in {"tell", "announce"} => offer = Null
  /\ pc[t] \in {"set", "offered"} => ~ended
  /\ pc[t] = "offered" => loc[t].offer = offer

StagesOK ==
  smooth =>
    /\ \A t, u \in Desks : pc[t] # "idle" /\ pc[u] # "idle" => t = u
    /\ \A t \in Desks : StageOK(t)
    /\ Quiet /\ ended => offer = Null
    /\ HasAck => Quiet

Shows(f, n) == f.fen = n /\ f.moves = Page!Log(n)
Fits(f) ==
  /\ Quiet => Shows(f, plies) /\ f.over = ended /\ f.offer = offer
  /\ \A t \in Desks :
       /\ pc[t] \in {"made", "tell"} => Shows(f, plies - 1) /\ ~f.over
       /\ pc[t] \in {"finished", "announce"} => Shows(f, plies)
       /\ pc[t] \in {"set", "offered"} => Shows(f, plies) /\ f.over = ended

Follows == \E f \in Boards : Leads(inbox, board, f) /\ (smooth /\ Fed => Fits(f))

PageInv == PageTypes /\ LinkOK /\ FensOK /\ StagesOK /\ Follows

-----------------------------------------------------------------------------

LEMMA LettersType ==
  ASSUME NEW q \in Seq(Letters)
  PROVE  Len(q) \in Nat /\ \A i \in 1..Len(q) : q[i] \in Letters
  BY LenProperties, ElementOfSeq

\* Every letter is shown in one way.
LEMMA ShownIs ==
  ASSUME NEW b \in Boards, NEW e \in Letters
  PROVE  /\ Page!Shown(b, e) \in Boards
         /\ e.event = "ack" => /\ Page!Shown(b, e).fen = e.fen /\ Page!Shown(b, e).moves = e.moves
                               /\ Page!Shown(b, e).over = e.over /\ Page!Shown(b, e).offer = e.offer
         /\ e.event = "move_made" => /\ Page!Shown(b, e).fen = e.fen
                                     /\ Page!Shown(b, e).moves = Append(b.moves, e.san)
                                     /\ Page!Shown(b, e).over = b.over /\ Page!Shown(b, e).offer = Null
         /\ e.event = "ended" => /\ Page!Shown(b, e).fen = e.finalFen /\ Page!Shown(b, e).moves = b.moves
                                 /\ Page!Shown(b, e).over = TRUE /\ Page!Shown(b, e).offer = Null
         /\ e.event = "draw_offered" => /\ Page!Shown(b, e).fen = b.fen /\ Page!Shown(b, e).moves = b.moves
                                        /\ Page!Shown(b, e).over = b.over /\ Page!Shown(b, e).offer = e.from
         /\ e.event = "clock_update" => /\ Page!Shown(b, e).fen = b.fen /\ Page!Shown(b, e).moves = b.moves
                                        /\ Page!Shown(b, e).over = b.over /\ Page!Shown(b, e).offer = b.offer
<1>1. CASE e.event = "ack"
  <2>1. e \in [event : {"ack"}, fen : Nat, moves : Seq(Nat), over : BOOLEAN, offer : Offers]
    BY <1>1 DEF Letters
  <2>2. Page!Shown(b, e) = Page!FromSnapshot(b, e)
    BY <1>1 DEF Page!Shown
  <2>3. Page!ClockAt(e.fen) \in Times
    BY <2>1 DEF Page!ClockAt, Times
  <2> QED BY <1>1, <2>1, <2>2, <2>3 DEF Page!FromSnapshot, Boards
<1>2. CASE e.event = "move_made"
  <2>1. e \in [event : {"move_made"}, fen : Nat, san : Nat, clock : Times]
    BY <1>2 DEF Letters
  <2>2. Page!Shown(b, e) = [b EXCEPT !.fen = e.fen, !.moves = Append(@, e.san), !.clock = e.clock, !.offer = Null]
    BY <1>2 DEF Page!Shown
  <2>3. Append(b.moves, e.san) \in Seq(Nat)
    BY <2>1, AppendProperties DEF Boards
  <2> QED BY <1>2, <2>1, <2>2, <2>3 DEF Boards, Offers
<1>3. CASE e.event = "ended"
  <2>1. e \in [event : {"ended"}, finalFen : Nat]
    BY <1>3 DEF Letters
  <2>2. Page!Shown(b, e) = [b EXCEPT !.over = TRUE, !.fen = e.finalFen, !.offer = Null]
    BY <1>3 DEF Page!Shown
  <2> QED BY <1>3, <2>1, <2>2 DEF Boards, Offers
<1>4. CASE e.event = "draw_offered"
  <2>1. e \in [event : {"draw_offered"}, from : Offers]
    BY <1>4 DEF Letters
  <2>2. Page!Shown(b, e) = [b EXCEPT !.offer = e.from]
    BY <1>4 DEF Page!Shown
  <2> QED BY <1>4, <2>1, <2>2 DEF Boards
<1>5. CASE e.event = "clock_update"
  <2>1. e \in [event : {"clock_update"}, payload : [gameId : {"g"}, clock : Times]]
    BY <1>5 DEF Letters
  <2>2. Page!Shown(b, e) = [b EXCEPT !.clock = e.payload]
    BY <1>5 DEF Page!Shown
  <2> QED BY <1>5, <2>1, <2>2 DEF Boards
<1> QED BY <1>1, <1>2, <1>3, <1>4, <1>5 DEF Letters

LEMMA NothingLeads == ASSUME NEW b PROVE Leads(<<>>, b, b)
<1> DEFINE bs == [i \in {1} |-> b]
<1>1. bs[1] = b /\ Len(<<>>) = 0
  OBVIOUS
<1> HIDE DEF bs
<1> QED BY <1>1 DEF Leads

LEMMA NothingChanges == ASSUME NEW b, NEW f, Leads(<<>>, b, f) PROVE f = b
  BY DEF Leads

LEMMA OneMoreLeads ==
  ASSUME NEW q \in Seq(Letters), NEW e \in Letters, NEW b, NEW f, Leads(q, b, f)
  PROVE  Leads(Append(q, e), b, Page!Shown(f, e))
<1>1. PICK bs : /\ bs[1] = b /\ bs[Len(q) + 1] = f
                /\ \A i \in 1..Len(q) : bs[i + 1] = Page!Shown(bs[i], q[i])
  BY DEF Leads
<1> DEFINE n == Len(q)
           r == Append(q, e)
           cs == [i \in 1..n + 2 |-> IF i = n + 2 THEN Page!Shown(f, e) ELSE bs[i]]
<1>2. n \in Nat /\ Len(r) = n + 1 /\ r[n + 1] = e /\ \A i \in 1..n : r[i] = q[i]
  BY LenProperties, AppendProperties
<1>3. cs[n + 2] = Page!Shown(f, e) /\ \A i \in 1..n + 1 : cs[i] = bs[i]
  BY <1>2
<1>4. cs[1] = b /\ cs[n + 1] = f
  BY <1>1, <1>2, <1>3
<1> HIDE DEF cs, r
<1>5. \A i \in 1..n : cs[i + 1] = Page!Shown(cs[i], r[i])
  <2> TAKE i \in 1..n
  <2>1. i \in 1..n + 1 /\ i + 1 \in 1..n + 1
    BY <1>2
  <2> QED BY <2>1, <1>1, <1>2, <1>3
<1>6. cs[n + 1 + 1] = Page!Shown(cs[n + 1], r[n + 1])
  <2>1. n + 1 + 1 = n + 2
    BY <1>2
  <2> QED BY <2>1, <1>2, <1>3, <1>4
<1>7. \A i \in 1..n + 1 : i \in 1..n \/ i = n + 1
  BY <1>2
<1>8. \A i \in 1..Len(r) : cs[i + 1] = Page!Shown(cs[i], r[i])
  BY <1>2, <1>5, <1>6, <1>7
<1>9. cs[Len(r) + 1] = Page!Shown(f, e)
  <2>1. n + 1 + 1 = n + 2
    BY <1>2
  <2> QED BY <2>1, <1>2, <1>3
<1> QED BY <1>4, <1>8, <1>9 DEF Leads, r

LEMMA OneLessLeads ==
  ASSUME NEW q \in Seq(Letters), q # <<>>, NEW b, NEW f, Leads(q, b, f)
  PROVE  Leads(Tail(q), Page!Shown(b, Head(q)), f)
<1>1. PICK bs : /\ bs[1] = b /\ bs[Len(q) + 1] = f
                /\ \A i \in 1..Len(q) : bs[i + 1] = Page!Shown(bs[i], q[i])
  BY DEF Leads
<1> DEFINE n == Len(q)
           r == Tail(q)
           cs == [i \in 1..n |-> bs[i + 1]]
<1>2. n \in Nat \ {0} /\ Len(r) = n - 1 /\ Head(q) = q[1] /\ \A i \in 1..n - 1 : r[i] = q[i + 1]
  BY EmptySeq, LenProperties, HeadTailProperties
<1>3. \A i \in 1..n : cs[i] = bs[i + 1]
  OBVIOUS
<1> HIDE DEF cs, r
<1>4. cs[1] = Page!Shown(b, Head(q))
  BY <1>1, <1>2, <1>3
<1>5. cs[Len(r) + 1] = f
  <2>1. n - 1 + 1 = n /\ n \in 1..n
    BY <1>2
  <2> QED BY <2>1, <1>1, <1>2, <1>3
<1>6. \A i \in 1..Len(r) : cs[i + 1] = Page!Shown(cs[i], r[i])
  <2> TAKE i \in 1..Len(r)
  <2>1. i \in 1..n /\ i + 1 \in 1..n /\ i \in 1..n - 1
    BY <1>2
  <2> QED BY <2>1, <1>1, <1>2, <1>3
<1> QED BY <1>4, <1>5, <1>6 DEF Leads, r

\* The log of n moves and one more.
LEMMA LogGrows ==
  ASSUME NEW n \in Nat
  PROVE  /\ Page!Log(n) \in Seq(Nat)
         /\ Append(Page!Log(n), n + 1) = Page!Log(n + 1)
<1>1. Page!Log(n) \in Seq(Nat) /\ Len(Page!Log(n)) = n
  BY DEF Page!Log
<1>2. Page!Log(n + 1) \in Seq(Nat) /\ Len(Page!Log(n + 1)) = n + 1
  BY DEF Page!Log
<1>3. \A i \in 1..n + 1 : Append(Page!Log(n), n + 1)[i] = Page!Log(n + 1)[i]
  <2> TAKE i \in 1..n + 1
  <2>1. CASE i = n + 1
    BY <2>1, <1>1, AppendProperties DEF Page!Log
  <2>2. CASE i # n + 1
    <3>1. i \in 1..n
      BY <2>2
    <3>2. Append(Page!Log(n), n + 1)[i] = Page!Log(n)[i]
      BY <3>1, <1>1, AppendProperties
    <3> QED BY <3>1, <3>2 DEF Page!Log
  <2> QED BY <2>1, <2>2
<1>4. Append(Page!Log(n), n + 1) \in Seq(Nat) /\ Len(Append(Page!Log(n), n + 1)) = n + 1
  BY <1>1, AppendProperties
<1> QED BY <1>1, <1>2, <1>3, <1>4, SeqEqual

LEMMA PageShape ==
  ASSUME PageTypes
  PROVE  /\ plies \in Nat /\ Len(inbox) \in Nat
         /\ \A i \in 1..Len(inbox) : inbox[i] \in Letters
         /\ \A t \in Desks : loc[t] \in PageLocals /\ pc[t] \in PageLabels
         /\ link \in Links /\ link.number \in Nat
  BY BoardAssumption, LettersType DEF PageTypes, Links

LEMMA TaskMoves ==
  ASSUME PageTypes, NEW t \in Desks, NEW label \in PageLabels, NEW l \in PageLocals, Page!Goto(t, label, l)
  PROVE  /\ pc' \in [Desks -> PageLabels] /\ loc' \in [Desks -> PageLocals]
         /\ pc'[t] = label /\ loc'[t] = l
         /\ \A u \in Desks \ {t} : pc'[u] = pc[u] /\ loc'[u] = loc[u]
  BY DEF Page!Goto, PageTypes

\* While all is smooth the task that moves is the only one.
LEMMA OthersRest ==
  ASSUME PageInv, smooth, NEW t \in Desks, pc[t] # "idle" \/ Quiet
  PROVE  \A u \in Desks \ {t} : pc[u] = "idle"
  BY DEF PageInv, StagesOK, Quiet

LEMMA BlankTask ==
  /\ Page!Blank \in PageLocals /\ Page!Blank.link = 0 /\ Page!Blank.fen = 0
<1>1. <<>> \in Seq(Nat)
  OBVIOUS
<1> QED BY <1>1 DEF Page!Blank, PageLocals, Offers

\* What is to be shown of a step of a handler.
LEMMA ServerSteps ==
  ASSUME PageInv, NEW t \in Desks, NEW label \in PageLabels, NEW l \in PageLocals, Page!Goto(t, label, l),
         UNCHANGED <<link, board, connection>>,
         plies' \in 0..MaxPlies, plies' >= plies, ended' \in BOOLEAN, offer' \in Offers, smooth' \in BOOLEAN,
         smooth' => smooth /\ (pc[t] # "idle" \/ Quiet),
         l.link <= link.number, l.fen <= plies', label = "ack" /\ link.up /\ l.link = link.number => link.joined,
         inbox' \in Seq(Letters), HasAck' = HasAck, inbox' # inbox => link.up,
         (\A i \in 1..Len(inbox) : NotAhead(inbox[i]))',
         smooth' => /\ StageOK(t)'
                    /\ HasAck => label = "idle"
                    /\ label = "idle" /\ ended' => offer' = Null,
         \E f \in Boards : Leads(inbox', board, f) /\ (smooth' /\ Fed => Fits(f)')
  PROVE  PageInv'
<1>1. /\ pc' \in [Desks -> PageLabels] /\ loc' \in [Desks -> PageLocals]
      /\ pc'[t] = label /\ loc'[t] = l
      /\ \A u \in Desks \ {t} : pc'[u] = pc[u] /\ loc'[u] = loc[u]
  BY TaskMoves DEF PageInv
<1>2. PageTypes'
  BY <1>1 DEF PageInv, PageTypes
<1>3. Fed' = Fed
  BY DEF Fed
<1>4. LinkOK'
  BY <1>1, <1>3 DEF PageInv, LinkOK
<1>5. FensOK'
  <2>1. board.fen <= plies'
    <3>1. board.fen \in Nat /\ plies \in Nat /\ plies' \in Nat /\ board.fen <= plies
      BY BoardAssumption DEF PageInv, PageTypes, FensOK, Boards
    <3> QED BY <3>1
  <2>2. \A u \in Desks : loc'[u].fen <= plies'
    <3> SUFFICES ASSUME NEW u \in Desks, u # t PROVE loc'[u].fen <= plies'
      BY <1>1
    <3>1. loc[u] \in PageLocals /\ plies \in Nat /\ plies' \in Nat /\ loc[u].fen <= plies
      BY PageShape, BoardAssumption DEF PageInv, FensOK
    <3>2. loc[u].fen \in Nat
      BY <3>1 DEF PageLocals
    <3> QED BY <3>1, <3>2, <1>1
  <2> QED BY <2>1, <2>2 DEF FensOK
<1>6. StagesOK'
  <2> SUFFICES ASSUME smooth' PROVE StagesOK'
    BY DEF StagesOK
  <2>1. \A u \in Desks \ {t} : pc'[u] = "idle"
    BY <1>1, OthersRest
  <2>2. \A u \in Desks : StageOK(u)'
    <3> SUFFICES ASSUME NEW u \in Desks, u # t PROVE StageOK(u)'
      OBVIOUS
    <3>1. pc'[u] = "idle"
      BY <2>1
    <3> QED BY <3>1 DEF StageOK, Joining
  <2>3. \A u, v \in Desks : pc'[u] # "idle" /\ pc'[v] # "idle" => u = v
    BY <2>1
  <2>4. Quiet' <=> label = "idle"
    BY <2>1, <1>1 DEF Quiet
  <2> QED BY <2>2, <2>3, <2>4 DEF StagesOK
<1>7. Follows'
  BY <1>3 DEF Follows
<1> QED BY <1>2, <1>4, <1>5, <1>6, <1>7 DEF PageInv

\* The same, of a step that sends nothing.
LEMMA ServerThinks ==
  ASSUME PageInv, NEW t \in Desks, NEW label \in PageLabels, NEW l \in PageLocals, Page!Goto(t, label, l),
         UNCHANGED <<link, inbox, board, connection>>,
         plies' \in 0..MaxPlies, plies' >= plies, ended' \in BOOLEAN, offer' \in Offers, smooth' \in BOOLEAN,
         smooth' => smooth /\ (pc[t] # "idle" \/ Quiet),
         l.link <= link.number, l.fen <= plies', label = "ack" /\ link.up /\ l.link = link.number => link.joined,
         smooth' => /\ StageOK(t)'
                    /\ HasAck => label = "idle"
                    /\ label = "idle" /\ ended' => offer' = Null,
         ASSUME NEW f \in Boards, smooth', Fed, Fits(f) PROVE Fits(f)'
  PROVE  PageInv'
<1>1. HasAck' = HasAck
  BY DEF HasAck
<1>2. (\A i \in 1..Len(inbox) : NotAhead(inbox[i]))'
  <2> SUFFICES ASSUME NEW i \in 1..Len(inbox') PROVE NotAhead(inbox[i])'
    OBVIOUS
  <2>0. inbox' = inbox /\ i \in 1..Len(inbox)
    OBVIOUS
  <2>1. inbox[i] \in Letters /\ NotAhead(inbox[i]) /\ plies \in Nat /\ plies' \in Nat /\ plies' >= plies
    BY <2>0, PageShape, BoardAssumption DEF PageInv, FensOK
  <2>2. \A k \in Nat : k <= plies => k <= plies'
    <3>1. plies \in Nat /\ plies' \in Nat /\ plies' >= plies
      BY <2>1
    <3> QED BY <3>1
  <2>3. /\ inbox[i].event \in {"ack", "move_made"} => inbox[i].fen \in Nat
        /\ inbox[i].event = "ended" => inbox[i].finalFen \in Nat
    BY <2>1 DEF Letters
  <2> QED BY <2>0, <2>1, <2>2, <2>3 DEF NotAhead
<1>3. PICK f \in Boards : Leads(inbox, board, f) /\ (smooth /\ Fed => Fits(f))
  BY DEF PageInv, Follows
<1>4. Leads(inbox', board, f) /\ (smooth' /\ Fed => Fits(f)')
  BY <1>3
<1>5. inbox' \in Seq(Letters)
  BY DEF PageInv, PageTypes
<1> QED BY <1>1, <1>2, <1>4, <1>5, ServerSteps

\* A handler that joins reads what is there, and the page is not fed meanwhile.
LEMMA NobodyIsFed ==
  ASSUME PageInv, smooth, NEW t \in Desks, pc[t] \in Joining
  PROVE  ~Fed /\ ~HasAck
  BY DEF PageInv, StagesOK, StageOK, Quiet, Fed, Joining

LEMMA FindGameStep ==
  ASSUME PageInv, NEW t \in Desks, Page!FindGame(t)
  PROVE  PageInv'
<1> DEFINE l == [loc[t] EXCEPT !.fen = plies, !.over = ended]
<1>1. /\ pc[t] = "row" /\ Page!Goto(t, "log", l)
      /\ UNCHANGED <<plies, ended, offer, link, inbox, board, connection, smooth>>
  BY DEF Page!FindGame, Page!game, Page!page
<1>2. /\ plies \in 0..MaxPlies /\ plies \in Nat /\ ended \in BOOLEAN /\ offer \in Offers /\ smooth \in BOOLEAN
      /\ loc[t] \in PageLocals /\ loc[t].link <= link.number
  BY PageShape DEF PageInv, PageTypes, LinkOK
<1>3. l \in PageLocals /\ l.link = loc[t].link /\ l.fen = plies /\ l.over = ended
  BY <1>2 DEF PageLocals
<1>4. "log" \in PageLabels
  BY DEF PageLabels, Joining
<1> HIDE DEF l
<1>5. pc'[t] = "log" /\ loc'[t] = l
  BY <1>1, <1>3, <1>4, TaskMoves DEF PageInv
<1>6. smooth => ~Fed /\ ~HasAck
  BY <1>1, NobodyIsFed DEF Joining
<1>7. smooth => StageOK(t)'
  BY <1>1, <1>3, <1>5 DEF PageInv, StagesOK, StageOK, Joining
<1>8. plies' >= plies /\ l.fen <= plies' /\ l.link <= link.number
  BY <1>1, <1>2, <1>3
<1> QED BY <1>1, <1>2, <1>3, <1>4, <1>6, <1>7, <1>8, ServerThinks

LEMMA ListMovesStep ==
  ASSUME PageInv, NEW t \in Desks, Page!ListMoves(t)
  PROVE  PageInv'
<1> DEFINE l == [loc[t] EXCEPT !.moves = Page!Log(plies)]
<1>1. /\ pc[t] = "log" /\ Page!Goto(t, "offer", l)
      /\ UNCHANGED <<plies, ended, offer, link, inbox, board, connection, smooth>>
  BY DEF Page!ListMoves, Page!game, Page!page
<1>2. /\ plies \in 0..MaxPlies /\ plies \in Nat /\ ended \in BOOLEAN /\ offer \in Offers /\ smooth \in BOOLEAN
      /\ loc[t] \in PageLocals /\ loc[t].link <= link.number /\ loc[t].fen <= plies
      /\ Page!Log(plies) \in Seq(Nat)
  BY PageShape, LogGrows DEF PageInv, PageTypes, LinkOK, FensOK
<1>3. l \in PageLocals /\ l.link = loc[t].link /\ l.fen = loc[t].fen /\ l.over = loc[t].over /\ l.moves = Page!Log(plies)
  BY <1>2 DEF PageLocals
<1>4. "offer" \in PageLabels
  BY DEF PageLabels, Joining
<1> HIDE DEF l
<1>5. pc'[t] = "offer" /\ loc'[t] = l
  BY <1>1, <1>3, <1>4, TaskMoves DEF PageInv
<1>6. smooth => ~Fed /\ ~HasAck
  BY <1>1, NobodyIsFed DEF Joining
<1>7. smooth => StageOK(t)'
  <2>1. Page!Log(plies)' = Page!Log(plies)
    BY <1>1 DEF Page!Log
  <2> QED BY <2>1, <1>1, <1>3, <1>5 DEF PageInv, StagesOK, StageOK, Joining
<1>8. plies' >= plies /\ l.fen <= plies' /\ l.link <= link.number
  BY <1>1, <1>2, <1>3
<1> QED BY <1>1, <1>2, <1>3, <1>4, <1>6, <1>7, <1>8, ServerThinks

LEMMA GetOfferStep ==
  ASSUME PageInv, NEW t \in Desks, Page!GetDrawOffer(t)
  PROVE  PageInv'
<1> DEFINE l == [loc[t] EXCEPT !.offer = IF loc[t].over THEN Null ELSE offer]
<1>1. /\ pc[t] = "offer" /\ Page!Goto(t, "enter", l)
      /\ UNCHANGED <<plies, ended, offer, link, inbox, board, connection, smooth>>
  BY DEF Page!GetDrawOffer, Page!game, Page!page
<1>2. /\ plies \in 0..MaxPlies /\ plies \in Nat /\ ended \in BOOLEAN /\ offer \in Offers /\ smooth \in BOOLEAN
      /\ loc[t] \in PageLocals /\ loc[t].link <= link.number /\ loc[t].fen <= plies
  BY PageShape DEF PageInv, PageTypes, LinkOK, FensOK
<1>3. /\ l \in PageLocals /\ l.link = loc[t].link /\ l.fen = loc[t].fen /\ l.over = loc[t].over
      /\ l.moves = loc[t].moves /\ l.offer = IF loc[t].over THEN Null ELSE offer
  BY <1>2 DEF PageLocals, Offers
<1>4. "enter" \in PageLabels
  BY DEF PageLabels, Joining
<1> HIDE DEF l
<1>5. pc'[t] = "enter" /\ loc'[t] = l
  BY <1>1, <1>3, <1>4, TaskMoves DEF PageInv
<1>6. smooth => ~Fed /\ ~HasAck
  BY <1>1, NobodyIsFed DEF Joining
<1>7. smooth => StageOK(t)'
  <2>1. Page!Log(plies)' = Page!Log(plies)
    BY <1>1 DEF Page!Log
  <2> QED BY <2>1, <1>1, <1>3, <1>5 DEF PageInv, StagesOK, StageOK, Joining
<1>8. plies' >= plies /\ l.fen <= plies' /\ l.link <= link.number
  BY <1>1, <1>2, <1>3
<1> QED BY <1>1, <1>2, <1>3, <1>4, <1>6, <1>7, <1>8, ServerThinks

\* Who begins while all is smooth begins alone.
LEMMA BeginsAlone ==
  ASSUME PageTypes, NEW t \in Desks, NEW label, NEW l, Page!Begin(t, label, l)
  PROVE  /\ pc[t] = "idle" /\ Page!Goto(t, label, l) /\ smooth' \in BOOLEAN
         /\ smooth' => smooth /\ Quiet /\ ~HasAck
<1> QED BY DEF Page!Begin, PageTypes, Quiet, HasAck

LEMMA BeginMoveStep ==
  ASSUME PageInv, NEW t \in Desks, Page!BeginMove(t)
  PROVE  PageInv'
<1>1. PICK ends \in BOOLEAN :
        /\ ended' = ends
        /\ Page!Begin(t, "made", [Page!Blank EXCEPT !.fen = plies + 1, !.ends = ends])
  BY DEF Page!BeginMove
<1> DEFINE l == [Page!Blank EXCEPT !.fen = plies + 1, !.ends = ends]
<1>2. /\ ~ended /\ plies < MaxPlies /\ plies' = plies + 1
      /\ UNCHANGED <<offer, link, inbox, board, connection>>
  BY DEF Page!BeginMove, Page!page
<1>3. /\ plies \in Nat /\ plies' \in 0..MaxPlies /\ plies' >= plies /\ offer \in Offers /\ link.number \in Nat
      /\ plies' \in Nat /\ plies' >= 1 /\ plies' - 1 = plies
  BY <1>2, PageShape, BoardAssumption DEF PageInv, PageTypes
<1>4. l \in PageLocals /\ l.link = 0 /\ l.fen = plies' /\ l.ends = ends
  BY <1>2, <1>3, BlankTask DEF PageLocals
<1> HIDE DEF l
<1>5. /\ Page!Goto(t, "made", l) /\ smooth' \in BOOLEAN
      /\ smooth' => smooth /\ Quiet /\ ~HasAck
  BY <1>1, BeginsAlone DEF PageInv, l
<1>6. "made" \in PageLabels
  BY DEF PageLabels, Joining
<1>7. pc'[t] = "made" /\ loc'[t] = l /\ \A u \in Desks \ {t} : pc'[u] = pc[u]
  BY <1>4, <1>5, <1>6, TaskMoves DEF PageInv
<1>8. StageOK(t)'
  BY <1>1, <1>3, <1>4, <1>7 DEF StageOK, Joining
<1>9. ASSUME NEW f \in Boards, smooth', Fed, Fits(f) PROVE Fits(f)'
  <2>1. Shows(f, plies) /\ ~f.over
    BY <1>2, <1>5, <1>9 DEF Fits, Boards
  <2>2. Shows(f, plies' - 1)
    BY <2>1, <1>3
  <2>3. \A u \in Desks : pc'[u] = "idle" \/ pc'[u] = "made"
    BY <1>5, <1>7, <1>9 DEF Quiet
  <2>4. ~Quiet'
    BY <1>7 DEF Quiet
  <2>5. Shows(f, plies - 1)' <=> Shows(f, plies' - 1)
    BY DEF Shows, Page!Log
  <2> QED BY <2>1, <2>2, <2>3, <2>4, <2>5 DEF Fits
<1>10. l.link <= link.number /\ l.fen <= plies'
  BY <1>3, <1>4
<1> QED BY <1>1, <1>2, <1>3, <1>4, <1>5, <1>6, <1>8, <1>9, <1>10, ServerThinks

\* What a handler under way may rely on while all is smooth.
LEMMA Stage ==
  ASSUME PageInv, smooth, NEW t \in Desks
  PROVE  StageOK(t)
  BY DEF PageInv, StagesOK

\* A busy handler hears of no snapshot.
LEMMA BusyUnacked ==
  ASSUME PageInv, smooth, NEW t \in Desks, pc[t] # "idle"
  PROVE  ~HasAck
  BY DEF PageInv, StagesOK, Quiet

LEMMA SamePlies ==
  ASSUME UNCHANGED plies, NEW f
  PROVE  /\ Shows(f, plies)' <=> Shows(f, plies)
         /\ Shows(f, plies - 1)' <=> Shows(f, plies - 1)
  BY DEF Shows, Page!Log

\* A handler that changes the offer, and goes on.
LEMMA OfferSteps ==
  ASSUME PageInv, NEW t \in Desks, NEW label \in PageLabels, Page!Goto(t, label, loc[t]),
         UNCHANGED <<plies, ended, link, inbox, board, connection, smooth>>,
         \/ pc[t] = "made" /\ label = "tell" /\ offer' = Null
         \/ pc[t] = "finished" /\ label = "announce" /\ offer' = Null
         \/ pc[t] = "set" /\ label = "offered" /\ offer' = loc[t].offer
  PROVE  PageInv'
<1>1. /\ plies \in 0..MaxPlies /\ plies \in Nat /\ ended \in BOOLEAN /\ smooth \in BOOLEAN
      /\ loc[t] \in PageLocals /\ loc[t].link <= link.number /\ loc[t].fen <= plies
  BY PageShape DEF PageInv, PageTypes, LinkOK, FensOK
<1>2. offer' \in Offers
  BY <1>1 DEF PageLocals, Offers
<1>3. pc'[t] = label /\ loc'[t] = loc[t] /\ \A u \in Desks \ {t} : pc'[u] = pc[u]
  BY <1>1, TaskMoves DEF PageInv
<1>4. pc[t] # "idle"
  OBVIOUS
<1>5. smooth => StageOK(t)'
  <2> SUFFICES ASSUME smooth PROVE StageOK(t)'
    OBVIOUS
  <2>1. StageOK(t)
    BY Stage
  <2> QED BY <2>1, <1>3 DEF StageOK, Joining
<1>6. ASSUME NEW f \in Boards, smooth', Fed, Fits(f) PROVE Fits(f)'
  <2>1. smooth
    BY <1>6
  <2>2. \A u \in Desks \ {t} : pc'[u] = "idle"
    BY <2>1, <1>3, <1>4, OthersRest
  <2>3. ~Quiet'
    BY <1>3 DEF Quiet
  <2>4. /\ pc[t] = "made" => Shows(f, plies - 1) /\ ~f.over
        /\ pc[t] = "finished" => Shows(f, plies)
        /\ pc[t] = "set" => Shows(f, plies) /\ f.over = ended
    BY <1>6 DEF Fits
  <2>5. /\ label = "tell" => Shows(f, plies - 1)' /\ ~f.over
        /\ label = "announce" => Shows(f, plies)'
        /\ label = "offered" => Shows(f, plies)' /\ f.over = ended'
    BY <2>4, SamePlies
  <2>6. \A u \in Desks :
       /\ pc'[u] \in {"made", "tell"} => Shows(f, plies - 1)' /\ ~f.over
       /\ pc'[u] \in {"finished", "announce"} => Shows(f, plies)'
       /\ pc'[u] \in {"set", "offered"} => Shows(f, plies)' /\ f.over = ended'
    BY <2>2, <2>5, <1>3
  <2> QED BY <2>3, <2>6 DEF Fits
<1>7. smooth => ~HasAck
  BY <1>4, BusyUnacked
<1>8. plies' >= plies /\ loc[t].fen <= plies' /\ label # "ack" /\ label # "idle"
  BY <1>1
<1> QED BY <1>1, <1>2, <1>4, <1>5, <1>6, <1>7, <1>8, ServerThinks

LEMMA BeginEndStep ==
  ASSUME PageInv, NEW t \in Desks, Page!BeginEnd(t)
  PROVE  PageInv'
<1> DEFINE l == [Page!Blank EXCEPT !.fen = plies]
<1>1. /\ ~ended /\ ended' = TRUE /\ Page!Begin(t, "finished", l)
      /\ UNCHANGED <<plies, offer, link, inbox, board, connection>>
  BY DEF Page!BeginEnd, Page!page
<1>2. /\ plies \in Nat /\ plies \in 0..MaxPlies /\ offer \in Offers /\ link.number \in Nat
  BY PageShape DEF PageInv, PageTypes
<1>3. l \in PageLocals /\ l.link = 0 /\ l.fen = plies
  BY <1>2, BlankTask DEF PageLocals
<1> HIDE DEF l
<1>4. /\ Page!Goto(t, "finished", l) /\ smooth' \in BOOLEAN
      /\ smooth' => smooth /\ Quiet /\ ~HasAck
  BY <1>1, BeginsAlone DEF PageInv
<1>5. "finished" \in PageLabels
  BY DEF PageLabels, Joining
<1>6. pc'[t] = "finished" /\ loc'[t] = l /\ \A u \in Desks \ {t} : pc'[u] = pc[u]
  BY <1>3, <1>4, <1>5, TaskMoves DEF PageInv
<1>7. StageOK(t)'
  BY <1>1, <1>3, <1>6 DEF StageOK, Joining
<1>8. ASSUME NEW f \in Boards, smooth', Fed, Fits(f) PROVE Fits(f)'
  <2>1. Shows(f, plies)'
    BY <1>1, <1>4, <1>8, SamePlies DEF Fits
  <2>2. \A u \in Desks : pc'[u] = "idle" \/ pc'[u] = "finished"
    BY <1>4, <1>6, <1>8 DEF Quiet
  <2>3. ~Quiet'
    BY <1>6 DEF Quiet
  <2> QED BY <2>1, <2>2, <2>3 DEF Fits
<1>9. l.link <= link.number /\ l.fen <= plies' /\ plies' >= plies
  BY <1>1, <1>2, <1>3
<1> QED BY <1>1, <1>2, <1>3, <1>4, <1>5, <1>7, <1>8, <1>9, ServerThinks

LEMMA BeginOfferStep ==
  ASSUME PageInv, NEW t \in Desks, NEW side \in Page!Sides, Page!BeginOffer(t, side)
  PROVE  PageInv'
<1> DEFINE l == [Page!Blank EXCEPT !.offer = side]
<1>1. /\ ~ended /\ Page!Begin(t, "set", l)
      /\ UNCHANGED <<plies, ended, offer, link, inbox, board, connection>>
  BY DEF Page!BeginOffer, Page!page, Page!game
<1>2. /\ plies \in Nat /\ plies \in 0..MaxPlies /\ offer \in Offers /\ link.number \in Nat /\ ended \in BOOLEAN
  BY PageShape DEF PageInv, PageTypes
<1>3. l \in PageLocals /\ l.link = 0 /\ l.fen = 0
  BY <1>2, BlankTask DEF PageLocals, Offers
<1> HIDE DEF l
<1>4. /\ Page!Goto(t, "set", l) /\ smooth' \in BOOLEAN
      /\ smooth' => smooth /\ Quiet /\ ~HasAck
  BY <1>1, BeginsAlone DEF PageInv
<1>5. "set" \in PageLabels
  BY DEF PageLabels, Joining
<1>6. pc'[t] = "set" /\ loc'[t] = l /\ \A u \in Desks \ {t} : pc'[u] = pc[u]
  BY <1>3, <1>4, <1>5, TaskMoves DEF PageInv
<1>7. StageOK(t)'
  BY <1>1, <1>3, <1>6 DEF StageOK, Joining
<1>8. ASSUME NEW f \in Boards, smooth', Fed, Fits(f) PROVE Fits(f)'
  <2>1. Shows(f, plies)' /\ f.over = ended'
    BY <1>1, <1>4, <1>8, SamePlies DEF Fits
  <2>2. \A u \in Desks : pc'[u] = "idle" \/ pc'[u] = "set"
    BY <1>4, <1>6, <1>8 DEF Quiet
  <2>3. ~Quiet'
    BY <1>6 DEF Quiet
  <2> QED BY <2>1, <2>2, <2>3 DEF Fits
<1>9. l.link <= link.number /\ l.fen <= plies' /\ plies' >= plies
  BY <1>1, <1>2, <1>3
<1> QED BY <1>1, <1>2, <1>3, <1>4, <1>5, <1>7, <1>8, <1>9, ServerThinks

AckIn(q) == \E i \in 1..Len(q) : q[i].event = "ack"
NoneAhead(q) == \A i \in 1..Len(q) : NotAhead(q[i])

LEMMA QueueGrows ==
  ASSUME NEW q \in Seq(Letters), NEW e \in Letters
  PROVE  /\ Append(q, e) \in Seq(Letters) /\ Append(q, e) = q \o <<e>>
         /\ AckIn(Append(q, e)) <=> AckIn(q) \/ e.event = "ack"
         /\ NoneAhead(q) /\ NotAhead(e) => NoneAhead(Append(q, e))
<1> DEFINE n == Len(q)
           r == Append(q, e)
<1>1. n \in Nat /\ r \in Seq(Letters) /\ Len(r) = n + 1 /\ r[n + 1] = e /\ \A i \in 1..n : r[i] = q[i]
  BY LenProperties, AppendProperties
<1>2. r = q \o <<e>>
  BY AppendIsConcat
<1> HIDE DEF r
<1>3. \A i \in 1..n + 1 : i \in 1..n \/ i = n + 1
  BY <1>1
<1>4. n + 1 \in 1..n + 1 /\ \A i \in 1..n : i \in 1..n + 1
  BY <1>1
<1>5. AckIn(r) <=> AckIn(q) \/ e.event = "ack"
  BY <1>1, <1>3, <1>4 DEF AckIn
<1>6. NoneAhead(q) /\ NotAhead(e) => NoneAhead(r)
  BY <1>1, <1>3 DEF NoneAhead
<1> QED BY <1>1, <1>2, <1>5, <1>6 DEF r

\* A handler that tells the room and is done.
LEMMA TellsTheRoom ==
  ASSUME PageInv, NEW t \in Desks, pc[t] # "idle", Page!Reply(t),
         UNCHANGED <<plies, ended, offer, link, board, connection>>,
         inbox' \in Seq(Letters), AckIn(inbox') <=> HasAck, NoneAhead(inbox'), inbox' # inbox => link.up,
         smooth /\ ended => offer = Null,
         \E f \in Boards : /\ Leads(inbox', board, f)
                           /\ smooth /\ Fed => Shows(f, plies) /\ f.over = ended /\ f.offer = offer
  PROVE  PageInv'
<1>1. /\ Page!Goto(t, "idle", Page!Blank) /\ UNCHANGED smooth
  BY DEF Page!Reply
<1>2. "idle" \in PageLabels
  BY DEF PageLabels
<1>3. pc'[t] = "idle" /\ loc'[t] = Page!Blank
  BY <1>1, <1>2, BlankTask, TaskMoves DEF PageInv
<1>4. StageOK(t)'
  BY <1>3 DEF StageOK, Joining
<1>5. HasAck' = HasAck
  BY DEF AckIn, HasAck
<1>6. (\A i \in 1..Len(inbox) : NotAhead(inbox[i]))'
  BY DEF NoneAhead, NotAhead
<1>7. PICK f \in Boards : /\ Leads(inbox', board, f)
                          /\ smooth /\ Fed => Shows(f, plies) /\ f.over = ended /\ f.offer = offer
  OBVIOUS
<1>8. ASSUME smooth', Fed PROVE Fits(f)'
  <2>1. Shows(f, plies)' /\ f.over = ended' /\ f.offer = offer'
    BY <1>1, <1>7, <1>8, SamePlies
  <2>2. \A u \in Desks : pc'[u] = "idle"
    <3>1. smooth /\ \A u \in Desks \ {t} : pc'[u] = pc[u]
      BY <1>1, <1>2, <1>8, BlankTask, TaskMoves DEF PageInv
    <3> QED BY <3>1, <1>3, OthersRest
  <2> QED BY <2>1, <2>2 DEF Fits
<1>9. /\ plies \in Nat /\ plies \in 0..MaxPlies /\ ended \in BOOLEAN /\ offer \in Offers /\ smooth \in BOOLEAN
      /\ link.number \in Nat
  BY PageShape DEF PageInv, PageTypes
<1>10. /\ plies' >= plies /\ Page!Blank.link <= link.number /\ Page!Blank.fen <= plies'
  BY <1>9, BlankTask
<1>11. smooth' => /\ StageOK(t)'
                  /\ HasAck => "idle" = "idle"
                  /\ "idle" = "idle" /\ ended' => offer' = Null
  BY <1>1, <1>4
<1>12. \E g \in Boards : Leads(inbox', board, g) /\ (smooth' /\ Fed => Fits(g)')
  BY <1>7, <1>8
<1> QED BY <1>1, <1>2, <1>5, <1>6, <1>9, <1>10, <1>11, <1>12, BlankTask, ServerSteps

\* The queue as one letter to the room leaves it, and what it leads to.
LEMMA RoomHears ==
  ASSUME PageInv, NEW e \in Letters, e.event # "ack", NotAhead(e), UNCHANGED plies,
         inbox' = IF link.up /\ link.joined THEN Append(inbox, e) ELSE inbox
  PROVE  /\ inbox' \in Seq(Letters)
         /\ AckIn(inbox') <=> HasAck
         /\ NoneAhead(inbox')
         /\ inbox' # inbox => link.up
         /\ Fed => inbox' = Append(inbox, e)
<1>1. inbox \in Seq(Letters) /\ NoneAhead(inbox) /\ (AckIn(inbox) <=> HasAck)
  BY DEF PageInv, PageTypes, FensOK, NoneAhead, AckIn, HasAck
<1>2. /\ Append(inbox, e) \in Seq(Letters) /\ AckIn(Append(inbox, e)) <=> HasAck
      /\ NoneAhead(Append(inbox, e))
  BY <1>1, QueueGrows
<1>3. Fed => link.up /\ link.joined
  BY DEF PageInv, LinkOK
<1> QED BY <1>1, <1>2, <1>3

LEMMA BroadcastOfferStep ==
  ASSUME PageInv, NEW t \in Desks, Page!BroadcastOffer(t)
  PROVE  PageInv'
<1> DEFINE e == [event |-> "draw_offered", from |-> loc[t].offer]
<1>1. /\ pc[t] = "offered" /\ inbox' = Page!ToRoom(<<e>>) /\ Page!Reply(t)
      /\ UNCHANGED <<plies, ended, offer, link, board, connection>>
  BY DEF Page!BroadcastOffer, Page!game, Page!page
<1>2. inbox \in Seq(Letters) /\ loc[t] \in PageLocals /\ board \in Boards
  BY PageShape DEF PageInv, PageTypes
<1>3. e \in Letters /\ e.event = "draw_offered" /\ e.from = loc[t].offer
  BY <1>2 DEF Letters, PageLocals
<1> HIDE DEF e
<1>4. inbox' = IF link.up /\ link.joined THEN Append(inbox, e) ELSE inbox
  BY <1>1, <1>2, <1>3, QueueGrows DEF Page!ToRoom
<1>5. NotAhead(e)
  BY <1>3 DEF NotAhead
<1>6. PICK f \in Boards : Leads(inbox, board, f) /\ (smooth /\ Fed => Fits(f))
  BY DEF PageInv, Follows
<1>7. smooth => ~ended /\ loc[t].offer = offer
  BY <1>1, Stage DEF StageOK
<1>8. \E g \in Boards : /\ Leads(inbox', board, g)
                        /\ smooth /\ Fed => Shows(g, plies) /\ g.over = ended /\ g.offer = offer
  <2>1. CASE link.up /\ link.joined
    <3>1. Leads(inbox', board, Page!Shown(f, e))
      BY <2>1, <1>2, <1>3, <1>4, <1>6, OneMoreLeads
    <3>2. smooth /\ Fed => Shows(f, plies) /\ f.over = ended
      BY <1>1, <1>6 DEF Fits
    <3>3. smooth /\ Fed => /\ Shows(Page!Shown(f, e), plies) /\ Page!Shown(f, e).over = ended
                           /\ Page!Shown(f, e).offer = offer
      BY <3>2, <1>3, <1>7, ShownIs DEF Shows
    <3> QED BY <3>1, <3>3, <1>3, ShownIs
  <2>2. CASE ~(link.up /\ link.joined)
    <3>1. ~Fed
      BY <2>2 DEF PageInv, LinkOK
    <3> QED BY <2>2, <3>1, <1>4, <1>6
  <2> QED BY <2>1, <2>2
<1>9. /\ inbox' \in Seq(Letters) /\ (AckIn(inbox') <=> HasAck)
      /\ NoneAhead(inbox') /\ (inbox' # inbox => link.up)
  BY <1>1, <1>3, <1>4, <1>5, RoomHears
<1> QED BY <1>1, <1>7, <1>8, <1>9, TellsTheRoom

LEMMA AnnounceStep ==
  ASSUME PageInv, NEW t \in Desks, Page!AnnounceEnd(t)
  PROVE  PageInv'
<1> DEFINE e == Page!Ended(loc[t].fen)
<1>1. /\ pc[t] = "announce" /\ inbox' = Page!ToRoom(<<e>>) /\ Page!Reply(t)
      /\ UNCHANGED <<plies, ended, offer, link, board, connection>>
  BY DEF Page!AnnounceEnd, Page!game, Page!page
<1>2. inbox \in Seq(Letters) /\ loc[t] \in PageLocals /\ board \in Boards /\ loc[t].fen <= plies
  BY PageShape DEF PageInv, PageTypes, FensOK
<1>3. e \in Letters /\ e.event = "ended" /\ e.finalFen = loc[t].fen
  BY <1>2 DEF Letters, PageLocals, Page!Ended
<1> HIDE DEF e
<1>4. inbox' = IF link.up /\ link.joined THEN Append(inbox, e) ELSE inbox
  BY <1>1, <1>2, <1>3, QueueGrows DEF Page!ToRoom
<1>5. NotAhead(e)
  BY <1>2, <1>3 DEF NotAhead
<1>6. PICK f \in Boards : Leads(inbox, board, f) /\ (smooth /\ Fed => Fits(f))
  BY DEF PageInv, Follows
<1>7. smooth => ended /\ offer = Null /\ loc[t].fen = plies
  BY <1>1, Stage DEF StageOK
<1>8. \E g \in Boards : /\ Leads(inbox', board, g)
                        /\ smooth /\ Fed => Shows(g, plies) /\ g.over = ended /\ g.offer = offer
  <2>1. CASE link.up /\ link.joined
    <3>1. Leads(inbox', board, Page!Shown(f, e))
      BY <2>1, <1>2, <1>3, <1>4, <1>6, OneMoreLeads
    <3>2. smooth /\ Fed => Shows(f, plies)
      BY <1>1, <1>6 DEF Fits
    <3>3. smooth /\ Fed => /\ Shows(Page!Shown(f, e), plies) /\ Page!Shown(f, e).over = TRUE
                           /\ Page!Shown(f, e).offer = Null
      BY <3>2, <1>3, <1>7, ShownIs DEF Shows
    <3>4. ended \in BOOLEAN
      BY DEF PageInv, PageTypes
    <3>5. smooth /\ Fed => /\ Shows(Page!Shown(f, e), plies) /\ Page!Shown(f, e).over = ended
                           /\ Page!Shown(f, e).offer = offer
      BY <3>3, <3>4, <1>7
    <3> QED BY <3>1, <3>5, <1>3, ShownIs
  <2>2. CASE ~(link.up /\ link.joined)
    <3>1. ~Fed
      BY <2>2 DEF PageInv, LinkOK
    <3> QED BY <2>2, <3>1, <1>4, <1>6
  <2> QED BY <2>1, <2>2
<1>9. /\ inbox' \in Seq(Letters) /\ (AckIn(inbox') <=> HasAck)
      /\ NoneAhead(inbox') /\ (inbox' # inbox => link.up)
  BY <1>1, <1>3, <1>4, <1>5, RoomHears
<1> QED BY <1>1, <1>7, <1>8, <1>9, TellsTheRoom

LEMMA MoveLetters ==
  ASSUME NEW q \in Seq(Letters), NEW l \in PageLocals
  PROVE  /\ Page!MoveMade(l.fen) \in Letters /\ Page!Ended(l.fen) \in Letters
         /\ q \o Page!MoveEvents(l) = IF l.ends THEN Append(Append(q, Page!MoveMade(l.fen)), Page!Ended(l.fen))
                                      ELSE Append(q, Page!MoveMade(l.fen))
<1> DEFINE m == Page!MoveMade(l.fen)
           x == Page!Ended(l.fen)
<1>1. l.fen \in Nat /\ l.ends \in BOOLEAN
  BY DEF PageLocals
<1>2. Page!ClockAt(l.fen) \in Times
  BY <1>1 DEF Page!ClockAt, Times
<1>3. m \in Letters /\ x \in Letters
  BY <1>1, <1>2 DEF Page!MoveMade, Page!Ended, Letters
<1>4. Page!MoveEvents(l) = <<m>> \o (IF l.ends THEN <<x>> ELSE <<>>)
  BY DEF Page!MoveEvents
<1> HIDE DEF m, x
<1>5. <<m>> \in Seq(Letters) /\ <<x>> \in Seq(Letters) /\ <<>> \in Seq(Letters)
  BY <1>3
<1>6. Append(q, m) \in Seq(Letters) /\ Append(q, m) = q \o <<m>>
      /\ Append(Append(q, m), x) = Append(q, m) \o <<x>>
  BY <1>3, QueueGrows
<1>7. CASE l.ends
  <2>1. Page!MoveEvents(l) = <<m>> \o <<x>>
    BY <1>4, <1>7
  <2>2. (q \o <<m>>) \o <<x>> = q \o (<<m>> \o <<x>>)
    BY <1>5, ConcatAssociative
  <2> QED BY <2>1, <2>2, <1>3, <1>6, <1>7 DEF m, x
<1>8. CASE ~l.ends
  <2>1. Page!MoveEvents(l) = <<m>> \o <<>>
    BY <1>4, <1>8
  <2>2. <<m>> \o <<>> = <<m>>
    BY <1>5, ConcatEmptySeq
  <2> QED BY <2>1, <2>2, <1>3, <1>6, <1>8 DEF m, x
<1> QED BY <1>1, <1>7, <1>8

\* What a board that shows all moves but the last shows after the last one.
LEMMA MoveIsShown ==
  ASSUME NEW f \in Boards, NEW n \in Nat, n >= 1, Shows(f, n - 1), NEW m \in Letters,
         m.event = "move_made", m.fen = n, m.san = n
  PROVE  Shows(Page!Shown(f, m), n) /\ Page!Shown(f, m).over = f.over /\ Page!Shown(f, m).offer = Null
<1>1. /\ Page!Shown(f, m).fen = m.fen /\ Page!Shown(f, m).moves = Append(f.moves, m.san)
      /\ Page!Shown(f, m).over = f.over /\ Page!Shown(f, m).offer = Null
  <2> HIDE DEF Shows
  <2> QED BY ShownIs
<1>2. n - 1 \in Nat /\ (n - 1) + 1 = n
  OBVIOUS
<1>3. Append(Page!Log(n - 1), n) = Page!Log(n)
  BY <1>2, LogGrows
<1>4. f.moves = Page!Log(n - 1)
  BY DEF Shows
<1> QED BY <1>1, <1>3, <1>4 DEF Shows

LEMMA EndIsShown ==
  ASSUME NEW f \in Boards, NEW n \in Nat, Shows(f, n), NEW x \in Letters, x.event = "ended", x.finalFen = n
  PROVE  Shows(Page!Shown(f, x), n) /\ Page!Shown(f, x).over = TRUE /\ Page!Shown(f, x).offer = Null
  BY ShownIs DEF Shows

LEMMA BroadcastMoveStep ==
  ASSUME PageInv, NEW t \in Desks, Page!BroadcastMove(t)
  PROVE  PageInv'
<1> DEFINE l == loc[t]
           m == Page!MoveMade(l.fen)
           x == Page!Ended(l.fen)
           once == Append(inbox, m)
           told == IF l.ends THEN Append(once, x) ELSE once
<1>1. /\ pc[t] = "tell" /\ inbox' = Page!ToRoom(Page!MoveEvents(l)) /\ Page!Reply(t)
      /\ UNCHANGED <<plies, ended, offer, link, board, connection>>
  BY DEF Page!BroadcastMove, Page!game, Page!page
<1>2. /\ inbox \in Seq(Letters) /\ l \in PageLocals /\ board \in Boards /\ l.fen <= plies /\ plies \in Nat
      /\ ended \in BOOLEAN /\ l.ends \in BOOLEAN
  BY PageShape DEF PageInv, PageTypes, FensOK, PageLocals
<1>3. /\ m \in Letters /\ m.event = "move_made" /\ m.fen = l.fen /\ m.san = l.fen
      /\ x \in Letters /\ x.event = "ended" /\ x.finalFen = l.fen
  BY <1>2, MoveLetters DEF Page!MoveMade, Page!Ended
<1>4. inbox' = IF link.up /\ link.joined THEN told ELSE inbox
  BY <1>1, <1>2, MoveLetters DEF Page!ToRoom
<1> HIDE DEF m, x, l
<1>5. NotAhead(m) /\ NotAhead(x)
  BY <1>2, <1>3 DEF NotAhead
<1>6. PICK f \in Boards : Leads(inbox, board, f) /\ (smooth /\ Fed => Fits(f))
  BY DEF PageInv, Follows
<1>7. smooth => l.fen = plies /\ plies >= 1 /\ l.ends = ended /\ offer = Null
  BY <1>1, Stage DEF StageOK, l
<1>8. once \in Seq(Letters) /\ told \in Seq(Letters)
  BY <1>2, <1>3, QueueGrows
<1>9. /\ inbox' \in Seq(Letters) /\ (AckIn(inbox') <=> HasAck) /\ NoneAhead(inbox')
      /\ (inbox' # inbox => link.up)
  <2>1. NoneAhead(inbox) /\ (AckIn(inbox) <=> HasAck)
    BY DEF PageInv, FensOK, NoneAhead, AckIn, HasAck
  <2>2. NoneAhead(once) /\ (AckIn(once) <=> HasAck)
    BY <2>1, <1>2, <1>3, <1>5, QueueGrows
  <2>3. NoneAhead(told) /\ (AckIn(told) <=> HasAck)
    BY <2>2, <1>8, <1>3, <1>5, QueueGrows
  <2> HIDE DEF told
  <2> QED BY <2>1, <2>3, <1>2, <1>4, <1>8
<1>10. \E g \in Boards : /\ Leads(inbox', board, g)
                         /\ smooth /\ Fed => Shows(g, plies) /\ g.over = ended /\ g.offer = offer
  <2>1. CASE link.up /\ link.joined
    <3> DEFINE g == Page!Shown(f, m)
               h == Page!Shown(g, x)
    <3>1. Leads(once, board, g) /\ g \in Boards
      BY <1>2, <1>3, <1>6, OneMoreLeads, ShownIs
    <3>2. Leads(Append(once, x), board, h) /\ h \in Boards
      BY <3>1, <1>3, <1>8, OneMoreLeads, ShownIs
    <3>3. smooth /\ Fed => Shows(f, plies - 1) /\ f.over = FALSE
      BY <1>1, <1>6 DEF Fits, Boards
    <3>4. smooth /\ Fed => Shows(g, plies) /\ g.over = FALSE /\ g.offer = Null
      BY <1>2, <1>3, <1>7, <3>3, MoveIsShown
    <3> HIDE DEF g
    <3>5. smooth /\ Fed => Shows(h, plies) /\ h.over = TRUE /\ h.offer = Null
      BY <1>2, <1>3, <1>7, <3>1, <3>4, EndIsShown
    <3> HIDE DEF h
    <3>6. CASE l.ends
      BY <3>6, <2>1, <3>2, <3>5, <1>2, <1>4, <1>7
    <3>7. CASE ~l.ends
      BY <3>7, <2>1, <3>1, <3>4, <1>2, <1>4, <1>7
    <3> QED BY <3>6, <3>7
  <2>2. CASE ~(link.up /\ link.joined)
    <3>1. ~Fed
      BY <2>2 DEF PageInv, LinkOK
    <3> QED BY <2>2, <3>1, <1>4, <1>6
  <2> QED BY <2>1, <2>2
<1> QED BY <1>1, <1>7, <1>9, <1>10, TellsTheRoom

LEMMA AckJoinStep ==
  ASSUME PageInv, NEW t \in Desks, Page!AckJoin(t)
  PROVE  PageInv'
<1> DEFINE l == loc[t]
           e == [event |-> "ack", fen |-> l.fen, moves |-> l.moves, over |-> l.over, offer |-> l.offer]
           heard == link.up /\ l.link = link.number
<1>1. /\ pc[t] = "ack" /\ inbox' = (IF heard THEN Append(inbox, e) ELSE inbox) /\ Page!Goto(t, "idle", Page!Blank)
      /\ UNCHANGED <<plies, ended, offer, link, board, connection, smooth>>
  BY DEF Page!AckJoin, Page!game, Page!page, Page!Reply
<1>2. /\ inbox \in Seq(Letters) /\ l \in PageLocals /\ board \in Boards /\ l.fen <= plies /\ plies \in Nat
      /\ link.number \in Nat
  BY PageShape DEF PageInv, PageTypes, FensOK
<1>3. /\ e \in Letters /\ e.event = "ack" /\ e.fen = l.fen /\ e.moves = l.moves /\ e.over = l.over /\ e.offer = l.offer
  BY <1>2 DEF Letters, PageLocals
<1> HIDE DEF e
<1>4. "idle" \in PageLabels
  BY DEF PageLabels
<1>5. /\ pc' \in [Desks -> PageLabels] /\ loc' \in [Desks -> PageLocals]
      /\ pc'[t] = "idle" /\ loc'[t] = Page!Blank
      /\ \A u \in Desks \ {t} : pc'[u] = pc[u] /\ loc'[u] = loc[u]
  BY <1>1, <1>4, BlankTask, TaskMoves DEF PageInv
<1>6. heard => link.joined
  BY <1>1 DEF PageInv, LinkOK
<1>7. /\ inbox' \in Seq(Letters) /\ NoneAhead(inbox') /\ (AckIn(inbox') => HasAck \/ heard)
      /\ (inbox' # inbox => link.up)
  <2>1. NoneAhead(inbox) /\ (AckIn(inbox) <=> HasAck)
    BY DEF PageInv, FensOK, NoneAhead, AckIn, HasAck
  <2>2. NotAhead(e)
    BY <1>2, <1>3 DEF NotAhead
  <2>3. NoneAhead(Append(inbox, e)) /\ Append(inbox, e) \in Seq(Letters)
    BY <2>1, <2>2, <1>2, <1>3, QueueGrows
  <2> QED BY <2>1, <2>3, <1>1, <1>2
<1>8. PageTypes'
  BY <1>1, <1>5, <1>7 DEF PageInv, PageTypes
<1>9. Fed' => Fed \/ heard
  BY <1>1, <1>7 DEF Fed, AckIn, HasAck
<1>10. LinkOK'
  <2>1. \A u \in Desks : loc'[u].link <= link.number
    BY <1>2, <1>5, BlankTask DEF PageInv, LinkOK
  <2>2. \A u \in Desks : pc'[u] = "ack" /\ link.up /\ loc'[u].link = link.number => link.joined
    BY <1>5 DEF PageInv, LinkOK
  <2>3. (Fed' => link.joined) /\ (link.joined => link.up) /\ (inbox' # <<>> => link.up)
    BY <1>6, <1>7, <1>9 DEF PageInv, LinkOK
  <2> QED BY <2>1, <2>2, <2>3, <1>1 DEF LinkOK
<1>11. FensOK'
  <2>1. \A u \in Desks : loc'[u].fen <= plies
    BY <1>2, <1>5, BlankTask DEF PageInv, FensOK
  <2>2. board.fen <= plies
    BY DEF PageInv, FensOK
  <2> QED BY <2>1, <2>2, <1>1, <1>7 DEF FensOK, NoneAhead, NotAhead
<1>12. smooth => Quiet'
  <2> SUFFICES ASSUME smooth PROVE Quiet'
    OBVIOUS
  <2>1. \A u \in Desks \ {t} : pc[u] = "idle"
    BY <1>1, OthersRest
  <2> QED BY <2>1, <1>5 DEF Quiet
<1>13. StagesOK'
  <2> SUFFICES ASSUME smooth PROVE StagesOK'
    BY <1>1 DEF StagesOK
  <2>1. \A u \in Desks : pc'[u] = "idle"
    BY <1>12 DEF Quiet
  <2>2. \A u \in Desks : StageOK(u)'
    BY <2>1 DEF StageOK, Joining
  <2>3. ended => offer = Null
    BY <1>1, Stage DEF StageOK, Joining
  <2> QED BY <2>1, <2>2, <2>3, <1>1, <1>12 DEF StagesOK
<1>14. Follows'
  <2>1. PICK f \in Boards : Leads(inbox, board, f)
    BY DEF PageInv, Follows
  <2>2. CASE heard
    <3> DEFINE g == Page!Shown(f, e)
    <3>1. Leads(Append(inbox, e), board, g) /\ g \in Boards
      BY <2>1, <1>2, <1>3, OneMoreLeads, ShownIs
    <3>2. g.fen = l.fen /\ g.moves = l.moves /\ g.over = l.over /\ g.offer = l.offer
      BY <1>3, ShownIs
    <3>3. smooth => l.fen = plies /\ l.moves = Page!Log(plies) /\ l.over = ended /\ l.offer = offer
      BY <1>1, Stage DEF StageOK
    <3> HIDE DEF g
    <3>4. smooth => Shows(g, plies) /\ g.over = ended /\ g.offer = offer
      BY <3>2, <3>3 DEF Shows
    <3>5. PICK k \in Boards : /\ Leads(Append(inbox, e), board, k)
                              /\ smooth => Shows(k, plies) /\ k.over = ended /\ k.offer = offer
      BY <3>1, <3>4
    <3> HIDE DEF heard, l
    <3>6. smooth => Shows(k, plies)' /\ k.over = ended' /\ k.offer = offer'
      <4>1. UNCHANGED <<plies, ended, offer>>
        BY <1>1
      <4>2. Shows(k, plies)' <=> Shows(k, plies)
        BY <4>1, SamePlies
      <4> QED BY <4>1, <4>2, <3>5
    <3>7. smooth => \A u \in Desks : pc'[u] = "idle"
      BY <1>12 DEF Quiet
    <3>8. smooth => Fits(k)'
      BY <3>6, <3>7 DEF Fits
    <3>9. Leads(inbox', board', k) /\ smooth' = smooth
      BY <3>5, <2>2, <1>1
    <3> QED BY <3>8, <3>9 DEF Follows
  <2>3. CASE ~heard
    <3>1. smooth => ~Fed'
      BY <2>3, <1>1, <1>9, NobodyIsFed DEF Joining
    <3> QED BY <2>1, <2>3, <3>1, <1>1 DEF Follows
  <2> QED BY <2>2, <2>3
<1> QED BY <1>8, <1>10, <1>11, <1>13, <1>14 DEF PageInv

LEMMA EnterRoomStep ==
  ASSUME PageInv, NEW t \in Desks, Page!EnterRoom(t)
  PROVE  PageInv'
<1> DEFINE l == loc[t]
           in == link.up /\ (link.joined \/ l.link = link.number)
<1>1. /\ pc[t] = "enter" /\ link' = [link EXCEPT !.joined = in] /\ Page!Goto(t, "ack", l)
      /\ UNCHANGED <<plies, ended, offer, inbox, board, connection, smooth>>
  BY DEF Page!EnterRoom, Page!game, Page!page
<1>2. link \in Links /\ l \in PageLocals /\ "ack" \in PageLabels
  BY PageShape DEF PageInv, PageTypes, PageLabels, Joining
<1>3. in \in BOOLEAN
  BY <1>2 DEF Links
<1> HIDE DEF in
<1>4. link' \in Links /\ link'.number = link.number /\ link'.up = link.up /\ link'.joined = in
  BY <1>1, <1>2, <1>3 DEF Links
<1>5. /\ pc' \in [Desks -> PageLabels] /\ loc' \in [Desks -> PageLocals]
      /\ pc'[t] = "ack" /\ loc'[t] = loc[t]
      /\ \A u \in Desks \ {t} : pc'[u] = pc[u] /\ loc'[u] = loc[u]
  BY <1>1, <1>2, TaskMoves DEF PageInv
<1>6. \A u \in Desks : loc'[u] = loc[u]
  BY <1>5
<1>7. PageTypes'
  BY <1>1, <1>4, <1>5 DEF PageInv, PageTypes
<1>8. Fed' = Fed /\ HasAck' = HasAck
  BY <1>1 DEF Fed, HasAck
<1>9. LinkOK'
  <2>1. in => link.up
    BY DEF in
  <2>2. Fed => in
    BY DEF PageInv, LinkOK, in
  <2>3. ASSUME NEW u \in Desks
        PROVE  loc[u].link <= link.number /\ (pc'[u] = "ack" /\ link.up /\ loc[u].link = link.number => in)
    <3>1. CASE u = t
      BY <3>1 DEF PageInv, LinkOK, in
    <3>2. CASE u # t
      BY <3>2, <1>5 DEF PageInv, LinkOK, in
    <3> QED BY <3>1, <3>2
  <2>4. inbox # <<>> => link.up
    BY DEF PageInv, LinkOK
  <2> HIDE DEF l
  <2> QED BY <2>1, <2>2, <2>3, <2>4, <1>1, <1>4, <1>6, <1>8 DEF LinkOK
<1>10. FensOK'
  <2>1. (\A i \in 1..Len(inbox) : NotAhead(inbox[i]))'
    BY <1>1 DEF PageInv, FensOK, NotAhead
  <2> QED BY <2>1, <1>1, <1>6 DEF PageInv, FensOK
<1>11. smooth => ~Fed /\ ~HasAck
  BY <1>1, NobodyIsFed DEF Joining
<1>12. StagesOK'
  <2> SUFFICES ASSUME smooth PROVE StagesOK'
    BY <1>1 DEF StagesOK
  <2>1. \A u \in Desks \ {t} : pc'[u] = "idle"
    BY <1>1, <1>5, OthersRest
  <2>2. \A u \in Desks \ {t} : StageOK(u)'
    BY <2>1 DEF StageOK, Joining
  <2>3. StageOK(t)'
    <3>1. StageOK(t)
      BY Stage
    <3>2. /\ connection # "open" /\ (ended => offer = Null) /\ loc[t].fen = plies /\ loc[t].over = ended
          /\ loc[t].moves = Page!Log(plies) /\ loc[t].offer = offer
      BY <3>1, <1>1 DEF StageOK, Joining
    <3>3. Page!Log(plies') = Page!Log(plies)
      BY <1>1
    <3>4. /\ connection' # "open" /\ (ended' => offer' = Null) /\ loc'[t].fen = plies' /\ loc'[t].over = ended'
          /\ loc'[t].moves = Page!Log(plies') /\ loc'[t].offer = offer'
      BY <3>2, <3>3, <1>1, <1>6
    <3>5. Page!Log(plies)' = Page!Log(plies')
      BY DEF Page!Log
    <3> QED BY <3>4, <3>5, <1>5 DEF StageOK, Joining
  <2>4. ~Quiet' /\ ~HasAck'
    BY <1>5, <1>8, <1>11 DEF Quiet
  <2>5. \A u, v \in Desks : pc'[u] # "idle" /\ pc'[v] # "idle" => u = v
    BY <2>1
  <2> QED BY <2>2, <2>3, <2>4, <2>5 DEF StagesOK
<1>13. Follows'
  <2>1. PICK f \in Boards : Leads(inbox, board, f)
    BY DEF PageInv, Follows
  <2>2. Leads(inbox', board', f) /\ (smooth' => ~Fed')
    BY <2>1, <1>1, <1>8, <1>11
  <2> QED BY <2>2 DEF Follows
<1> QED BY <1>7, <1>9, <1>10, <1>12, <1>13 DEF PageInv

LEMMA ConnectStep ==
  ASSUME PageInv, NEW t \in Desks, Page!Connect(t)
  PROVE  PageInv'
<1> DEFINE l == [Page!Blank EXCEPT !.link = link.number + 1]
<1>1. /\ ~link.up /\ link' = [number |-> link.number + 1, up |-> TRUE, joined |-> FALSE]
      /\ connection' = "syncing" /\ Page!Begin(t, "row", l)
      /\ UNCHANGED <<plies, ended, offer, inbox, board>>
  BY DEF Page!Connect, Page!game
<1>2. link \in Links /\ link.number \in Nat /\ "row" \in PageLabels /\ plies \in Nat
  BY PageShape DEF PageInv, PageTypes, PageLabels, Joining
<1>3. l \in PageLocals /\ l.link = link.number + 1 /\ l.fen = 0
  BY <1>2, BlankTask DEF PageLocals
<1> HIDE DEF l
<1>4. /\ Page!Goto(t, "row", l) /\ smooth' \in BOOLEAN
      /\ smooth' => smooth /\ Quiet /\ ~HasAck
  BY <1>1, BeginsAlone DEF PageInv
<1>5. /\ pc' \in [Desks -> PageLabels] /\ loc' \in [Desks -> PageLocals]
      /\ pc'[t] = "row" /\ loc'[t] = l
      /\ \A u \in Desks \ {t} : pc'[u] = pc[u] /\ loc'[u] = loc[u]
  BY <1>2, <1>3, <1>4, TaskMoves DEF PageInv
<1>6. link' \in Links /\ link'.number = link.number + 1 /\ ~link'.joined /\ link'.up
  BY <1>1, <1>2 DEF Links
<1>7. inbox = <<>>
  BY <1>1 DEF PageInv, LinkOK
<1>8. ~Fed' /\ ~HasAck'
  <2>1. \A i \in 1..Len(inbox') : FALSE
    BY <1>1, <1>7
  <2> QED BY <2>1, <1>1 DEF Fed, HasAck
<1>9. PageTypes'
  BY <1>1, <1>4, <1>5, <1>6 DEF PageInv, PageTypes
<1>10. LinkOK'
  <2>1. ASSUME NEW u \in Desks
        PROVE  loc'[u].link <= link'.number /\ (pc'[u] = "ack" => loc'[u].link # link'.number)
    <3>1. CASE u = t
      BY <3>1, <1>2, <1>3, <1>5, <1>6
    <3>2. CASE u # t
      <4>1. loc[u] \in PageLocals /\ loc[u].link <= link.number
        BY PageShape DEF PageInv, LinkOK
      <4>2. loc[u].link \in Nat
        BY <4>1 DEF PageLocals
      <4>3. loc[u].link <= link.number + 1 /\ loc[u].link # link.number + 1
        BY <4>1, <4>2, <1>2
      <4> QED BY <3>2, <4>3, <1>5, <1>6
    <3> QED BY <3>1, <3>2
  <2> QED BY <2>1, <1>1, <1>6, <1>7, <1>8 DEF LinkOK
<1>11. FensOK'
  <2>1. (\A i \in 1..Len(inbox) : NotAhead(inbox[i]))'
    BY <1>1 DEF PageInv, FensOK, NotAhead
  <2>2. \A u \in Desks : loc'[u].fen <= plies
    BY <1>2, <1>3, <1>5 DEF PageInv, FensOK
  <2>3. board.fen <= plies
    BY DEF PageInv, FensOK
  <2> QED BY <2>1, <2>2, <2>3, <1>1 DEF FensOK
<1>12. StagesOK'
  <2> SUFFICES ASSUME smooth' PROVE StagesOK'
    BY DEF StagesOK
  <2>1. \A u \in Desks \ {t} : pc'[u] = "idle"
    BY <1>4, <1>5 DEF Quiet
  <2>2. \A u \in Desks \ {t} : StageOK(u)'
    BY <2>1 DEF StageOK, Joining
  <2>3. ended' => offer' = Null
    BY <1>1, <1>4 DEF PageInv, StagesOK
  <2>4. StageOK(t)'
    BY <2>3, <1>1, <1>5 DEF StageOK, Joining
  <2>5. \A u, v \in Desks : pc'[u] # "idle" /\ pc'[v] # "idle" => u = v
    BY <2>1
  <2> QED BY <2>2, <2>3, <2>4, <2>5, <1>8 DEF StagesOK
<1>13. Follows'
  <2>1. PICK f \in Boards : Leads(inbox, board, f)
    BY DEF PageInv, Follows
  <2>2. Leads(inbox', board', f) /\ ~Fed'
    BY <2>1, <1>1, <1>8
  <2> QED BY <2>2 DEF Follows
<1> QED BY <1>9, <1>10, <1>11, <1>12, <1>13 DEF PageInv

\* What is to be shown of a step of the socket or of the page.
LEMMA NobodyMoves ==
  ASSUME PageInv, UNCHANGED <<plies, ended, offer, smooth, pc, loc>>,
         link' \in Links, link'.number = link.number, link'.joined => link'.up, link'.up => link' = link,
         inbox' \in Seq(Letters), NoneAhead(inbox'), AckIn(inbox') => HasAck, inbox' # <<>> => link'.up,
         connection' \in {"connecting", "open", "syncing", "reconnecting", "offline"},
         connection' = "open" => connection = "open" \/ HasAck, Fed' => link'.up,
         board' \in Boards, board'.fen <= plies,
         \E f \in Boards : Leads(inbox', board', f) /\ (smooth /\ Fed' => Fits(f))
  PROVE  PageInv'
<1>1. PageTypes'
  BY DEF PageInv, PageTypes
<1>2. HasAck' => HasAck
  BY DEF AckIn, HasAck
<1>3. Fed' => Fed
  BY <1>2 DEF Fed
<1>4. LinkOK'
  BY <1>3 DEF PageInv, LinkOK
<1>5. FensOK'
  <2>1. (\A i \in 1..Len(inbox) : NotAhead(inbox[i]))'
    BY DEF NoneAhead, NotAhead
  <2> QED BY <2>1 DEF PageInv, FensOK
<1>6. StagesOK'
  <2> SUFFICES ASSUME smooth PROVE StagesOK'
    BY DEF StagesOK
  <2>1. Quiet' <=> Quiet
    BY DEF Quiet
  <2>2. ASSUME NEW u \in Desks PROVE StageOK(u)'
    <3>1. StageOK(u)
      BY Stage
    <3>2. pc[u] \in Joining => connection' # "open"
      <4>1. pc[u] \in Joining => pc[u] # "idle"
        BY DEF Joining
      <4> QED BY <4>1, <3>1, BusyUnacked DEF StageOK
    <3>3. Page!Log(plies)' = Page!Log(plies)
      BY DEF Page!Log
    <3> QED BY <3>1, <3>2, <3>3 DEF StageOK
  <2> QED BY <2>1, <2>2, <1>2 DEF PageInv, StagesOK
<1>7. Follows'
  <2>1. PICK f \in Boards : Leads(inbox', board', f) /\ (smooth /\ Fed' => Fits(f))
    OBVIOUS
  <2>2. Quiet' <=> Quiet
    BY DEF Quiet
  <2>3. Fits(f)' <=> Fits(f)
    BY <2>2, SamePlies DEF Fits
  <2> QED BY <2>1, <2>3 DEF Follows
<1> QED BY <1>1, <1>4, <1>5, <1>6, <1>7 DEF PageInv

\* What the socket of the page does to what is known of it.
LEMMA PageKnows ==
  ASSUME PageInv
  PROVE  /\ link \in Links /\ inbox \in Seq(Letters) /\ board \in Boards /\ plies \in Nat
         /\ connection \in {"connecting", "open", "syncing", "reconnecting", "offline"}
         /\ NoneAhead(inbox) /\ (AckIn(inbox) <=> HasAck) /\ board.fen <= plies
         /\ NoneAhead(<<>>) /\ ~AckIn(<<>>) /\ <<>> \in Seq(Letters)
<1>1. Len(<<>>) = 0 /\ <<>> \in Seq(Letters)
  OBVIOUS
<1>2. \A i \in 1..Len(<<>>) : FALSE
  BY <1>1
<1>3. NoneAhead(<<>>) /\ ~AckIn(<<>>)
  BY <1>2 DEF NoneAhead, AckIn
<1> QED BY <1>1, <1>3, PageShape DEF PageInv, PageTypes, FensOK, NoneAhead, AckIn, HasAck

LEMMA DisconnectStep == ASSUME PageInv, Page!Disconnect PROVE PageInv'
<1>1. /\ link' = [link EXCEPT !.up = FALSE, !.joined = FALSE] /\ inbox' = <<>> /\ connection' = "reconnecting"
      /\ UNCHANGED <<plies, ended, offer, board, smooth, pc, loc>>
  BY DEF Page!Disconnect, Page!game
<1>2. link' \in Links /\ link'.number = link.number /\ ~link'.up /\ ~link'.joined
  BY <1>1, PageKnows DEF Links
<1>3. ~Fed'
  BY <1>1, PageKnows DEF Fed, HasAck, AckIn
<1>4. board \in Boards /\ Leads(inbox', board', board)
  BY <1>1, PageKnows, NothingLeads
<1>5. \E f \in Boards : Leads(inbox', board', f) /\ (smooth /\ Fed' => Fits(f))
  BY <1>3, <1>4
<1> QED BY <1>1, <1>2, <1>3, <1>5, PageKnows, NobodyMoves

LEMMA ConnectErrorStep == ASSUME PageInv, Page!ConnectError PROVE PageInv'
<1>1. /\ ~link.up /\ connection' \in {"offline", "reconnecting"}
      /\ UNCHANGED <<plies, ended, offer, link, inbox, board, smooth, pc, loc>>
  BY DEF Page!ConnectError, Page!game
<1>2. inbox = <<>> /\ link.number \in Nat /\ (link.joined => link.up)
  BY <1>1, PageShape DEF PageInv, LinkOK
<1>3. ~Fed'
  BY <1>1, <1>2, PageKnows DEF Fed, HasAck, AckIn
<1>4. PICK f \in Boards : Leads(inbox, board, f)
  BY DEF PageInv, Follows
<1>5. \E g \in Boards : Leads(inbox', board', g) /\ (smooth /\ Fed' => Fits(g))
  BY <1>1, <1>3, <1>4
<1> QED BY <1>1, <1>2, <1>3, <1>5, PageKnows, NobodyMoves

LEMMA ClockTickStep == ASSUME PageInv, Page!OnClockTick PROVE PageInv'
<1> DEFINE e == [event |-> "clock_update", payload |-> [gameId |-> "g", clock |-> Page!ClockAt(plies)]]
<1>1. /\ inbox' = Page!ToRoom(<<e>>)
      /\ UNCHANGED <<plies, ended, offer, link, board, connection, smooth, pc, loc>>
  BY DEF Page!OnClockTick, Page!game, Page!page
<1>2. Page!ClockAt(plies) \in Times
  BY PageKnows DEF Page!ClockAt, Times
<1>3. e \in Letters /\ e.event = "clock_update"
  BY <1>2 DEF Letters
<1> HIDE DEF e
<1>4. inbox' = IF link.up /\ link.joined THEN Append(inbox, e) ELSE inbox
  BY <1>1, <1>3, PageKnows, QueueGrows DEF Page!ToRoom
<1>5. NotAhead(e)
  BY <1>3 DEF NotAhead
<1>6. /\ inbox' \in Seq(Letters) /\ (AckIn(inbox') <=> HasAck) /\ NoneAhead(inbox')
      /\ (inbox' # inbox => link.up) /\ (Fed => inbox' = Append(inbox, e))
  BY <1>1, <1>3, <1>4, <1>5, RoomHears
<1>7. HasAck' <=> HasAck
  BY <1>6 DEF HasAck, AckIn
<1>8. Fed' <=> Fed
  BY <1>1, <1>7 DEF Fed
<1>9. PICK f \in Boards : Leads(inbox, board, f) /\ (smooth /\ Fed => Fits(f))
  BY DEF PageInv, Follows
<1>10. \E g \in Boards : Leads(inbox', board', g) /\ (smooth /\ Fed' => Fits(g))
  <2>1. CASE link.up /\ link.joined
    <3>1. PICK g \in Boards : /\ Leads(Append(inbox, e), board, g)
                              /\ g.fen = f.fen /\ g.moves = f.moves /\ g.over = f.over /\ g.offer = f.offer
      BY <1>3, <1>9, PageKnows, OneMoreLeads, ShownIs
    <3>2. \A n : Shows(g, n) <=> Shows(f, n)
      BY <3>1 DEF Shows
    <3>3. Fits(f) => Fits(g)
      BY <3>1, <3>2 DEF Fits
    <3> QED BY <2>1, <3>1, <3>3, <1>1, <1>4, <1>8, <1>9
  <2>2. CASE ~(link.up /\ link.joined)
    BY <2>2, <1>1, <1>4, <1>8, <1>9
  <2> QED BY <2>1, <2>2
<1>11. /\ link' \in Links /\ link'.number = link.number /\ (link'.joined => link'.up) /\ (Fed' => link'.up)
       /\ (inbox' # <<>> => link'.up)
  BY <1>1, <1>6, <1>8, PageKnows DEF PageInv, LinkOK
<1> QED BY <1>1, <1>6, <1>10, <1>11, PageKnows, NobodyMoves

LEMMA ReceiveStep == ASSUME PageInv, Page!Receive PROVE PageInv'
<1> DEFINE e == Head(inbox)
<1>1. /\ link.up /\ inbox # <<>> /\ board' = Page!Shown(board, e) /\ inbox' = Tail(inbox)
      /\ connection' = (IF e.event = "ack" THEN "open" ELSE connection)
      /\ UNCHANGED <<plies, ended, offer, link, smooth, pc, loc>>
  BY DEF Page!Receive, Page!game
<1>2. /\ e = inbox[1] /\ e \in Letters /\ Tail(inbox) \in Seq(Letters) /\ Len(inbox) \in Nat \ {0}
      /\ Len(Tail(inbox)) = Len(inbox) - 1
      /\ \A i \in 1..Len(inbox) - 1 : Tail(inbox)[i] = inbox[i + 1]
  BY <1>1, PageKnows, EmptySeq, LenProperties, HeadTailProperties
<1>3. 1 \in 1..Len(inbox) /\ \A i \in 1..Len(inbox) - 1 : i + 1 \in 1..Len(inbox)
  BY <1>2
<1> HIDE DEF e
<1>4. NotAhead(e) /\ (e.event = "ack" => HasAck)
  BY <1>2, <1>3, PageKnows DEF NoneAhead, HasAck
<1>5. NoneAhead(inbox')
  BY <1>1, <1>2, <1>3, PageKnows DEF NoneAhead
<1>6. AckIn(inbox') => HasAck
  BY <1>1, <1>2, <1>3 DEF AckIn, HasAck
<1>7. Fed' => Fed
  BY <1>1, <1>4, <1>6 DEF Fed, HasAck, AckIn
<1>8. board' \in Boards
  BY <1>1, <1>2, PageKnows, ShownIs
<1>9. board'.fen <= plies
  <2>1. e.event \in {"ack", "move_made", "ended", "draw_offered", "clock_update"}
    BY <1>2 DEF Letters
  <2>2. board'.fen \in {board.fen} \/ (e.event \in {"ack", "move_made"} /\ board'.fen = e.fen)
        \/ (e.event = "ended" /\ board'.fen = e.finalFen)
    BY <2>1, <1>1, <1>2, PageKnows, ShownIs
  <2> QED BY <2>2, <1>4, PageKnows DEF NotAhead
<1>10. PICK f \in Boards : Leads(inbox, board, f) /\ (smooth /\ Fed => Fits(f))
  BY DEF PageInv, Follows
<1>11. Leads(inbox', board', f)
  BY <1>1, <1>10, PageKnows, OneLessLeads DEF e
<1>12. \E g \in Boards : Leads(inbox', board', g) /\ (smooth /\ Fed' => Fits(g))
  BY <1>7, <1>10, <1>11
<1>13. connection' \in {"connecting", "open", "syncing", "reconnecting", "offline"}
  BY <1>1, PageKnows
<1>14. link.joined => link.up
  BY DEF PageInv, LinkOK
<1> QED BY <1>1, <1>2, <1>4, <1>5, <1>6, <1>8, <1>9, <1>12, <1>13, <1>14, PageKnows, NobodyMoves

PageScene == focus = "page" => PageInv

LEMMA PageStart == ASSUME Page!Init PROVE PageInv
<1>1. /\ plies = 0 /\ ended = FALSE /\ offer = Null
      /\ link = [number |-> 0, up |-> FALSE, joined |-> FALSE] /\ inbox = <<>>
      /\ board = [fen |-> 0, moves |-> <<>>, over |-> FALSE, offer |-> Null, clock |-> Page!ClockAt(0)]
      /\ connection = "connecting" /\ smooth = TRUE
      /\ pc = [t \in Desks |-> "idle"] /\ loc = [t \in Desks |-> Page!Blank]
  BY DEF Page!Init
<1>2. 0 \in 0..MaxPlies /\ <<>> \in Seq(Nat) /\ <<>> \in Seq(Letters) /\ Len(<<>>) = 0 /\ "idle" \in PageLabels
  BY BoardAssumption DEF PageLabels
<1>3. Page!ClockAt(0) \in Times
  BY DEF Page!ClockAt, Times
<1>4. board \in Boards
  BY <1>1, <1>2, <1>3 DEF Boards, Offers
<1>5. PageTypes
  BY <1>1, <1>2, <1>4, BlankTask DEF PageTypes, Offers, Links
<1>6. LinkOK
  BY <1>1, <1>2, BlankTask DEF LinkOK, Fed, HasAck
<1>7. FensOK
  BY <1>1, <1>2, BlankTask DEF FensOK
<1>8. StagesOK
  <2>1. \A t \in Desks : pc[t] = "idle"
    BY <1>1
  <2>2. ~HasAck
    BY <1>1, <1>2 DEF HasAck
  <2>3. \A t \in Desks : StageOK(t)
    BY <2>1 DEF StageOK, Joining
  <2> QED BY <1>1, <2>1, <2>2, <2>3 DEF StagesOK
<1>9. ~Fed
  BY <1>1, <1>2 DEF Fed, HasAck
<1>10. Follows
  BY <1>1, <1>4, <1>9, NothingLeads DEF Follows
<1> QED BY <1>5, <1>6, <1>7, <1>8, <1>10 DEF PageInv

LEMMA PageSteps == ASSUME PageInv, PageNext PROVE PageInv'
<1>1. ASSUME NEW d \in Desks, Page!Step(d) PROVE PageInv'
  <2>1. CASE Page!Connect(d) \/ Page!FindGame(d) \/ Page!ListMoves(d)
    BY <2>1, ConnectStep, FindGameStep, ListMovesStep
  <2>2. CASE Page!GetDrawOffer(d) \/ Page!EnterRoom(d) \/ Page!AckJoin(d)
    BY <2>2, GetOfferStep, EnterRoomStep, AckJoinStep
  <2>3. CASE Page!BeginMove(d) \/ Page!BroadcastMove(d) \/ Page!BeginEnd(d)
    BY <2>3, BeginMoveStep, BroadcastMoveStep, BeginEndStep
  <2>4. CASE Page!AnnounceEnd(d) \/ Page!BroadcastOffer(d)
    BY <2>4, AnnounceStep, BroadcastOfferStep
  <2>5. CASE Page!ClearOffer(d)
    BY <2>5, OfferSteps DEF Page!ClearOffer, Page!page, PageLabels
  <2>6. CASE Page!ClearKeys(d)
    BY <2>6, OfferSteps DEF Page!ClearKeys, Page!page, PageLabels
  <2>7. CASE Page!SetDrawOffer(d)
    BY <2>7, OfferSteps DEF Page!SetDrawOffer, Page!page, PageLabels
  <2> QED BY <1>1, <2>1, <2>2, <2>3, <2>4, <2>5, <2>6, <2>7 DEF Page!Step
<1>2. ASSUME NEW d \in Desks, NEW side \in Page!Sides, Page!BeginOffer(d, side) PROVE PageInv'
  BY <1>2, BeginOfferStep
<1>3. CASE Page!Disconnect \/ Page!ConnectError \/ Page!OnClockTick \/ Page!Receive
  BY <1>3, DisconnectStep, ConnectErrorStep, ClockTickStep, ReceiveStep
<1> QED BY <1>1, <1>2, <1>3 DEF PageNext

LEMMA PageStutters ==
  ASSUME PageInv, UNCHANGED <<onPage, smooth, pc, loc>>
  PROVE  PageInv'
<1>1. UNCHANGED <<plies, ended, offer, link, inbox, board, connection, smooth, pc, loc>>
  BY DEF onPage
<1>2. HasAck' <=> HasAck
  BY <1>1 DEF HasAck
<1>3. Fed' <=> Fed
  BY <1>1, <1>2 DEF Fed
<1>4. (link.joined => link.up) /\ (inbox # <<>> => link.up) /\ (Fed => link.joined)
  BY DEF PageInv, LinkOK
<1>5. \E f \in Boards : Leads(inbox', board', f) /\ (smooth /\ Fed' => Fits(f))
  BY <1>1, <1>3 DEF PageInv, Follows
<1> QED BY <1>1, <1>2, <1>3, <1>4, <1>5, PageKnows, NobodyMoves DEF AckIn

LEMMA PageIsSound == ASSUME PageInv PROVE Page!TypeOK /\ Page!BoardFollows
<1>1. Page!TypeOK
  BY DEF PageInv, PageTypes, LinkOK, Page!TypeOK, Offers
<1>2. board.fen <= plies
  BY DEF PageInv, FensOK
<1>3. ASSUME smooth, Page!Settled PROVE Page!SameBoard
  <2>1. connection = "open" /\ inbox = <<>> /\ Quiet
    BY <1>3 DEF Page!Settled, Quiet
  <2>2. PICK f \in Boards : Leads(inbox, board, f) /\ (smooth /\ Fed => Fits(f))
    BY DEF PageInv, Follows
  <2>3. f = board
    BY <2>1, <2>2, NothingChanges
  <2>4. Fits(board)
    BY <2>1, <2>2, <2>3, <1>3 DEF Fed
  <2> QED BY <2>1, <2>4 DEF Fits, Shows, Page!SameBoard
<1> QED BY <1>1, <1>2, <1>3 DEF Page!BoardFollows

\* Whatever was lost while the connection was down, and however often the page joins, an
\* open board that has all it was sent shows the moves, the end and the draw offer of the
\* server, if no handler overlapped a join or another one; and it never shows a move that
\* nobody made (game:join's full snapshot, onMove's order of broadcasts, announceEnd).
THEOREM BoardAlwaysFollows == MCSpec => []BoardFollows
<1>1. MCInit => PageScene
  BY PageStart DEF MCInit, GameInit, PageScene
<1>2. PageScene /\ [MCNext]_everything => PageScene'
  <2> SUFFICES ASSUME PageScene, [MCNext]_everything, focus' = "page" PROVE PageInv'
    BY DEF PageScene
  <2>1. focus = focus'
    BY DEF MCNext, GameNext, EngineNext, NoticesNext, everything
  <2>2. PageInv
    BY <2>1 DEF PageScene
  <2>3. CASE GameNext
    BY <2>1, <2>2, <2>3, PageSteps DEF GameNext
  <2>4. CASE EngineNext \/ NoticesNext
    BY <2>1, <2>4 DEF EngineNext, NoticesNext
  <2>5. CASE UNCHANGED everything
    BY <2>2, <2>5, PageStutters DEF everything
  <2> QED BY <2>3, <2>4, <2>5 DEF MCNext
<1>3. PageScene => BoardFollows
  BY PageIsSound DEF PageScene, BoardFollows
<1> QED BY <1>1, <1>2, <1>3, PTL DEF MCSpec, everything

-----------------------------------------------------------------------------
(* Presence.  The sockets of a side, its markers and its grace tell one     *)
(* story, but for what the one handler under way has still to write.       *)

SeatLabels ==
  {"idle", "view", "present", "returned", "back", "row", "absent", "mark", "schedule",
   "abandon", "look", "rival", "clear", "announce", "forget"}
Seating == {"view", "present", "returned", "back"}
Leaving == {"row", "absent", "mark", "schedule"}
Places == {node, Null}
SeatLocals ==
  [socket : Sockets \cup {Null}, node : Places, side : Presence!Sides \cup {Null}, rival : BOOLEAN,
   by : {"timer", "sweeper", "play", Null}]

SeatTypes ==
  /\ socket \in [Sockets -> [state : {"new", "up", "down"}, node : Places]]
  /\ here \in [{node} -> [Presence!Sides -> SUBSET Sockets]] /\ joined \subseteq Sockets
  /\ graces \in [{node} -> SUBSET Presence!Sides] /\ timers \in [{node} -> SUBSET {"flag", "tick"}]
  /\ presence \subseteq Presence!Sides /\ gone \in [Presence!Sides -> {"no", "fresh", "old"}]
  /\ active \in BOOLEAN /\ moved \in BOOLEAN /\ smooth \in BOOLEAN

DeskTypes == pc \in [Desks -> SeatLabels] /\ loc \in [Desks -> SeatLocals]

Known(x) == socket[x].state # "new"
Up(s) == {x \in Sockets : SideOf[x] = s /\ socket[x].state = "up"}
Fresh(s) == \A x \in Sockets : SideOf[x] = s => ~Known(x)

\* The two maps of the gateway are of the same sockets.
SeatsKept ==
  /\ \A x \in Sockets : x \in joined <=> x \in here[node][SideOf[x]]
  /\ \A s \in Presence!Sides : \A x \in here[node][s] : SideOf[x] = s
  /\ \A x \in joined : Known(x)
  /\ \A x \in Sockets : Known(x) => socket[x].node = node

\* What a handler has in hand, whatever the others do.
HandlerOK(t) ==
  /\ pc[t] # "idle" => loc[t].node = node
  /\ pc[t] \in Seating => loc[t].socket \in Sockets /\ loc[t].side = SideOf[loc[t].socket] /\ Known(loc[t].socket)
  /\ pc[t] \notin {"idle", "clear", "announce"} => loc[t].side \in Presence!Sides
  /\ pc[t] \in {"clear", "announce"} => ~active /\ (loc[t].by = "sweeper" => loc[t].side \in Presence!Sides)
  /\ pc[t] \in {"look", "rival"} => loc[t].by = "sweeper"

VerdictOK ==
  verdict # Null =>
    /\ ~active
    /\ smooth => verdict.away /\ verdict.rival = verdict.there

\* One story of a side whose players nobody is attending to.
Marked(s) ==
  /\ here[node][s] = Up(s)
  /\ Up(s) # {} => s \in presence /\ gone[s] = "no" /\ s \notin graces[node]
  /\ Up(s) = {} => s \notin presence /\ (gone[s] = "no" <=> Fresh(s))

\* What is told of the side by the handler that attends to it.
TaleOK(t) ==
  /\ pc[t] = "view" => loc[t].socket \in Up(loc[t].side) /\ here[node][loc[t].side] = Up(loc[t].side) \ {loc[t].socket}
  /\ pc[t] \in {"present", "returned", "back"} => Up(loc[t].side) # {} /\ here[node][loc[t].side] = Up(loc[t].side)
  /\ pc[t] \in {"returned", "back"} => loc[t].side \in presence
  /\ pc[t] = "back" => gone[loc[t].side] = "no"
  /\ pc[t] \in Leaving => Up(loc[t].side) = {} /\ here[node][loc[t].side] = {} /\ ~Fresh(loc[t].side)
  /\ pc[t] \in {"mark", "schedule"} => loc[t].side \notin presence
  /\ pc[t] \in {"schedule", "look"} => gone[loc[t].side] # "no"
  /\ pc[t] \in {"rival", "abandon"} => Up(loc[t].side) = {}
  /\ pc[t] = "abandon" => (loc[t].rival <=> Up(Presence!Other(loc[t].side)) # {})
  /\ pc[t] # "forget"

Attends(label, l, s) == label \in Seating \cup Leaving /\ l.side = s
Watched == moved => "flag" \in timers[node]
TalesAgree ==
  smooth =>
    /\ \A t, u \in Desks : pc[t] # "idle" /\ pc[u] # "idle" => t = u
    /\ active =>
         /\ Watched
         /\ \A t \in Desks : TaleOK(t)
         /\ \A s \in Presence!Sides : (\A t \in Desks : ~Attends(pc[t], loc[t], s)) => Marked(s)

PresenceInv == SeatTypes /\ DeskTypes /\ SeatsKept /\ (\A t \in Desks : HandlerOK(t)) /\ VerdictOK /\ TalesAgree

LEMMA SidesAre ==
  /\ Presence!Sides = {"w", "b"} /\ \A x \in Sockets : SideOf[x] \in Presence!Sides
  /\ Null \notin Sockets /\ node # Null
  BY SocketsAssumption DEF Presence!Sides

LEMMA SeatShape ==
  ASSUME SeatTypes, DeskTypes
  PROVE  /\ \A t \in Desks : pc[t] \in SeatLabels /\ loc[t] \in SeatLocals
         /\ \A s \in Presence!Sides : here[node][s] \subseteq Sockets
         /\ here[node] \in [Presence!Sides -> SUBSET Sockets]
         /\ graces[node] \subseteq Presence!Sides
         /\ timers[node] \subseteq {"flag", "tick"}
  BY DEF SeatTypes, DeskTypes

LEMMA SeatMoves ==
  ASSUME DeskTypes, NEW t \in Desks, NEW label \in SeatLabels, NEW l \in SeatLocals, Presence!Goto(t, label, l)
  PROVE  /\ DeskTypes'
         /\ pc'[t] = label /\ loc'[t] = l
         /\ \A u \in Desks \ {t} : pc'[u] = pc[u] /\ loc'[u] = loc[u]
  BY DEF Presence!Goto, DeskTypes

LEMMA BlankSeat ==
  /\ Presence!Blank \in SeatLocals /\ Presence!Blank.side = Null
  BY DEF Presence!Blank, SeatLocals, Places

\* A handler that begins.
LEMMA NewSeat ==
  ASSUME NEW x \in Sockets \cup {Null}, NEW s \in Presence!Sides \cup {Null}, NEW r \in BOOLEAN,
         NEW by \in {"timer", "sweeper", "play", Null}
  PROVE  [socket |-> x, node |-> node, side |-> s, rival |-> r, by |-> by] \in SeatLocals
  BY DEF SeatLocals, Places

LEMMA SocketsStay ==
  ASSUME UNCHANGED socket
  PROVE  /\ \A s : Up(s)' = Up(s) /\ (Fresh(s)' <=> Fresh(s))
         /\ \A x : Known(x)' <=> Known(x)
  BY DEF Up, Fresh, Known

LEMMA MarksStay ==
  ASSUME NEW s \in Presence!Sides, Marked(s), Up(s)' = Up(s), Fresh(s)' <=> Fresh(s),
         here'[node][s] = here[node][s], s \in presence' <=> s \in presence, gone'[s] = gone[s],
         s \in graces'[node] => s \in graces[node]
  PROVE  Marked(s)'
  BY DEF Marked

\* While all is smooth and the game goes on, a handler that moves knows all.
LEMMA TaleOf ==
  ASSUME PresenceInv, smooth, active, NEW t \in Desks, pc[t] # "idle" \/ \A u \in Desks : pc[u] = "idle"
  PROVE  /\ Watched /\ TaleOK(t)
         /\ \A s \in Presence!Sides : ~Attends(pc[t], loc[t], s) => Marked(s)
<1>1. \A u \in Desks \ {t} : pc[u] = "idle"
  BY DEF PresenceInv, TalesAgree
<1>2. \A u \in Desks \ {t}, s \in Presence!Sides : ~Attends(pc[u], loc[u], s)
  BY <1>1 DEF Attends, Seating, Leaving
<1> QED BY <1>2 DEF PresenceInv, TalesAgree

LEMMA OthersHandle ==
  ASSUME PresenceInv, NEW u \in Desks, pc'[u] = pc[u], loc'[u] = loc[u], active' => active,
         \A x \in Sockets : Known(x) => Known(x)'
  PROVE  HandlerOK(u)'
<1>1. HandlerOK(u) /\ active \in BOOLEAN
  BY DEF PresenceInv, SeatTypes
<1>2. ASSUME pc[u] \in Seating PROVE socket'[loc'[u].socket].state # "new"
  <2>1. loc[u].socket \in Sockets /\ Known(loc[u].socket)
    BY <1>1, <1>2 DEF HandlerOK
  <2>2. \A x \in Sockets : Known(x) => socket'[x].state # "new"
    BY DEF Known
  <2> QED BY <2>1, <2>2
<1> QED BY <1>1, <1>2 DEF HandlerOK, Known

\* What is to be shown of a step of a handler.
LEMMA SeatStep ==
  ASSUME PresenceInv, NEW t \in Desks, NEW label \in SeatLabels, NEW l \in SeatLocals, Presence!Goto(t, label, l),
         SeatTypes', SeatsKept', active' => active,
         smooth' => smooth /\ (pc[t] # "idle" \/ \A u \in Desks : pc[u] = "idle"),
         \A x \in Sockets : Known(x) => Known(x)',
         HandlerOK(t)', VerdictOK',
         smooth' /\ active' =>
           /\ Watched' /\ TaleOK(t)'
           /\ \A s \in Presence!Sides : ~Attends(label, l, s) => Marked(s)'
  PROVE  PresenceInv'
<1>1. /\ DeskTypes' /\ pc'[t] = label /\ loc'[t] = l
      /\ \A u \in Desks \ {t} : pc'[u] = pc[u] /\ loc'[u] = loc[u]
  BY SeatMoves DEF PresenceInv
<1>2. \A u \in Desks : HandlerOK(u)'
  BY <1>1, OthersHandle
<1>3. TalesAgree'
  <2> SUFFICES ASSUME smooth' PROVE TalesAgree'
    BY DEF TalesAgree
  <2>1. \A u \in Desks \ {t} : pc'[u] = "idle"
    BY <1>1 DEF PresenceInv, TalesAgree
  <2>2. \A u \in Desks \ {t} : TaleOK(u)'
    BY <2>1 DEF TaleOK, Leaving
  <2>3. \A u, v \in Desks : pc'[u] # "idle" /\ pc'[v] # "idle" => u = v
    BY <2>1
  <2>4. \A s \in Presence!Sides : Attends(pc[t], loc[t], s)' <=> Attends(label, l, s)
    BY <1>1 DEF Attends
  <2> QED BY <2>2, <2>3, <2>4 DEF TalesAgree
<1> QED BY <1>1, <1>2, <1>3 DEF PresenceInv

\* The same, of a step that no handler takes.
LEMMA QuietStep ==
  ASSUME PresenceInv, UNCHANGED <<pc, loc, verdict, active>>, SeatTypes', SeatsKept', smooth' => smooth,
         \A x \in Sockets : Known(x) => Known(x)',
         smooth' /\ active =>
           /\ Watched' /\ \A t \in Desks : TaleOK(t)'
           /\ \A s \in Presence!Sides : (\A t \in Desks : ~Attends(pc[t], loc[t], s)) => Marked(s)'
  PROVE  PresenceInv'
<1>1. DeskTypes'
  BY DEF PresenceInv, DeskTypes
<1>2. \A u \in Desks : HandlerOK(u)'
  BY OthersHandle
<1>3. VerdictOK'
  BY DEF PresenceInv, VerdictOK
<1>4. TalesAgree'
  <2> SUFFICES ASSUME smooth' PROVE TalesAgree'
    BY DEF TalesAgree
  <2>1. \A t \in Desks, s \in Presence!Sides : Attends(pc[t], loc[t], s)' <=> Attends(pc[t], loc[t], s)
    BY DEF Attends
  <2> QED BY <2>1 DEF PresenceInv, TalesAgree
<1> QED BY <1>1, <1>2, <1>3, <1>4 DEF PresenceInv

\* A step of a handler under way that touches neither a socket nor the game.
LEMMA MarkStep ==
  ASSUME PresenceInv, NEW t \in Desks, NEW label \in SeatLabels, NEW l \in SeatLocals, Presence!Goto(t, label, l),
         pc[t] # "idle", UNCHANGED <<socket, here, joined, timers, active, moved, verdict, smooth>>,
         graces' \in [{node} -> SUBSET Presence!Sides], presence' \subseteq Presence!Sides,
         gone' \in [Presence!Sides -> {"no", "fresh", "old"}],
         HandlerOK(t)',
         smooth /\ active => /\ TaleOK(t)'
                             /\ \A s \in Presence!Sides : ~Attends(label, l, s) => Marked(s)'
  PROVE  PresenceInv'
<1>1. SeatTypes' /\ SeatsKept' /\ VerdictOK' /\ \A x \in Sockets : Known(x) => Known(x)'
  BY DEF PresenceInv, SeatTypes, SeatsKept, VerdictOK, Known
<1>2. smooth /\ active => Watched'
  BY TaleOf DEF Watched
<1> QED BY <1>1, <1>2, SeatStep

LEMMA SetPresenceStep == ASSUME PresenceInv, NEW t \in Desks, Presence!SetPresence(t) PROVE PresenceInv'
<1> DEFINE l == loc[t]
           s == l.side
<1>1. /\ pc[t] = "present" /\ presence' = presence \cup {s} /\ Presence!Goto(t, "returned", l)
      /\ UNCHANGED <<socket, here, joined, timers, graces, gone, active, moved, verdict, smooth>>
  BY DEF Presence!SetPresence, Presence!memory, Presence!game, Presence!NoBegin
<1>2. HandlerOK(t) /\ l \in SeatLocals /\ "returned" \in SeatLabels
  BY SeatShape DEF PresenceInv, SeatLabels
<1>3. s \in Presence!Sides
  BY <1>1, <1>2 DEF HandlerOK
<1>4. pc'[t] = "returned" /\ loc'[t] = l
  BY <1>1, <1>2, SeatMoves DEF PresenceInv
<1>5. HandlerOK(t)'
  BY <1>1, <1>2, <1>4, SocketsStay DEF HandlerOK, Seating
<1>6. /\ graces' \in [{node} -> SUBSET Presence!Sides] /\ presence' \subseteq Presence!Sides
      /\ gone' \in [Presence!Sides -> {"no", "fresh", "old"}]
  BY <1>1, <1>3 DEF PresenceInv, SeatTypes
<1>7. ASSUME smooth, active
      PROVE  TaleOK(t)' /\ \A r \in Presence!Sides : ~Attends("returned", l, r) => Marked(r)'
  <2>1. TaleOK(t) /\ \A r \in Presence!Sides : ~Attends("present", l, r) => Marked(r)
    BY <1>1, <1>7, TaleOf
  <2>2. TaleOK(t)'
    <3>1. Up(s) # {} /\ here[node][s] = Up(s) /\ s \in presence'
      BY <1>1, <2>1 DEF TaleOK
    <3> QED BY <3>1, <1>1, <1>4, SocketsStay DEF TaleOK, Leaving
  <2>3. ASSUME NEW r \in Presence!Sides, ~Attends("returned", l, r) PROVE Marked(r)'
    <3>1. r # s /\ ~Attends("present", l, r)
      BY <2>3 DEF Attends, Seating, Leaving
    <3> HIDE DEF s
    <3> QED BY <3>1, <2>1, <1>1, SocketsStay, MarksStay
  <2> QED BY <2>2, <2>3
<1> QED BY <1>1, <1>2, <1>5, <1>6, <1>7, MarkStep

LEMMA ClearGoneStep == ASSUME PresenceInv, NEW t \in Desks, Presence!ClearGone(t) PROVE PresenceInv'
<1> DEFINE l == loc[t]
           s == l.side
<1>1. /\ pc[t] = "returned" /\ gone' = [gone EXCEPT ![s] = "no"] /\ Presence!Goto(t, "back", l)
      /\ UNCHANGED <<socket, here, joined, timers, graces, presence, active, moved, verdict, smooth>>
  BY DEF Presence!ClearGone, Presence!Returned, Presence!memory, Presence!game, Presence!NoBegin
<1>2. HandlerOK(t) /\ l \in SeatLocals /\ "back" \in SeatLabels
  BY SeatShape DEF PresenceInv, SeatLabels
<1>3. s \in Presence!Sides
  BY <1>1, <1>2 DEF HandlerOK
<1>4. pc'[t] = "back" /\ loc'[t] = l
  BY <1>1, <1>2, SeatMoves DEF PresenceInv
<1>5. HandlerOK(t)'
  BY <1>1, <1>2, <1>4, SocketsStay DEF HandlerOK, Seating
<1>6. /\ graces' \in [{node} -> SUBSET Presence!Sides] /\ presence' \subseteq Presence!Sides
      /\ gone' \in [Presence!Sides -> {"no", "fresh", "old"}]
      /\ gone'[s] = "no" /\ \A r \in Presence!Sides \ {s} : gone'[r] = gone[r]
  BY <1>1, <1>3 DEF PresenceInv, SeatTypes
<1>7. ASSUME smooth, active
      PROVE  TaleOK(t)' /\ \A r \in Presence!Sides : ~Attends("back", l, r) => Marked(r)'
  <2>1. TaleOK(t) /\ \A r \in Presence!Sides : ~Attends("returned", l, r) => Marked(r)
    BY <1>1, <1>7, TaleOf
  <2>2. TaleOK(t)'
    <3>1. Up(s) # {} /\ here[node][s] = Up(s) /\ s \in presence
      BY <1>1, <2>1 DEF TaleOK
    <3> QED BY <3>1, <1>1, <1>4, <1>6, SocketsStay DEF TaleOK, Leaving
  <2>3. ASSUME NEW r \in Presence!Sides, ~Attends("back", l, r) PROVE Marked(r)'
    <3>1. r # s /\ ~Attends("returned", l, r)
      BY <2>3 DEF Attends, Seating, Leaving
    <3> HIDE DEF s
    <3> QED BY <3>1, <2>1, <1>1, <1>6, SocketsStay, MarksStay
  <2> QED BY <2>2, <2>3
<1> QED BY <1>1, <1>2, <1>5, <1>6, <1>7, MarkStep

LEMMA ClearGraceStep == ASSUME PresenceInv, NEW t \in Desks, Presence!ClearGrace(t) PROVE PresenceInv'
<1> DEFINE s == loc[t].side
           l == Presence!Blank
<1>1. /\ pc[t] = "back" /\ graces' = [graces EXCEPT ![loc[t].node] = @ \ {s}] /\ Presence!Goto(t, "idle", l)
      /\ UNCHANGED <<socket, here, joined, timers, gone, presence, active, moved, verdict, smooth>>
  BY DEF Presence!ClearGrace, Presence!Reply, Presence!redis, Presence!game, Presence!NoBegin
<1>2. HandlerOK(t) /\ l \in SeatLocals /\ "idle" \in SeatLabels
  BY BlankSeat DEF PresenceInv, SeatLabels
<1>3. s \in Presence!Sides /\ loc[t].node = node
  BY <1>1, <1>2 DEF HandlerOK
<1>4. pc'[t] = "idle" /\ loc'[t] = l
  BY <1>1, <1>2, SeatMoves DEF PresenceInv
<1>5. HandlerOK(t)'
  BY <1>4 DEF HandlerOK, Seating
<1>6. /\ graces' \in [{node} -> SUBSET Presence!Sides] /\ presence' \subseteq Presence!Sides
      /\ gone' \in [Presence!Sides -> {"no", "fresh", "old"}]
      /\ graces'[node] = graces[node] \ {s}
  BY <1>1, <1>3 DEF PresenceInv, SeatTypes
<1>7. ASSUME smooth, active
      PROVE  TaleOK(t)' /\ \A r \in Presence!Sides : ~Attends("idle", l, r) => Marked(r)'
  <2>1. TaleOK(t) /\ \A r \in Presence!Sides : ~Attends("back", loc[t], r) => Marked(r)
    BY <1>1, <1>7, TaleOf
  <2>2. TaleOK(t)'
    BY <1>4 DEF TaleOK, Leaving
  <2>3. ASSUME NEW r \in Presence!Sides PROVE Marked(r)'
    <3>1. CASE r = s
      <4>1. Up(s) # {} /\ here[node][s] = Up(s) /\ s \in presence /\ gone[s] = "no"
        BY <1>1, <2>1 DEF TaleOK
      <4> HIDE DEF s
      <4> QED BY <3>1, <4>1, <1>1, <1>6, SocketsStay DEF Marked
    <3>2. CASE r # s
      <4>1. ~Attends("back", loc[t], r)
        BY <3>2 DEF Attends
      <4> HIDE DEF s
      <4> QED BY <4>1, <2>1, <1>1, <1>6, SocketsStay, MarksStay
    <3> QED BY <3>1, <3>2
  <2> QED BY <2>2, <2>3
<1> HIDE DEF l
<1> QED BY <1>1, <1>2, <1>5, <1>6, <1>7, MarkStep

\* The handler of a socket that has gone looks up the game.
LEMMA GameRowStep == ASSUME PresenceInv, NEW t \in Desks, Presence!ActiveGameRow(t) PROVE PresenceInv'
<1>1. /\ pc[t] = "row" /\ (IF active THEN Presence!Goto(t, "absent", loc[t]) ELSE Presence!Goto(t, "idle", Presence!Blank))
      /\ UNCHANGED <<socket, here, joined, timers, graces, gone, presence, active, moved, verdict, smooth>>
  BY DEF Presence!ActiveGameRow, Presence!Reply, Presence!memory, Presence!redis, Presence!game, Presence!NoBegin
<1>2. /\ HandlerOK(t) /\ loc[t] \in SeatLocals /\ "absent" \in SeatLabels /\ "idle" \in SeatLabels
      /\ graces' \in [{node} -> SUBSET Presence!Sides] /\ presence' \subseteq Presence!Sides
      /\ gone' \in [Presence!Sides -> {"no", "fresh", "old"}]
  BY <1>1, SeatShape DEF PresenceInv, SeatLabels, SeatTypes
<1>3. CASE active
  <2> DEFINE l == loc[t]
  <2>1. pc'[t] = "absent" /\ loc'[t] = l /\ Presence!Goto(t, "absent", l)
    BY <1>1, <1>2, <1>3, SeatMoves DEF PresenceInv
  <2>2. HandlerOK(t)'
    BY <1>1, <1>2, <2>1 DEF HandlerOK, Seating
  <2>3. ASSUME smooth
        PROVE  TaleOK(t)' /\ \A r \in Presence!Sides : ~Attends("absent", l, r) => Marked(r)'
    <3>1. TaleOK(t) /\ \A r \in Presence!Sides : ~Attends("row", l, r) => Marked(r)
      BY <1>1, <1>3, <2>3, TaleOf
    <3>2. TaleOK(t)'
      BY <3>1, <1>1, <2>1, SocketsStay DEF TaleOK, Leaving
    <3>3. ASSUME NEW r \in Presence!Sides, ~Attends("absent", l, r) PROVE Marked(r)'
      <4>1. ~Attends("row", l, r)
        BY <3>3 DEF Attends, Seating, Leaving
      <4> HIDE DEF l
      <4> QED BY <4>1, <3>1, <1>1, SocketsStay, MarksStay
    <3> QED BY <3>2, <3>3
  <2> HIDE DEF l
  <2> QED BY <1>1, <1>2, <2>1, <2>2, <2>3, MarkStep DEF l
<1>4. CASE ~active
  <2>1. pc'[t] = "idle" /\ Presence!Goto(t, "idle", Presence!Blank)
    BY <1>1, <1>2, <1>4, BlankSeat, SeatMoves DEF PresenceInv
  <2>2. HandlerOK(t)'
    BY <2>1 DEF HandlerOK, Seating
  <2> QED BY <1>1, <1>2, <1>4, <2>1, <2>2, BlankSeat, MarkStep
<1> QED BY <1>3, <1>4

LEMMA ClearPresenceStep == ASSUME PresenceInv, NEW t \in Desks, Presence!ClearPresence(t) PROVE PresenceInv'
<1> DEFINE l == loc[t]
           s == l.side
<1>1. /\ pc[t] = "absent" /\ presence' = presence \ {s} /\ Presence!Goto(t, "mark", l)
      /\ UNCHANGED <<socket, here, joined, timers, graces, gone, active, moved, verdict, smooth>>
  BY DEF Presence!ClearPresence, Presence!memory, Presence!game, Presence!NoBegin
<1>2. HandlerOK(t) /\ l \in SeatLocals /\ "mark" \in SeatLabels
  BY SeatShape DEF PresenceInv, SeatLabels
<1>3. s \in Presence!Sides
  BY <1>1, <1>2 DEF HandlerOK
<1>4. pc'[t] = "mark" /\ loc'[t] = l
  BY <1>1, <1>2, SeatMoves DEF PresenceInv
<1>5. HandlerOK(t)'
  BY <1>1, <1>2, <1>4, SocketsStay DEF HandlerOK, Seating
<1>6. /\ graces' \in [{node} -> SUBSET Presence!Sides] /\ presence' \subseteq Presence!Sides
      /\ gone' \in [Presence!Sides -> {"no", "fresh", "old"}]
  BY <1>1, <1>3 DEF PresenceInv, SeatTypes
<1>7. ASSUME smooth, active
      PROVE  TaleOK(t)' /\ \A r \in Presence!Sides : ~Attends("mark", l, r) => Marked(r)'
  <2>1. TaleOK(t) /\ \A r \in Presence!Sides : ~Attends("absent", l, r) => Marked(r)
    BY <1>1, <1>7, TaleOf
  <2>2. TaleOK(t)'
    <3>1. Up(s) = {} /\ here[node][s] = {} /\ ~Fresh(s) /\ s \notin presence'
      BY <1>1, <2>1 DEF TaleOK, Leaving
    <3> QED BY <3>1, <1>1, <1>4, SocketsStay DEF TaleOK, Leaving
  <2>3. ASSUME NEW r \in Presence!Sides, ~Attends("mark", l, r) PROVE Marked(r)'
    <3>1. r # s /\ ~Attends("absent", l, r)
      BY <2>3 DEF Attends, Seating, Leaving
    <3> HIDE DEF s
    <3> QED BY <3>1, <2>1, <1>1, SocketsStay, MarksStay
  <2> QED BY <2>2, <2>3
<1> QED BY <1>1, <1>2, <1>5, <1>6, <1>7, MarkStep

LEMMA MarkGoneStep == ASSUME PresenceInv, NEW t \in Desks, Presence!MarkGone(t) PROVE PresenceInv'
<1> DEFINE l == loc[t]
           s == l.side
<1>1. /\ pc[t] = "mark" /\ gone' = [gone EXCEPT ![s] = "fresh"] /\ Presence!Goto(t, "schedule", l)
      /\ UNCHANGED <<socket, here, joined, timers, graces, presence, active, moved, verdict, smooth>>
  BY DEF Presence!MarkGone, Presence!memory, Presence!game, Presence!NoBegin
<1>2. HandlerOK(t) /\ l \in SeatLocals /\ "schedule" \in SeatLabels
  BY SeatShape DEF PresenceInv, SeatLabels
<1>3. s \in Presence!Sides
  BY <1>1, <1>2 DEF HandlerOK
<1>4. pc'[t] = "schedule" /\ loc'[t] = l
  BY <1>1, <1>2, SeatMoves DEF PresenceInv
<1>5. HandlerOK(t)'
  BY <1>1, <1>2, <1>4, SocketsStay DEF HandlerOK, Seating
<1>6. /\ graces' \in [{node} -> SUBSET Presence!Sides] /\ presence' \subseteq Presence!Sides
      /\ gone' \in [Presence!Sides -> {"no", "fresh", "old"}]
      /\ gone'[s] = "fresh" /\ \A r \in Presence!Sides \ {s} : gone'[r] = gone[r]
  BY <1>1, <1>3 DEF PresenceInv, SeatTypes
<1>7. ASSUME smooth, active
      PROVE  TaleOK(t)' /\ \A r \in Presence!Sides : ~Attends("schedule", l, r) => Marked(r)'
  <2>1. TaleOK(t) /\ \A r \in Presence!Sides : ~Attends("mark", l, r) => Marked(r)
    BY <1>1, <1>7, TaleOf
  <2>2. TaleOK(t)'
    <3>1. Up(s) = {} /\ here[node][s] = {} /\ ~Fresh(s) /\ s \notin presence
      BY <1>1, <2>1 DEF TaleOK, Leaving
    <3> QED BY <3>1, <1>1, <1>4, <1>6, SocketsStay DEF TaleOK, Leaving
  <2>3. ASSUME NEW r \in Presence!Sides, ~Attends("schedule", l, r) PROVE Marked(r)'
    <3>1. r # s /\ ~Attends("mark", l, r)
      BY <2>3 DEF Attends, Seating, Leaving
    <3> HIDE DEF s
    <3> QED BY <3>1, <2>1, <1>1, <1>6, SocketsStay, MarksStay
  <2> QED BY <2>2, <2>3
<1> QED BY <1>1, <1>2, <1>5, <1>6, <1>7, MarkStep

LEMMA ScheduleGraceStep == ASSUME PresenceInv, NEW t \in Desks, Presence!ScheduleGrace(t) PROVE PresenceInv'
<1> DEFINE s == loc[t].side
           l == Presence!Blank
<1>1. /\ pc[t] = "schedule" /\ graces' = [graces EXCEPT ![loc[t].node] = @ \cup {s}] /\ Presence!Goto(t, "idle", l)
      /\ UNCHANGED <<socket, here, joined, timers, gone, presence, active, moved, verdict, smooth>>
  BY DEF Presence!ScheduleGrace, Presence!Reply, Presence!redis, Presence!game, Presence!NoBegin
<1>2. HandlerOK(t) /\ l \in SeatLocals /\ "idle" \in SeatLabels
  BY BlankSeat DEF PresenceInv, SeatLabels
<1>3. s \in Presence!Sides /\ loc[t].node = node
  BY <1>1, <1>2 DEF HandlerOK
<1>4. pc'[t] = "idle" /\ loc'[t] = l
  BY <1>1, <1>2, SeatMoves DEF PresenceInv
<1>5. HandlerOK(t)'
  BY <1>4 DEF HandlerOK, Seating
<1>6. /\ graces' \in [{node} -> SUBSET Presence!Sides] /\ presence' \subseteq Presence!Sides
      /\ gone' \in [Presence!Sides -> {"no", "fresh", "old"}]
      /\ graces'[node] = graces[node] \cup {s}
  BY <1>1, <1>3 DEF PresenceInv, SeatTypes
<1>7. ASSUME smooth, active
      PROVE  TaleOK(t)' /\ \A r \in Presence!Sides : ~Attends("idle", l, r) => Marked(r)'
  <2>1. TaleOK(t) /\ \A r \in Presence!Sides : ~Attends("schedule", loc[t], r) => Marked(r)
    BY <1>1, <1>7, TaleOf
  <2>2. TaleOK(t)'
    BY <1>4 DEF TaleOK, Leaving
  <2>3. ASSUME NEW r \in Presence!Sides PROVE Marked(r)'
    <3>1. CASE r = s
      <4>1. Up(s) = {} /\ here[node][s] = {} /\ ~Fresh(s) /\ s \notin presence /\ gone[s] # "no"
        BY <1>1, <2>1 DEF TaleOK, Leaving
      <4> HIDE DEF s
      <4> QED BY <3>1, <4>1, <1>1, SocketsStay DEF Marked
    <3>2. CASE r # s
      <4>1. ~Attends("schedule", loc[t], r)
        BY <3>2 DEF Attends
      <4> HIDE DEF s
      <4> QED BY <3>2, <4>1, <2>1, <1>1, <1>6, SocketsStay, MarksStay
    <3> QED BY <3>1, <3>2
  <2> QED BY <2>2, <2>3
<1> HIDE DEF l
<1> QED BY <1>1, <1>2, <1>5, <1>6, <1>7, MarkStep

LEMMA UpIs ==
  ASSUME SeatTypes
  PROVE  \A s \in Presence!Sides : Presence!Connected(s) <=> Up(s) # {}
  BY SidesAre DEF Presence!Connected, Up

\* Nobody of a side is seated of whom no socket is up.
LEMMA NobodySeated ==
  ASSUME SeatTypes, NEW s \in Presence!Sides, Up(s) = {}
  PROVE  ~Presence!Seated(s)
<1>1. joined \subseteq Sockets
  BY DEF SeatTypes
<1> QED BY <1>1 DEF Presence!Seated, Up

LEMMA IsPresentStep == ASSUME PresenceInv, NEW t \in Desks, Presence!IsPresent(t) PROVE PresenceInv'
<1> DEFINE l == loc[t]
           label == IF loc[t].side \in presence THEN "forget" ELSE "rival"
<1>1. /\ pc[t] = "look" /\ Presence!Goto(t, label, l)
      /\ UNCHANGED <<socket, here, joined, timers, graces, gone, presence, active, moved, verdict, smooth>>
  BY DEF Presence!IsPresent, Presence!memory, Presence!redis, Presence!game, Presence!NoBegin
<1>2. HandlerOK(t) /\ l \in SeatLocals /\ label \in SeatLabels
  BY SeatShape DEF PresenceInv, SeatLabels
<1>6. pc'[t] = label /\ loc'[t] = l
  BY <1>1, <1>2, SeatMoves DEF PresenceInv
<1>7. HandlerOK(t)'
  BY <1>1, <1>2, <1>6 DEF HandlerOK, Seating
<1>8. /\ graces' \in [{node} -> SUBSET Presence!Sides] /\ presence' \subseteq Presence!Sides
      /\ gone' \in [Presence!Sides -> {"no", "fresh", "old"}]
  BY <1>1 DEF PresenceInv, SeatTypes
<1>9. ASSUME smooth, active
      PROVE  TaleOK(t)' /\ \A r \in Presence!Sides : ~Attends(label, l, r) => Marked(r)'
  <2>1. TaleOK(t) /\ \A r \in Presence!Sides : Marked(r)
    <3>1. \A r : ~Attends(pc[t], loc[t], r)
      BY <1>1 DEF Attends, Seating, Leaving
    <3> QED BY <3>1, <1>1, <1>9, TaleOf
  <2>2. loc[t].side \in Presence!Sides /\ gone[loc[t].side] # "no"
    BY <1>1, <1>2, <2>1 DEF HandlerOK, TaleOK
  <2>3. Up(loc[t].side) = {} /\ loc[t].side \notin presence
    BY <2>1, <2>2 DEF Marked
  <2>4. label = "rival"
    BY <2>3
  <2>5. TaleOK(t)'
    BY <2>3, <2>4, <1>1, <1>6, SocketsStay DEF TaleOK, Leaving, Seating
  <2>6. \A r \in Presence!Sides : Marked(r)'
    BY <2>1, <1>1, SocketsStay, MarksStay
  <2> QED BY <2>5, <2>6
<1> HIDE DEF label
<1> QED BY <1>1, <1>2, <1>7, <1>8, <1>9, MarkStep

LEMMA IsRivalPresentStep == ASSUME PresenceInv, NEW t \in Desks, Presence!IsRivalPresent(t) PROVE PresenceInv'
<1> DEFINE o == Presence!Other(loc[t].side)
           l == [loc[t] EXCEPT !.rival = o \in presence]
<1>1. /\ pc[t] = "rival" /\ Presence!Goto(t, "abandon", l)
      /\ UNCHANGED <<socket, here, joined, timers, graces, gone, presence, active, moved, verdict, smooth>>
  BY DEF Presence!IsRivalPresent, Presence!memory, Presence!redis, Presence!game, Presence!NoBegin
<1>2. HandlerOK(t) /\ loc[t] \in SeatLocals /\ "abandon" \in SeatLabels
  BY SeatShape DEF PresenceInv, SeatLabels
<1>3. (o \in presence) \in BOOLEAN /\ o \in Presence!Sides /\ o = Presence!Other(loc[t].side)
  BY DEF Presence!Other, Presence!Sides
<1> HIDE DEF o
<1>4. /\ l \in SeatLocals /\ l.side = loc[t].side /\ l.node = loc[t].node /\ l.by = loc[t].by
      /\ l.rival = (o \in presence)
  BY <1>2, <1>3 DEF SeatLocals
<1> HIDE DEF l
<1>6. pc'[t] = "abandon" /\ loc'[t] = l
  BY <1>1, <1>2, <1>4, SeatMoves DEF PresenceInv
<1>8. /\ graces' \in [{node} -> SUBSET Presence!Sides] /\ presence' \subseteq Presence!Sides
      /\ gone' \in [Presence!Sides -> {"no", "fresh", "old"}]
  BY <1>1 DEF PresenceInv, SeatTypes
<1>9. HandlerOK(t)'
  BY <1>1, <1>2, <1>4, <1>6 DEF HandlerOK, Seating
<1>10. ASSUME smooth, active
       PROVE  TaleOK(t)' /\ \A r \in Presence!Sides : ~Attends("abandon", l, r) => Marked(r)'
  <2>1. TaleOK(t) /\ \A r \in Presence!Sides : Marked(r)
    <3>1. \A r : ~Attends(pc[t], loc[t], r)
      BY <1>1 DEF Attends, Seating, Leaving
    <3> QED BY <3>1, <1>1, <1>10, TaleOf
  <2>2. Up(loc[t].side) = {} /\ (l.rival <=> Up(o) # {})
    BY <2>1, <1>1, <1>3, <1>4 DEF TaleOK, Marked
  <2>3. TaleOK(t)'
    BY <2>2, <1>1, <1>3, <1>4, <1>6, SocketsStay DEF TaleOK, Leaving, Seating
  <2>4. \A r \in Presence!Sides : Marked(r)'
    BY <2>1, <1>1, SocketsStay, MarksStay
  <2> QED BY <2>3, <2>4
<1> QED BY <1>1, <1>2, <1>4, <1>8, <1>9, <1>10, MarkStep

\* ABANDONED, by the timer or by the sweeper.
LEMMA AbandonStep == ASSUME PresenceInv, NEW t \in Desks, Presence!Abandon(t) PROVE PresenceInv'
<1> DEFINE l == loc[t]
<1>1. /\ pc[t] = "abandon" /\ UNCHANGED <<socket, here, joined, timers, graces, gone, presence, moved, smooth>>
      /\ IF active
         THEN /\ active' = FALSE
              /\ verdict' = [by |-> l.by, loser |-> l.side, rival |-> l.rival,
                             away |-> ~Presence!Seated(l.side), there |-> Presence!Connected(Presence!Other(l.side))]
              /\ Presence!Goto(t, "clear", l)
         ELSE /\ IF l.by = "sweeper" THEN Presence!Goto(t, "forget", l) ELSE Presence!Goto(t, "idle", Presence!Blank)
              /\ UNCHANGED <<active, verdict>>
  BY DEF Presence!Abandon, Presence!Reply, Presence!memory, Presence!redis, Presence!NoBegin
<1>2. HandlerOK(t) /\ l \in SeatLocals
  BY SeatShape DEF PresenceInv
<1>3. l.side \in Presence!Sides /\ l.node = node /\ Presence!Other(l.side) \in Presence!Sides
  BY <1>1, <1>2 DEF HandlerOK, Presence!Other, Presence!Sides
<1>4. "clear" \in SeatLabels /\ "forget" \in SeatLabels /\ "idle" \in SeatLabels
  BY DEF SeatLabels
<1>5. SeatsKept' /\ \A x \in Sockets : Known(x) => Known(x)'
  BY <1>1 DEF PresenceInv, SeatsKept, Known
<1>6. CASE active
  <2>1. pc'[t] = "clear" /\ loc'[t] = l
    BY <1>1, <1>2, <1>4, <1>6, SeatMoves DEF PresenceInv
  <2>2. SeatTypes' /\ active' = FALSE
    BY <1>1, <1>6 DEF PresenceInv, SeatTypes
  <2>3. smooth => ~Presence!Seated(l.side) /\ (l.rival <=> Presence!Connected(Presence!Other(l.side)))
    <3> SUFFICES ASSUME smooth PROVE ~Presence!Seated(l.side) /\ (l.rival <=> Presence!Connected(Presence!Other(l.side)))
      OBVIOUS
    <3>1. Up(l.side) = {} /\ (l.rival <=> Up(Presence!Other(l.side)) # {})
      BY <1>1, <1>6, TaleOf DEF TaleOK
    <3> QED BY <3>1, <1>3, NobodySeated, UpIs DEF PresenceInv
  <2>4. VerdictOK'
    <3>1. l.rival \in BOOLEAN /\ Presence!Connected(Presence!Other(l.side)) \in BOOLEAN
      BY <1>2 DEF SeatLocals, Presence!Connected
    <3>2. ASSUME NEW a \in BOOLEAN, NEW h \in BOOLEAN, smooth => a = TRUE /\ l.rival = h,
                 verdict' = [by |-> l.by, loser |-> l.side, rival |-> l.rival, away |-> a, there |-> h]
          PROVE  VerdictOK'
      BY <3>2, <1>1, <1>6 DEF VerdictOK
    <3>3. Presence!Seated(l.side) \in BOOLEAN
      BY DEF Presence!Seated
    <3>4. smooth => (~Presence!Seated(l.side)) = TRUE /\ l.rival = Presence!Connected(Presence!Other(l.side))
      BY <2>3, <3>1, <3>3
    <3> QED BY <3>1, <3>2, <3>3, <3>4, <1>1, <1>6
  <2>5. HandlerOK(t)'
    BY <1>3, <2>1, <2>2 DEF HandlerOK, Seating
  <2> QED BY <1>1, <1>2, <1>4, <1>5, <1>6, <2>2, <2>4, <2>5, SeatStep
<1>7. ASSUME ~active, NEW label \in {"forget", "idle"}, NEW m \in SeatLocals, Presence!Goto(t, label, m),
             label = "forget" => m = l
      PROVE  PresenceInv'
  <2>1. pc'[t] = label /\ loc'[t] = m
    BY <1>4, <1>7, SeatMoves DEF PresenceInv
  <2>2. HandlerOK(t)'
    BY <1>3, <1>7, <2>1 DEF HandlerOK, Seating
  <2>3. /\ graces' \in [{node} -> SUBSET Presence!Sides] /\ presence' \subseteq Presence!Sides
        /\ gone' \in [Presence!Sides -> {"no", "fresh", "old"}] /\ UNCHANGED <<active, verdict>>
    BY <1>1, <1>7 DEF PresenceInv, SeatTypes
  <2>4. label \in SeatLabels
    BY <1>4, <1>7
  <2> QED BY <1>1, <1>7, <2>2, <2>3, <2>4, MarkStep
<1> QED BY <1>1, <1>2, <1>6, <1>7, BlankSeat

\* What a handler does once the game is over.
LEMMA ForgetStep == ASSUME PresenceInv, NEW t \in Desks, Presence!ForgetGone(t) PROVE PresenceInv'
<1>1. /\ pc[t] = "forget" /\ gone' = [gone EXCEPT ![loc[t].side] = "no"] /\ Presence!Goto(t, "idle", Presence!Blank)
      /\ UNCHANGED <<socket, here, joined, timers, graces, presence, active, moved, verdict, smooth>>
  BY DEF Presence!ForgetGone, Presence!Returned, Presence!Reply, Presence!memory, Presence!game, Presence!NoBegin
<1>2. "idle" \in SeatLabels
  BY DEF SeatLabels
<1>3. pc'[t] = "idle"
  BY <1>1, <1>2, BlankSeat, SeatMoves DEF PresenceInv
<1>4. HandlerOK(t)'
  BY <1>3 DEF HandlerOK, Seating
<1>5. ~(smooth /\ active)
  BY <1>1, TaleOf DEF TaleOK
<1>6. /\ graces' \in [{node} -> SUBSET Presence!Sides] /\ presence' \subseteq Presence!Sides
      /\ gone' \in [Presence!Sides -> {"no", "fresh", "old"}]
  BY <1>1 DEF PresenceInv, SeatTypes
<1> QED BY <1>1, <1>2, <1>4, <1>5, <1>6, BlankSeat, MarkStep

LEMMA ClearKeysSeatStep == ASSUME PresenceInv, NEW t \in Desks, Presence!ClearKeys(t) PROVE PresenceInv'
<1>1. /\ pc[t] = "clear" /\ presence' = {} /\ gone' = [s \in Presence!Sides |-> "no"]
      /\ Presence!Goto(t, "announce", loc[t])
      /\ UNCHANGED <<socket, here, joined, timers, graces, active, moved, verdict, smooth>>
  BY DEF Presence!ClearKeys, Presence!memory, Presence!game, Presence!NoBegin
<1>2. HandlerOK(t) /\ loc[t] \in SeatLocals /\ "announce" \in SeatLabels
  BY SeatShape DEF PresenceInv, SeatLabels
<1>3. pc'[t] = "announce" /\ loc'[t] = loc[t]
  BY <1>1, <1>2, SeatMoves DEF PresenceInv
<1>4. HandlerOK(t)' /\ ~active
  BY <1>1, <1>2, <1>3 DEF HandlerOK, Seating
<1>5. /\ graces' \in [{node} -> SUBSET Presence!Sides] /\ presence' \subseteq Presence!Sides
      /\ gone' \in [Presence!Sides -> {"no", "fresh", "old"}]
  BY <1>1 DEF PresenceInv, SeatTypes
<1> QED BY <1>1, <1>2, <1>4, <1>5, MarkStep

LEMMA TimersGo ==
  ASSUME SeatTypes, Presence!TimersCleared(node)
  PROVE  graces' \in [{node} -> SUBSET Presence!Sides] /\ timers' \in [{node} -> SUBSET {"flag", "tick"}]
  BY DEF Presence!TimersCleared, SeatTypes

\* The sockets of the game are forgotten.
LEMMA SeatsCleared ==
  ASSUME SeatTypes, SeatsKept, UNCHANGED socket, here' = [here EXCEPT ![node] = [s \in Presence!Sides |-> {}]],
         joined' = joined \ UNION {here[node][s] : s \in Presence!Sides}
  PROVE  joined' = {} /\ here' \in [{node} -> [Presence!Sides -> SUBSET Sockets]] /\ SeatsKept'
<1>1. here' \in [{node} -> [Presence!Sides -> SUBSET Sockets]] /\ \A s \in Presence!Sides : here'[node][s] = {}
  BY DEF SeatTypes
<1>2. joined \subseteq Sockets
  BY DEF SeatTypes
<1>3. joined' = {}
  BY <1>2, SidesAre DEF SeatsKept
<1> QED BY <1>1, <1>3, SidesAre DEF SeatsKept, Known

LEMMA AnnounceEndStep == ASSUME PresenceInv, NEW t \in Desks, Presence!AnnounceEnd(t) PROVE PresenceInv'
<1> DEFINE l == loc[t]
           label == IF l.by = "sweeper" THEN "forget" ELSE "idle"
           m == IF l.by = "sweeper" THEN l ELSE Presence!Blank
<1>1. /\ pc[t] = "announce" /\ Presence!TimersCleared(l.node) /\ Presence!Goto(t, label, m)
      /\ UNCHANGED <<socket, gone, presence, active, moved, verdict, smooth>>
      /\ IF l.by = "sweeper" THEN UNCHANGED <<here, joined>>
         ELSE /\ here' = [here EXCEPT ![l.node] = [s \in Presence!Sides |-> {}]]
              /\ joined' = joined \ UNION {here[l.node][s] : s \in Presence!Sides}
  BY DEF Presence!AnnounceEnd, Presence!Reply, Presence!redis, Presence!game, Presence!NoBegin
<1>2. HandlerOK(t) /\ l \in SeatLocals /\ label \in SeatLabels /\ m \in SeatLocals
  BY SeatShape, BlankSeat DEF PresenceInv, SeatLabels
<1>3. l.node = node /\ ~active /\ (l.by = "sweeper" => l.side \in Presence!Sides)
  BY <1>1, <1>2 DEF HandlerOK
<1>4. pc'[t] = label /\ loc'[t] = m
  BY <1>1, <1>2, SeatMoves DEF PresenceInv
<1>5. HandlerOK(t)'
  BY <1>3, <1>4, <1>2, <1>1 DEF HandlerOK, Seating
<1>6. graces' \in [{node} -> SUBSET Presence!Sides] /\ timers' \in [{node} -> SUBSET {"flag", "tick"}]
  BY <1>1, <1>3, TimersGo DEF PresenceInv
<1>7. SeatsKept' /\ here' \in [{node} -> [Presence!Sides -> SUBSET Sockets]] /\ joined' \subseteq Sockets
  <2>1. CASE l.by = "sweeper"
    BY <2>1, <1>1 DEF PresenceInv, SeatTypes, SeatsKept, Known
  <2>2. CASE l.by # "sweeper"
    BY <2>2, <1>1, <1>3, SeatsCleared DEF PresenceInv
  <2> QED BY <2>1, <2>2
<1>8. SeatTypes' /\ VerdictOK' /\ \A x \in Sockets : Known(x) => Known(x)'
  BY <1>1, <1>6, <1>7 DEF PresenceInv, SeatTypes, VerdictOK, Known
<1> HIDE DEF label, m
<1> QED BY <1>1, <1>2, <1>3, <1>5, <1>7, <1>8, SeatStep

\* A handler that begins, when the code before its first await changes nothing else that is told of.
LEMMA SeatBegins ==
  ASSUME DeskTypes, smooth \in BOOLEAN, NEW t \in Desks, NEW label, NEW l, Presence!Begin(t, label, l)
  PROVE  /\ pc[t] = "idle" /\ Presence!Goto(t, label, l) /\ smooth' \in BOOLEAN
         /\ smooth' => smooth /\ \A u \in Desks : pc[u] = "idle"
  BY DEF Presence!Begin

\* While nobody is under way all sides are marked.
LEMMA AllMarked ==
  ASSUME PresenceInv, smooth, active, \A u \in Desks : pc[u] = "idle"
  PROVE  Watched /\ \A s \in Presence!Sides : Marked(s)
<1>1. \A u \in Desks, s \in Presence!Sides : ~Attends(pc[u], loc[u], s)
  BY DEF Attends, Seating, Leaving
<1> QED BY <1>1 DEF PresenceInv, TalesAgree

LEMMA BeginJoinStep == ASSUME PresenceInv, NEW t \in Desks, Presence!BeginJoin(t) PROVE PresenceInv'
<1>1. PICK x \in Sockets :
        /\ socket[x].state = "new" /\ socket' = [socket EXCEPT ![x] = [state |-> "up", node |-> node]]
        /\ Presence!Begin(t, "view", [Presence!Blank EXCEPT !.socket = x, !.node = node, !.side = SideOf[x]])
  BY DEF Presence!BeginJoin
<1> DEFINE s == SideOf[x]
           l == [Presence!Blank EXCEPT !.socket = x, !.node = node, !.side = s]
<1>2. UNCHANGED <<here, joined, timers, graces, gone, presence, active, moved, verdict>>
  BY DEF Presence!BeginJoin, Presence!memory, Presence!redis, Presence!game
<1>3. s \in Presence!Sides /\ "view" \in SeatLabels /\ smooth \in BOOLEAN
  BY SidesAre DEF SeatLabels, PresenceInv, SeatTypes
<1>4. l \in SeatLocals /\ l.socket = x /\ l.node = node /\ l.side = s /\ l.by = Null
  BY <1>3, BlankSeat DEF Presence!Blank, SeatLocals, Places
<1> HIDE DEF l
<1>5. /\ pc[t] = "idle" /\ Presence!Goto(t, "view", l) /\ smooth' \in BOOLEAN
      /\ smooth' => smooth /\ \A u \in Desks : pc[u] = "idle"
  BY <1>1, <1>3, SeatBegins DEF PresenceInv, l
<1>6. pc'[t] = "view" /\ loc'[t] = l
  BY <1>3, <1>4, <1>5, SeatMoves DEF PresenceInv
<1>7. /\ socket' \in [Sockets -> [state : {"new", "up", "down"}, node : Places]]
      /\ socket'[x].state = "up" /\ socket'[x].node = node /\ \A y \in Sockets \ {x} : socket'[y] = socket[y]
  BY <1>1 DEF PresenceInv, SeatTypes, Places
<1>8. SeatTypes'
  BY <1>2, <1>5, <1>7 DEF PresenceInv, SeatTypes
<1>9. \A y \in Sockets : Known(y)' <=> Known(y) \/ y = x
  BY <1>1, <1>7 DEF Known
<1>10. SeatsKept'
  <2>1. \A y \in joined : y \in Sockets
    BY DEF PresenceInv, SeatTypes
  <2>2. \A y \in Sockets : Known(y)' => socket'[y].node = node
    BY <1>7, <1>9 DEF PresenceInv, SeatsKept
  <2> QED BY <2>1, <2>2, <1>2, <1>9 DEF PresenceInv, SeatsKept
<1>11. VerdictOK'
  BY <1>2, <1>5 DEF PresenceInv, VerdictOK
<1>12. HandlerOK(t)'
  BY <1>3, <1>4, <1>6, <1>7 DEF HandlerOK, Seating, Known
<1>13. ASSUME smooth', active
       PROVE  Watched' /\ TaleOK(t)' /\ \A r \in Presence!Sides : ~Attends("view", l, r) => Marked(r)'
  <2>1. Watched /\ \A r \in Presence!Sides : Marked(r)
    BY <1>5, <1>13, AllMarked
  <2>2. Up(s)' = Up(s) \cup {x} /\ x \notin Up(s)
    BY <1>1, <1>7 DEF Up
  <2>3. TaleOK(t)'
    <3>1. x \in Up(s)' /\ here'[node][s] = Up(s)' \ {x}
      BY <2>1, <2>2, <1>2, <1>3 DEF Marked
    <3> HIDE DEF s
    <3> QED BY <3>1, <1>4, <1>6 DEF TaleOK, Leaving, Up
  <2>4. ASSUME NEW r \in Presence!Sides, ~Attends("view", l, r) PROVE Marked(r)'
    <3>1. r # s
      BY <2>4, <1>4 DEF Attends, Seating
    <3>2. Up(r)' = Up(r) /\ (Fresh(r)' <=> Fresh(r))
      BY <3>1, <1>1, <1>7, <1>9 DEF Up, Fresh
    <3> QED BY <3>2, <2>1, <1>2, MarksStay
  <2> QED BY <2>1, <2>3, <2>4, <1>2 DEF Watched
<1> QED BY <1>2, <1>3, <1>4, <1>5, <1>8, <1>9, <1>10, <1>11, <1>12, <1>13, SeatStep

LEMMA HereIs ==
  ASSUME SeatTypes, NEW s \in Presence!Sides, NEW S \in SUBSET Sockets, here' = [here EXCEPT ![node][s] = S]
  PROVE  /\ here' \in [{node} -> [Presence!Sides -> SUBSET Sockets]]
         /\ here'[node][s] = S /\ \A r \in Presence!Sides \ {s} : here'[node][r] = here[node][r]
<1>1. here[node] \in [Presence!Sides -> SUBSET Sockets]
  BY DEF SeatTypes
<1>2. here' = [here EXCEPT ![node] = [here[node] EXCEPT ![s] = S]]
  BY DEF SeatTypes
<1>3. here'[node] = [here[node] EXCEPT ![s] = S]
  BY <1>2 DEF SeatTypes
<1> QED BY <1>1, <1>2, <1>3 DEF SeatTypes

LEMMA RegisterStep == ASSUME PresenceInv, NEW t \in Desks, Presence!Register(t) PROVE PresenceInv'
<1> DEFINE l == loc[t]
           x == l.socket
           s == l.side
<1>1. /\ pc[t] = "view" /\ UNCHANGED <<socket, timers, graces, gone, presence, active, moved, verdict, smooth>>
      /\ IF active
         THEN /\ here' = [here EXCEPT ![l.node][s] = here[l.node][s] \cup {x}] /\ joined' = joined \cup {x}
              /\ Presence!Goto(t, "present", l)
         ELSE Presence!Goto(t, "idle", Presence!Blank) /\ UNCHANGED <<here, joined>>
  BY DEF Presence!Register, Presence!Reply, Presence!redis, Presence!game, Presence!NoBegin
<1>2. HandlerOK(t) /\ l \in SeatLocals /\ "present" \in SeatLabels /\ "idle" \in SeatLabels
  BY SeatShape DEF PresenceInv, SeatLabels
<1>3. s \in Presence!Sides /\ l.node = node /\ x \in Sockets /\ s = SideOf[x] /\ Known(x)
  BY <1>1, <1>2 DEF HandlerOK, Seating
<1>4. /\ graces' \in [{node} -> SUBSET Presence!Sides] /\ presence' \subseteq Presence!Sides
      /\ gone' \in [Presence!Sides -> {"no", "fresh", "old"}]
      /\ \A y \in Sockets : Known(y)' <=> Known(y)
  BY <1>1, SocketsStay DEF PresenceInv, SeatTypes
<1>5. CASE active
  <2> HIDE DEF x, s
  <2>1. here[node][s] \cup {x} \in SUBSET Sockets
    BY <1>3, SeatShape DEF PresenceInv
  <2>2. /\ here' \in [{node} -> [Presence!Sides -> SUBSET Sockets]]
        /\ here'[node][s] = here[node][s] \cup {x}
        /\ \A r \in Presence!Sides \ {s} : here'[node][r] = here[node][r]
    BY <2>1, <1>1, <1>3, <1>5, HereIs DEF PresenceInv
  <2>3. SeatTypes'
    BY <2>2, <1>1, <1>3, <1>5 DEF PresenceInv, SeatTypes
  <2>4. joined' = joined \cup {x} /\ Presence!Goto(t, "present", l)
    BY <1>1, <1>5
  <2>5. SeatsKept'
    <3>1. \A y \in Sockets : y \in joined' <=> y \in here'[node][SideOf[y]]
      <4> SUFFICES ASSUME NEW y \in Sockets PROVE y \in joined' <=> y \in here'[node][SideOf[y]]
        OBVIOUS
      <4>1. y \in joined <=> y \in here[node][SideOf[y]]
        BY DEF PresenceInv, SeatsKept
      <4>2. SideOf[y] \in Presence!Sides
        BY SidesAre
      <4> QED BY <4>1, <4>2, <2>2, <2>4, <1>3
    <3>2. \A r \in Presence!Sides : \A y \in here'[node][r] : SideOf[y] = r
      BY <2>2, <1>3 DEF PresenceInv, SeatsKept
    <3>3. (\A y \in joined' : Known(y)) /\ \A y \in Sockets : Known(y) => socket[y].node = node
      BY <2>4, <1>3 DEF PresenceInv, SeatsKept
    <3> QED BY <3>1, <3>2, <3>3, <1>1 DEF SeatsKept, Known
  <2>6. VerdictOK'
    BY <1>1 DEF PresenceInv, VerdictOK
  <2>7. pc'[t] = "present" /\ loc'[t] = l
    BY <1>2, <2>4, SeatMoves DEF PresenceInv
  <2>8. HandlerOK(t)'
    BY <1>1, <1>2, <2>7, SocketsStay DEF HandlerOK, Seating
  <2>9. ASSUME smooth
        PROVE  Watched' /\ TaleOK(t)' /\ \A r \in Presence!Sides : ~Attends("present", l, r) => Marked(r)'
    <3>1. Watched /\ TaleOK(t) /\ \A r \in Presence!Sides : ~Attends("view", l, r) => Marked(r)
      BY <1>1, <1>5, <2>9, TaleOf
    <3>2. TaleOK(t)'
      <4>1. x \in Up(s) /\ here[node][s] = Up(s) \ {x}
        BY <3>1, <1>1 DEF TaleOK, x, s
      <4>2. Up(s) # {} /\ here'[node][s] = Up(s)
        BY <4>1, <2>2
      <4> QED BY <4>2, <1>1, <2>7, SocketsStay DEF TaleOK, Leaving, s
    <3>3. ASSUME NEW r \in Presence!Sides, ~Attends("present", l, r) PROVE Marked(r)'
      <4>1. r # s /\ ~Attends("view", l, r)
        BY <3>3 DEF Attends, Seating, Leaving, s
      <4> HIDE DEF l
      <4> QED BY <4>1, <3>1, <1>1, <2>2, SocketsStay, MarksStay
    <3> QED BY <3>1, <3>2, <3>3, <1>1 DEF Watched
  <2> HIDE DEF l
  <2> QED BY <1>1, <1>2, <1>4, <2>3, <2>4, <2>5, <2>6, <2>8, <2>9, SeatStep DEF l
<1>6. CASE ~active
  <2>1. Presence!Goto(t, "idle", Presence!Blank) /\ UNCHANGED <<here, joined>>
    BY <1>1, <1>6
  <2>2. pc'[t] = "idle"
    BY <1>2, <2>1, BlankSeat, SeatMoves DEF PresenceInv
  <2>3. HandlerOK(t)'
    BY <2>2 DEF HandlerOK, Seating
  <2> QED BY <1>1, <1>2, <1>4, <1>6, <2>1, <2>3, BlankSeat, MarkStep
<1> QED BY <1>5, <1>6

LEMMA DisconnectSeatStep == ASSUME PresenceInv, NEW t \in Desks, Presence!Disconnect(t) PROVE PresenceInv'
<1>1. PICK x \in Sockets :
        /\ socket[x].state = "up" /\ socket' = [socket EXCEPT ![x].state = "down"] /\ joined' = joined \ {x}
        /\ here' = [here EXCEPT ![socket[x].node][SideOf[x]] = here[socket[x].node][SideOf[x]] \ {x}]
        /\ IF x \in joined /\ Presence!LastOne(socket[x].node, x)
           THEN Presence!Begin(t, "row", [Presence!Blank EXCEPT !.node = socket[x].node, !.side = SideOf[x]])
           ELSE /\ UNCHANGED <<pc, loc>>
                /\ smooth' = (smooth /\ \A u \in Desks : pc[u] = "idle")
        /\ UNCHANGED <<graces, timers, presence, gone, active, moved, verdict>>
  BY DEF Presence!Disconnect, Presence!redis, Presence!game
<1> DEFINE s == SideOf[x]
           l == [Presence!Blank EXCEPT !.node = node, !.side = s]
<1>2. socket[x].node = node /\ s \in Presence!Sides /\ smooth \in BOOLEAN
  BY <1>1, SidesAre DEF PresenceInv, SeatTypes, SeatsKept, Known
<1> HIDE DEF s
<1>3. /\ socket' \in [Sockets -> [state : {"new", "up", "down"}, node : Places]]
      /\ socket'[x].state = "down" /\ socket'[x].node = node /\ \A y \in Sockets \ {x} : socket'[y] = socket[y]
  BY <1>1, <1>2 DEF PresenceInv, SeatTypes
<1>4. /\ here' \in [{node} -> [Presence!Sides -> SUBSET Sockets]]
      /\ here'[node][s] = here[node][s] \ {x}
      /\ \A r \in Presence!Sides \ {s} : here'[node][r] = here[node][r]
  <2>1. here[node][s] \ {x} \in SUBSET Sockets
    BY <1>2, SeatShape DEF PresenceInv
  <2>2. here' = [here EXCEPT ![node][s] = here[node][s] \ {x}]
    BY <1>1, <1>2 DEF s
  <2> QED BY <2>1, <2>2, <1>2, HereIs DEF PresenceInv
<1>5. \A y \in Sockets : Known(y)' <=> Known(y)
  BY <1>1, <1>3 DEF Known
<1>6. SeatsKept'
  <2>1. \A y \in Sockets : y \in joined' <=> y \in here'[node][SideOf[y]]
    <3> SUFFICES ASSUME NEW y \in Sockets PROVE y \in joined' <=> y \in here'[node][SideOf[y]]
      OBVIOUS
    <3>1. (y \in joined <=> y \in here[node][SideOf[y]]) /\ SideOf[y] \in Presence!Sides
      BY SidesAre DEF PresenceInv, SeatsKept
    <3>2. y = x => SideOf[y] = s
      BY DEF s
    <3> QED BY <3>1, <3>2, <1>1, <1>4
  <2>2. \A r \in Presence!Sides : \A y \in here'[node][r] : SideOf[y] = r
    BY <1>4, <1>2 DEF PresenceInv, SeatsKept
  <2>3. \A y \in joined' : y \in Sockets /\ Known(y)'
    BY <1>1, <1>5 DEF PresenceInv, SeatTypes, SeatsKept
  <2>4. \A y \in Sockets : Known(y)' => socket'[y].node = node
    BY <1>3, <1>5 DEF PresenceInv, SeatsKept
  <2> QED BY <2>1, <2>2, <2>3, <2>4 DEF SeatsKept
<1>7. smooth' \in BOOLEAN /\ (smooth' => smooth /\ \A u \in Desks : pc[u] = "idle")
  BY <1>1, <1>2 DEF Presence!Begin
<1>8. SeatTypes'
  BY <1>1, <1>3, <1>4, <1>7 DEF PresenceInv, SeatTypes
<1>9. VerdictOK'
  BY <1>1, <1>7 DEF PresenceInv, VerdictOK
<1>10. ASSUME smooth', active
       PROVE  /\ Watched' /\ x \in joined /\ here[node][s] = Up(s) /\ Up(s)' = Up(s) \ {x} /\ x \in Up(s) /\ Marked(s)
              /\ \A r \in Presence!Sides \ {s} : Marked(r)'
  <2>1. Watched /\ \A r \in Presence!Sides : Marked(r)
    BY <1>7, <1>10, AllMarked
  <2>2. x \in Up(s) /\ Up(s)' = Up(s) \ {x}
    BY <1>1, <1>3 DEF Up, s
  <2>3. here[node][s] = Up(s) /\ x \in joined
    BY <2>1, <2>2, <1>2 DEF Marked, PresenceInv, SeatsKept, s
  <2>4. ASSUME NEW r \in Presence!Sides \ {s} PROVE Marked(r)'
    <3>1. Up(r)' = Up(r) /\ (Fresh(r)' <=> Fresh(r))
      BY <2>4, <1>1, <1>3, <1>5 DEF Up, Fresh, s
    <3> QED BY <3>1, <2>1, <1>1, <1>4, MarksStay
  <2> QED BY <2>1, <2>2, <2>3, <2>4, <1>1, <1>2 DEF Watched
<1>11. CASE x \in joined /\ Presence!LastOne(node, x)
  <2>1. Presence!Begin(t, "row", l) /\ "row" \in SeatLabels
    BY <1>1, <1>2, <1>11 DEF SeatLabels, s
  <2>2. l \in SeatLocals /\ l.node = node /\ l.side = s /\ l.by = Null
    BY <1>2, BlankSeat DEF Presence!Blank, SeatLocals, Places
  <2> HIDE DEF l
  <2>3. pc[t] = "idle" /\ Presence!Goto(t, "row", l)
    BY <2>1, <1>2, SeatBegins DEF PresenceInv
  <2>4. pc'[t] = "row" /\ loc'[t] = l
    BY <2>1, <2>2, <2>3, SeatMoves DEF PresenceInv
  <2>5. HandlerOK(t)'
    BY <1>2, <2>2, <2>4 DEF HandlerOK, Seating
  <2>6. ASSUME smooth', active
        PROVE  Watched' /\ TaleOK(t)' /\ \A r \in Presence!Sides : ~Attends("row", l, r) => Marked(r)'
    <3>1. Up(s)' = {} /\ here'[node][s] = {}
      BY <2>6, <1>4, <1>10, <1>11 DEF Presence!LastOne, s
    <3>2. ~Fresh(s)'
      BY <1>3 DEF Fresh, Known, s
    <3>3. TaleOK(t)'
      BY <3>1, <3>2, <2>2, <2>4 DEF TaleOK, Leaving, Up, Fresh
    <3>4. \A r \in Presence!Sides : ~Attends("row", l, r) => r # s
      BY <2>2 DEF Attends, Leaving
    <3> QED BY <3>3, <3>4, <2>6, <1>10
  <2> QED BY <1>1, <1>5, <1>6, <1>7, <1>8, <1>9, <2>1, <2>2, <2>3, <2>5, <2>6, SeatStep
<1>12. CASE ~(x \in joined /\ Presence!LastOne(node, x))
  <2>1. UNCHANGED <<pc, loc>>
    BY <1>1, <1>2, <1>12
  <2>2. ASSUME smooth', active
        PROVE  /\ Watched' /\ \A u \in Desks : TaleOK(u)'
               /\ \A r \in Presence!Sides : Marked(r)'
    <3>1. \A u \in Desks : TaleOK(u)'
      BY <2>1, <2>2, <1>7 DEF TaleOK, Leaving
    <3>2. Up(s)' # {} /\ here'[node][s] = Up(s)'
      BY <2>2, <1>2, <1>4, <1>10, <1>12 DEF Presence!LastOne, s
    <3>3. s \in presence /\ gone[s] = "no" /\ s \notin graces[node]
      BY <2>2, <1>10 DEF Marked
    <3>4. Marked(s)'
      BY <3>2, <3>3, <1>1 DEF Marked
    <3> QED BY <3>1, <3>4, <2>2, <1>10
  <2> QED BY <1>1, <1>5, <1>6, <1>7, <1>8, <2>1, <2>2, QuietStep
<1> QED BY <1>11, <1>12

\* What is told stays told while what it is told of stays.
LEMMA TalesStay ==
  ASSUME UNCHANGED <<socket, here, presence, gone, pc, loc>>, NEW t \in Desks, TaleOK(t)
  PROVE  TaleOK(t)'
<1>1. (\A s : Up(s)' = Up(s)) /\ (Fresh(loc[t].side)' <=> Fresh(loc[t].side))
  BY DEF Up, Fresh, Known
<1> QED BY <1>1 DEF TaleOK

LEMMA GraceExpiredStep == ASSUME PresenceInv, NEW t \in Desks, Presence!OnGraceExpired(t) PROVE PresenceInv'
<1>1. PICK s \in graces[node] :
        /\ graces' = [graces EXCEPT ![node] = graces[node] \ {s}]
        /\ IF here[node][s] # {}
           THEN UNCHANGED <<pc, loc, smooth>>
           ELSE Presence!Begin(t, "abandon",
                  [Presence!Blank EXCEPT !.node = node, !.side = s,
                                         !.rival = here[node][Presence!Other(s)] # {}, !.by = "timer"])
        /\ UNCHANGED <<socket, here, joined, timers, presence, gone, active, moved, verdict>>
  BY DEF Presence!OnGraceExpired, Presence!redis, Presence!game
<1>2. s \in Presence!Sides /\ smooth \in BOOLEAN
  BY SeatShape DEF PresenceInv, SeatTypes
<1>3. smooth' \in BOOLEAN /\ (smooth' => smooth)
  BY <1>1, <1>2 DEF Presence!Begin
<1>4. SeatTypes' /\ SeatsKept' /\ graces'[node] \subseteq graces[node] /\ \A x \in Sockets : Known(x) => Known(x)'
  BY <1>1, <1>3 DEF PresenceInv, SeatTypes, SeatsKept, Known
<1>5. ASSUME NEW r \in Presence!Sides, Marked(r) PROVE Marked(r)'
  BY <1>1, <1>4, <1>5, SocketsStay, MarksStay
<1>6. CASE here[node][s] # {}
  <2>1. UNCHANGED <<pc, loc, smooth>>
    BY <1>1, <1>6
  <2>2. ASSUME smooth, active
        PROVE  /\ Watched' /\ \A u \in Desks : TaleOK(u)'
               /\ \A r \in Presence!Sides : (\A u \in Desks : ~Attends(pc[u], loc[u], r)) => Marked(r)'
    <3>1. /\ Watched /\ \A u \in Desks : TaleOK(u)
          /\ \A r \in Presence!Sides : (\A u \in Desks : ~Attends(pc[u], loc[u], r)) => Marked(r)
      BY <2>2 DEF PresenceInv, TalesAgree
    <3>2. \A u \in Desks : TaleOK(u)'
      BY <3>1, <2>1, <1>1, TalesStay
    <3> QED BY <3>1, <3>2, <1>1, <1>5 DEF Watched
  <2> QED BY <2>1, <2>2, <1>1, <1>3, <1>4, QuietStep
<1>7. CASE here[node][s] = {}
  <2> DEFINE o == Presence!Other(s)
             l == [Presence!Blank EXCEPT !.node = node, !.side = s, !.rival = here[node][o] # {}, !.by = "timer"]
  <2>1. Presence!Begin(t, "abandon", l) /\ "abandon" \in SeatLabels
    BY <1>1, <1>7 DEF SeatLabels
  <2>2. o \in Presence!Sides /\ o = Presence!Other(s)
    BY DEF Presence!Other, Presence!Sides
  <2> HIDE DEF o
  <2>3. /\ l \in SeatLocals /\ l.node = node /\ l.side = s /\ l.by = "timer" /\ l.rival = (here[node][o] # {})
    BY <1>2, <2>2 DEF Presence!Blank, SeatLocals, Places
  <2> HIDE DEF l
  <2>4. /\ pc[t] = "idle" /\ Presence!Goto(t, "abandon", l)
        /\ smooth' => smooth /\ \A u \in Desks : pc[u] = "idle"
    BY <2>1, <1>2, SeatBegins DEF PresenceInv
  <2>5. pc'[t] = "abandon" /\ loc'[t] = l
    BY <2>1, <2>3, <2>4, SeatMoves DEF PresenceInv
  <2>7. HandlerOK(t)'
    BY <1>2, <2>3, <2>5 DEF HandlerOK, Seating
  <2>8. VerdictOK'
    BY <1>1, <1>3 DEF PresenceInv, VerdictOK
  <2>9. ASSUME smooth', active
        PROVE  Watched' /\ TaleOK(t)' /\ \A r \in Presence!Sides : ~Attends("abandon", l, r) => Marked(r)'
    <3>1. Watched /\ \A r \in Presence!Sides : Marked(r)
      BY <2>4, <2>9, AllMarked
    <3>2. Up(s) = {} /\ (l.rival <=> Up(o) # {})
      BY <3>1, <1>2, <1>7, <2>2, <2>3 DEF Marked
    <3>3. TaleOK(t)'
      BY <3>2, <1>1, <2>2, <2>3, <2>5, SocketsStay DEF TaleOK, Leaving, Seating
    <3> QED BY <3>1, <3>3, <1>1, <1>5 DEF Watched
  <2> QED BY <1>1, <1>4, <2>1, <2>3, <2>4, <2>7, <2>8, <2>9, SeatStep
<1> QED BY <1>6, <1>7

LEMMA SweepGoneStep == ASSUME PresenceInv, NEW t \in Desks, Presence!SweepGone(t) PROVE PresenceInv'
<1> DEFINE label == IF active THEN "look" ELSE "forget"
<1>1. PICK s \in Presence!Sides :
        /\ gone[s] = "old" \/ (gone[s] # "no" /\ ~active)
        /\ Presence!Begin(t, label, [Presence!Blank EXCEPT !.node = node, !.side = s, !.by = "sweeper"])
        /\ UNCHANGED <<socket, here, joined, timers, graces, gone, presence, active, moved, verdict>>
  BY DEF Presence!SweepGone, Presence!memory, Presence!redis, Presence!game
<1> DEFINE l == [Presence!Blank EXCEPT !.node = node, !.side = s, !.by = "sweeper"]
<1>2. smooth \in BOOLEAN /\ active \in BOOLEAN /\ label \in SeatLabels
  BY DEF PresenceInv, SeatTypes, SeatLabels
<1>3. l \in SeatLocals /\ l.node = node /\ l.side = s /\ l.by = "sweeper"
  BY BlankSeat DEF Presence!Blank, SeatLocals, Places
<1>4. Presence!Begin(t, label, l)
  BY <1>1
<1> HIDE DEF l
<1>5. /\ pc[t] = "idle" /\ Presence!Goto(t, label, l) /\ smooth' \in BOOLEAN
      /\ smooth' => smooth /\ \A u \in Desks : pc[u] = "idle"
  BY <1>2, <1>4, SeatBegins DEF PresenceInv
<1>6. pc'[t] = label /\ loc'[t] = l
  BY <1>2, <1>3, <1>5, SeatMoves DEF PresenceInv
<1>7. HandlerOK(t)'
  BY <1>3, <1>6 DEF HandlerOK, Seating
<1>8. SeatTypes' /\ SeatsKept' /\ VerdictOK' /\ \A x \in Sockets : Known(x) => Known(x)'
  BY <1>1, <1>5 DEF PresenceInv, SeatTypes, SeatsKept, VerdictOK, Known
<1>9. ASSUME smooth', active
      PROVE  Watched' /\ TaleOK(t)' /\ \A r \in Presence!Sides : ~Attends(label, l, r) => Marked(r)'
  <2>1. Watched /\ \A r \in Presence!Sides : Marked(r)
    BY <1>5, <1>9, AllMarked
  <2>2. label = "look" /\ gone'[s] # "no"
    BY <1>1, <1>9
  <2>3. TaleOK(t)'
    BY <2>2, <1>3, <1>6 DEF TaleOK, Leaving
  <2>4. \A r \in Presence!Sides : Marked(r)'
    BY <2>1, <1>1, SocketsStay, MarksStay
  <2> QED BY <2>1, <2>3, <2>4, <1>1 DEF Watched
<1> HIDE DEF label
<1> QED BY <1>1, <1>2, <1>3, <1>5, <1>7, <1>8, <1>9, SeatStep

LEMMA EndGameStep == ASSUME PresenceInv, NEW t \in Desks, Presence!EndGame(t, node) PROVE PresenceInv'
<1> DEFINE l == [Presence!Blank EXCEPT !.node = node, !.by = "play"]
<1>1. /\ active /\ active' = FALSE /\ Presence!Begin(t, "clear", l)
      /\ verdict' = [by |-> "play", loser |-> Null, rival |-> FALSE, away |-> TRUE, there |-> FALSE]
      /\ UNCHANGED <<socket, here, joined, timers, graces, gone, presence, moved>>
  BY DEF Presence!EndGame, Presence!memory, Presence!redis
<1>2. smooth \in BOOLEAN /\ "clear" \in SeatLabels
  BY DEF PresenceInv, SeatTypes, SeatLabels
<1>3. l \in SeatLocals /\ l.node = node /\ l.by = "play"
  BY BlankSeat DEF Presence!Blank, SeatLocals, Places
<1> HIDE DEF l
<1>4. /\ pc[t] = "idle" /\ Presence!Goto(t, "clear", l) /\ smooth' \in BOOLEAN
      /\ smooth' => smooth /\ \A u \in Desks : pc[u] = "idle"
  BY <1>1, <1>2, SeatBegins DEF PresenceInv
<1>5. pc'[t] = "clear" /\ loc'[t] = l
  BY <1>2, <1>3, <1>4, SeatMoves DEF PresenceInv
<1>6. HandlerOK(t)'
  BY <1>1, <1>3, <1>5 DEF HandlerOK, Seating
<1>7. SeatTypes' /\ SeatsKept' /\ \A x \in Sockets : Known(x) => Known(x)'
  BY <1>1, <1>4 DEF PresenceInv, SeatTypes, SeatsKept, Known
<1>8. VerdictOK'
  BY <1>1 DEF VerdictOK
<1> QED BY <1>1, <1>2, <1>3, <1>4, <1>6, <1>7, <1>8, SeatStep

\* The steps that no handler takes.
LEMMA GraceElapsesStep == ASSUME PresenceInv, NEW s \in Presence!Sides, Presence!GraceElapses(s) PROVE PresenceInv'
<1>1. /\ gone[s] = "fresh" /\ gone' = [gone EXCEPT ![s] = "old"]
      /\ UNCHANGED <<socket, here, joined, timers, graces, presence, active, moved, verdict, smooth, pc, loc>>
  BY DEF Presence!GraceElapses, Presence!memory, Presence!game, Presence!NoBegin
<1>2. /\ SeatTypes' /\ SeatsKept' /\ \A x \in Sockets : Known(x) => Known(x)'
      /\ \A r \in Presence!Sides : gone'[r] = "no" <=> gone[r] = "no"
  BY <1>1 DEF PresenceInv, SeatTypes, SeatsKept, Known
<1>3. ASSUME smooth, active
      PROVE  /\ Watched' /\ \A t \in Desks : TaleOK(t)'
             /\ \A r \in Presence!Sides : (\A t \in Desks : ~Attends(pc[t], loc[t], r)) => Marked(r)'
  <2>1. /\ Watched /\ \A t \in Desks : TaleOK(t) /\ HandlerOK(t)
        /\ \A r \in Presence!Sides : (\A t \in Desks : ~Attends(pc[t], loc[t], r)) => Marked(r)
    BY <1>3 DEF PresenceInv, TalesAgree
  <2>2. ASSUME NEW t \in Desks PROVE TaleOK(t)'
    <3>1. (\A r : Up(r)' = Up(r)) /\ (Fresh(loc[t].side)' <=> Fresh(loc[t].side))
      BY <1>1, SocketsStay
    <3>2. pc[t] \in {"back", "schedule", "look"} => loc[t].side \in Presence!Sides
      BY <2>1 DEF HandlerOK
    <3>3. pc[t] \in {"back", "schedule", "look"} => (gone'[loc[t].side] = "no" <=> gone[loc[t].side] = "no")
      BY <3>2, <1>2
    <3>4. TaleOK(t)
      BY <2>1
    <3> QED BY <3>1, <3>3, <3>4, <1>1 DEF TaleOK
  <2>3. ASSUME NEW r \in Presence!Sides, Marked(r) PROVE Marked(r)'
    <3>1. Up(r)' = Up(r) /\ (Fresh(r)' <=> Fresh(r))
      BY <1>1, SocketsStay
    <3> QED BY <2>3, <3>1, <1>1, <1>2 DEF Marked
  <2> QED BY <2>1, <2>2, <2>3, <1>1 DEF Watched
<1> QED BY <1>1, <1>2, <1>3, QuietStep

LEMMA MoveSeatStep == ASSUME PresenceInv, Presence!OnMove(node) PROVE PresenceInv'
<1>1. /\ moved' = TRUE /\ timers' = [timers EXCEPT ![node] = {"flag", "tick"}]
      /\ UNCHANGED <<socket, here, joined, graces, gone, presence, active, verdict, smooth, pc, loc>>
  BY DEF Presence!OnMove, Presence!redis, Presence!NoBegin
<1>2. /\ SeatTypes' /\ SeatsKept' /\ Watched' /\ \A x \in Sockets : Known(x) => Known(x)'
  BY <1>1 DEF PresenceInv, SeatTypes, SeatsKept, Known, Watched
<1>3. ASSUME smooth, active
      PROVE  /\ \A t \in Desks : TaleOK(t)'
             /\ \A r \in Presence!Sides : (\A t \in Desks : ~Attends(pc[t], loc[t], r)) => Marked(r)'
  <2>1. /\ \A t \in Desks : TaleOK(t)
        /\ \A r \in Presence!Sides : (\A t \in Desks : ~Attends(pc[t], loc[t], r)) => Marked(r)
    BY <1>3 DEF PresenceInv, TalesAgree
  <2>2. \A t \in Desks : TaleOK(t)'
    BY <2>1, <1>1, TalesStay
  <2>3. \A r \in Presence!Sides : Marked(r) => Marked(r)'
    BY <1>1, SocketsStay, MarksStay
  <2> QED BY <2>1, <2>2, <2>3
<1> QED BY <1>1, <1>2, <1>3, QuietStep

LEMMA TimerSteps == ASSUME PresenceInv, Presence!OnFlagTimer(node) \/ Presence!OnClockTick(node) PROVE PresenceInv'
<1>1. /\ ~active /\ UNCHANGED <<socket, here, joined, gone, presence, active, moved, verdict, smooth, pc, loc>>
      /\ \/ Presence!TimersCleared(node)
         \/ timers' = [timers EXCEPT ![node] = @ \ {"tick"}] /\ UNCHANGED graces
  BY DEF Presence!OnFlagTimer, Presence!OnClockTick, Presence!redis, Presence!game, Presence!NoBegin
<1>2. graces' \in [{node} -> SUBSET Presence!Sides] /\ timers' \in [{node} -> SUBSET {"flag", "tick"}]
  <2>1. CASE Presence!TimersCleared(node)
    BY <2>1, TimersGo DEF PresenceInv
  <2>2. CASE timers' = [timers EXCEPT ![node] = @ \ {"tick"}] /\ UNCHANGED graces
    BY <2>2 DEF PresenceInv, SeatTypes
  <2> QED BY <2>1, <2>2, <1>1
<1>3. SeatTypes' /\ SeatsKept' /\ \A x \in Sockets : Known(x) => Known(x)'
  BY <1>1, <1>2 DEF PresenceInv, SeatTypes, SeatsKept, Known
<1> QED BY <1>1, <1>3, QuietStep

\* The node is gone, and all it knew: what it left in Redis no longer agrees.
LEMMA CrashSeatStep == ASSUME PresenceInv, Presence!Crash(node) PROVE PresenceInv'
<1>1. /\ smooth' = FALSE /\ Presence!TimersCleared(node)
      /\ socket' = [x \in Sockets |-> IF socket[x].node = node THEN [socket[x] EXCEPT !.state = "down"] ELSE socket[x]]
      /\ here' = [here EXCEPT ![node] = [s \in Presence!Sides |-> {}]]
      /\ joined' = {x \in joined : socket[x].node # node}
      /\ pc' = [t \in Desks |-> IF loc[t].node = node THEN "idle" ELSE pc[t]]
      /\ loc' = [t \in Desks |-> IF loc[t].node = node THEN Presence!Blank ELSE loc[t]]
      /\ UNCHANGED <<presence, gone, active, moved, verdict>>
  BY DEF Presence!Crash, Presence!redis, Presence!game
<1>2. graces' \in [{node} -> SUBSET Presence!Sides] /\ timers' \in [{node} -> SUBSET {"flag", "tick"}]
  BY <1>1, TimersGo DEF PresenceInv
<1>3. /\ socket' \in [Sockets -> [state : {"new", "up", "down"}, node : Places]]
      /\ \A x \in Sockets : socket'[x].node = socket[x].node /\ (Known(x) => Known(x)')
      /\ \A x \in Sockets : Known(x)' => Known(x) \/ socket[x].node = node
  BY <1>1 DEF PresenceInv, SeatTypes, Known
<1>4. joined' = {}
  BY <1>1 DEF PresenceInv, SeatTypes, SeatsKept
<1>5. here' \in [{node} -> [Presence!Sides -> SUBSET Sockets]] /\ \A s \in Presence!Sides : here'[node][s] = {}
  BY <1>1 DEF PresenceInv, SeatTypes
<1>6. SeatTypes'
  BY <1>1, <1>2, <1>3, <1>4, <1>5 DEF PresenceInv, SeatTypes
<1>7. SeatsKept'
  BY <1>3, <1>4, <1>5, SidesAre DEF PresenceInv, SeatsKept
<1>8. DeskTypes'
  BY <1>1, SeatShape, BlankSeat DEF PresenceInv, DeskTypes, SeatLabels
<1>9. ASSUME NEW t \in Desks PROVE pc'[t] = "idle"
  BY <1>1, <1>9 DEF PresenceInv, HandlerOK
<1>10. \A t \in Desks : HandlerOK(t)'
  BY <1>9 DEF HandlerOK, Seating
<1>11. VerdictOK' /\ TalesAgree'
  BY <1>1 DEF PresenceInv, VerdictOK, TalesAgree
<1> QED BY <1>6, <1>7, <1>8, <1>10, <1>11 DEF PresenceInv

LEMMA SeatsStart == ASSUME Presence!Init PROVE PresenceInv
<1>1. /\ socket = [x \in Sockets |-> [state |-> "new", node |-> Null]]
      /\ here = [n \in {node} |-> [s \in Presence!Sides |-> {}]] /\ joined = {}
      /\ graces = [n \in {node} |-> {}] /\ timers = [n \in {node} |-> {}]
      /\ presence = {} /\ gone = [s \in Presence!Sides |-> "no"]
      /\ active = TRUE /\ moved = FALSE /\ verdict = Null /\ smooth = TRUE
      /\ pc = [t \in Desks |-> "idle"] /\ loc = [t \in Desks |-> Presence!Blank]
  BY DEF Presence!Init
<1>2. SeatTypes
  BY <1>1 DEF SeatTypes, Places
<1>3. DeskTypes
  BY <1>1, BlankSeat DEF DeskTypes, SeatLabels
<1>4. \A x \in Sockets : ~Known(x) /\ socket[x].state # "up"
  BY <1>1 DEF Known
<1>5. SeatsKept
  BY <1>1, <1>4, SidesAre DEF SeatsKept
<1>6. \A t \in Desks : pc[t] = "idle"
  BY <1>1
<1>7. \A t \in Desks : HandlerOK(t) /\ TaleOK(t)
  BY <1>6 DEF HandlerOK, TaleOK, Seating, Leaving
<1>8. \A s \in Presence!Sides : Marked(s)
  <2> SUFFICES ASSUME NEW s \in Presence!Sides PROVE Marked(s)
    OBVIOUS
  <2>1. Up(s) = {} /\ Fresh(s)
    BY <1>4 DEF Up, Fresh
  <2> QED BY <2>1, <1>1 DEF Marked
<1>9. VerdictOK /\ TalesAgree
  BY <1>1, <1>6, <1>7, <1>8 DEF VerdictOK, TalesAgree, Watched
<1> QED BY <1>2, <1>3, <1>5, <1>7, <1>9 DEF PresenceInv

LEMMA PresenceIsSound == ASSUME PresenceInv PROVE Presence!TypeOK /\ Presence!MarkersAgree /\ Presence!AbandonedWasAway
<1>1. Presence!TypeOK
  <2>1. joined \subseteq {x \in Sockets : socket[x].state # "new"}
    BY DEF PresenceInv, SeatTypes, SeatsKept, Known
  <2>2. ASSUME NEW s \in Presence!Sides
        PROVE  here[node][s] \subseteq {x \in joined : SideOf[x] = s /\ socket[x].node = node}
    <3>1. here[node][s] \subseteq Sockets
      BY SeatShape DEF PresenceInv
    <3> QED BY <3>1 DEF PresenceInv, SeatsKept
  <2> QED BY <2>1, <2>2 DEF Presence!TypeOK, PresenceInv, SeatTypes, VerdictOK
<1>2. ASSUME smooth, Presence!Quiet, active
      PROVE  /\ moved => "flag" \in timers[node]
             /\ \A s \in Presence!Sides :
                  IF Presence!Connected(s) THEN s \in presence /\ gone[s] = "no" /\ s \notin graces[node]
                  ELSE /\ s \notin presence
                       /\ gone[s] = "no" <=> \A x \in Sockets : SideOf[x] = s => socket[x].state = "new"
  <2>1. Watched /\ \A s \in Presence!Sides : Marked(s)
    BY <1>2, AllMarked DEF Presence!Quiet
  <2>2. \A s \in Presence!Sides : Presence!Connected(s) <=> Up(s) # {}
    BY UpIs DEF PresenceInv
  <2>3. ASSUME NEW s \in Presence!Sides
        PROVE  IF Presence!Connected(s) THEN s \in presence /\ gone[s] = "no" /\ s \notin graces[node]
               ELSE /\ s \notin presence
                    /\ gone[s] = "no" <=> \A x \in Sockets : SideOf[x] = s => socket[x].state = "new"
    <3>1. Fresh(s) <=> \A x \in Sockets : SideOf[x] = s => socket[x].state = "new"
      BY DEF Fresh, Known
    <3> QED BY <3>1, <2>1, <2>2 DEF Marked
  <2> QED BY <2>1, <2>3 DEF Watched
<1>3. Presence!MarkersAgree
  BY <1>2 DEF Presence!MarkersAgree
<1>4. Presence!AbandonedWasAway
  BY DEF PresenceInv, VerdictOK, Presence!AbandonedWasAway
<1> QED BY <1>1, <1>3, <1>4

PresenceScene == focus = "presence" => PresenceInv

LEMMA PresenceSteps == ASSUME PresenceInv, PresenceNext PROVE PresenceInv'
<1>1. ASSUME NEW d \in Desks, Presence!Step(d) PROVE PresenceInv'
  <2>1. CASE Presence!BeginJoin(d) \/ Presence!Register(d) \/ Presence!SetPresence(d)
    BY <2>1, BeginJoinStep, RegisterStep, SetPresenceStep
  <2>2. CASE Presence!ClearGone(d) \/ Presence!ClearGrace(d) \/ Presence!Disconnect(d)
    BY <2>2, ClearGoneStep, ClearGraceStep, DisconnectSeatStep
  <2>3. CASE Presence!ActiveGameRow(d) \/ Presence!ClearPresence(d) \/ Presence!MarkGone(d)
    BY <2>3, GameRowStep, ClearPresenceStep, MarkGoneStep
  <2>4. CASE Presence!ScheduleGrace(d) \/ Presence!OnGraceExpired(d) \/ Presence!SweepGone(d)
    BY <2>4, ScheduleGraceStep, GraceExpiredStep, SweepGoneStep
  <2>5. CASE Presence!IsPresent(d) \/ Presence!IsRivalPresent(d) \/ Presence!Abandon(d)
    BY <2>5, IsPresentStep, IsRivalPresentStep, AbandonStep
  <2>6. CASE Presence!ClearKeys(d) \/ Presence!ForgetGone(d) \/ Presence!AnnounceEnd(d)
    BY <2>6, ClearKeysSeatStep, ForgetStep, AnnounceEndStep
  <2> QED BY <1>1, <2>1, <2>2, <2>3, <2>4, <2>5, <2>6 DEF Presence!Step
<1>2. ASSUME NEW d \in Desks, Presence!EndGame(d, node) PROVE PresenceInv'
  BY <1>2, EndGameStep
<1>3. ASSUME NEW s \in Presence!Sides, Presence!GraceElapses(s) PROVE PresenceInv'
  BY <1>3, GraceElapsesStep
<1>4. CASE Presence!OnMove(node) \/ Presence!OnFlagTimer(node) \/ Presence!OnClockTick(node) \/ Presence!Crash(node)
  BY <1>4, MoveSeatStep, TimerSteps, CrashSeatStep
<1> QED BY <1>1, <1>2, <1>3, <1>4 DEF PresenceNext

LEMMA PresenceStutters ==
  ASSUME PresenceInv, UNCHANGED <<atBoard, smooth, pc, loc>>
  PROVE  PresenceInv'
<1>1. UNCHANGED <<socket, here, joined, graces, timers, presence, gone, active, moved, verdict, smooth, pc, loc>>
  BY DEF atBoard
<1>2. SeatTypes' /\ SeatsKept' /\ \A x \in Sockets : Known(x) => Known(x)'
  BY <1>1 DEF PresenceInv, SeatTypes, SeatsKept, Known
<1>3. ASSUME smooth, active
      PROVE  /\ Watched' /\ \A t \in Desks : TaleOK(t)'
             /\ \A r \in Presence!Sides : (\A t \in Desks : ~Attends(pc[t], loc[t], r)) => Marked(r)'
  <2>1. /\ Watched /\ \A t \in Desks : TaleOK(t)
        /\ \A r \in Presence!Sides : (\A t \in Desks : ~Attends(pc[t], loc[t], r)) => Marked(r)
    BY <1>3 DEF PresenceInv, TalesAgree
  <2>2. \A t \in Desks : TaleOK(t)'
    BY <2>1, <1>1, TalesStay
  <2>3. \A r \in Presence!Sides : Marked(r) => Marked(r)'
    BY <1>1, SocketsStay, MarksStay
  <2> QED BY <2>1, <2>2, <2>3, <1>1 DEF Watched
<1> QED BY <1>1, <1>2, <1>3, QuietStep

\* On one node, as long as no two handlers overlap and it does not die: whenever nobody is
\* at work the sockets, the presence of a side, the marker that it has gone and its grace
\* agree, and whoever loses as having abandoned the game is away when it ends, to a rival who
\* is there then (registerPlayerSocket, onPlayerSocketGone, onGraceExpired,
\* sweepAbandonedGames, finishNoMove).
THEOREM PresenceAlwaysTold == MCSpec => []PresenceIsTold
<1>1. MCInit => PresenceScene
  BY SeatsStart DEF MCInit, GameInit, PresenceScene
<1>2. PresenceScene /\ [MCNext]_everything => PresenceScene'
  <2> SUFFICES ASSUME PresenceScene, [MCNext]_everything, focus' = "presence" PROVE PresenceInv'
    BY DEF PresenceScene
  <2>1. focus = focus'
    BY DEF MCNext, GameNext, EngineNext, NoticesNext, everything
  <2>2. PresenceInv
    BY <2>1 DEF PresenceScene
  <2>3. CASE GameNext
    BY <2>1, <2>2, <2>3, PresenceSteps DEF GameNext
  <2>4. CASE EngineNext \/ NoticesNext
    BY <2>1, <2>4 DEF EngineNext, NoticesNext
  <2>5. CASE UNCHANGED everything
    BY <2>2, <2>5, PresenceStutters DEF everything
  <2> QED BY <2>3, <2>4, <2>5 DEF MCNext
<1>3. PresenceScene => PresenceIsTold
  BY PresenceIsSound DEF PresenceScene, PresenceIsTold
<1> QED BY <1>1, <1>2, <1>3, PTL DEF MCSpec, everything
=============================================================================
