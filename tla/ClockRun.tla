------------------------------ MODULE ClockRun ------------------------------
(***************************************************************************)
(* The chess clock of core/clock/chess-clock.ts driven through a game.     *)
(* The players think in real time; the service measures with the wall      *)
(* clock (Date.now()), which NTP may set back and later correct.  The      *)
(* history variables keep an account of the game in real time, against     *)
(* which the stored times are judged.                                      *)
(***************************************************************************)
EXTENDS ChessClock

CONSTANTS
  Cfgs,        \* clock configurations to try
  MaxTime,     \* bound: real time stops here
  MaxMoves,    \* bound: moves in a game
  MaxSkew      \* bound: how far the wall clock may lag behind real time

ASSUME CfgsAssumption == Cfgs \subseteq ClockConfig

VARIABLES
  cfg,     \* the configuration of the game
  real,    \* real time
  now,     \* the wall clock
  ahead,   \* the wall clock has been set forward again
  st,      \* the ClockState
  over,    \* the flag of the side to move has fallen
  made,    \* moves made
  since,   \* real time at which the side to move began to think
  think,   \* real time each side has spent on its completed moves
  measured, refunded, gained   \* per side: elapsed, delay and increment so far

time == <<real, now, ahead>>
book == <<made, since, think, measured, refunded, gained>>
vars == <<cfg, real, now, ahead, st, over, made, since, think, measured, refunded, gained>>

None == [s \in Sides |-> 0]

Init ==
  /\ cfg \in Cfgs
  /\ real = 0 /\ now = 0 /\ ahead = FALSE
  /\ st = CreateClock(cfg, "w", 0)
  /\ over = FALSE
  /\ made = 0 /\ since = 0
  /\ think = None /\ measured = None /\ refunded = None /\ gained = None

Pass ==
  /\ ~over /\ real < MaxTime
  /\ real' = real + 1 /\ now' = now + 1
  /\ UNCHANGED <<cfg, ahead, st, over, book>>

\* NTP sets the wall clock back.
SetBack ==
  /\ ~over /\ real - now < MaxSkew
  /\ now' = now - 1
  /\ UNCHANGED <<cfg, real, ahead, st, over, book>>

\* NTP sets it forward again, up to real time.
Correct ==
  /\ ~over /\ now < real
  /\ now' = now + 1 /\ ahead' = TRUE
  /\ UNCHANGED <<cfg, real, st, over, book>>

\* The refund of a Bronstein clock: the time spent, but at most the delay.
Refund(elapsed) ==
  IF cfg.type \notin DelayTypes THEN 0
  ELSE IF elapsed < cfg.inc THEN elapsed ELSE cfg.inc

\* The account of a move that arrived in time.
Enter(mover) ==
  LET elapsed == Elapsed(st, now) IN
  /\ made' = made + 1
  /\ since' = real
  /\ think' = [think EXCEPT ![mover] = @ + (real - since)]
  /\ measured' = [measured EXCEPT ![mover] = @ + elapsed]
  /\ refunded' = [refunded EXCEPT ![mover] = @ + Refund(elapsed)]
  /\ gained' = [gained EXCEPT ![mover] = @ + Increment(cfg)]

Move ==
  /\ ~over /\ made < MaxMoves
  /\ st' = ApplyMove(cfg, st, now).state
  /\ over' = ApplyMove(cfg, st, now).flagged
  /\ IF over' THEN UNCHANGED book ELSE Enter(st.turn)
  /\ UNCHANGED <<cfg, time>>

Next == Pass \/ SetBack \/ Correct \/ Move

Spec == Init /\ [][Next]_vars

-----------------------------------------------------------------------------
(* Properties. *)

TypeOK ==
  /\ cfg \in Cfgs
  /\ real \in Nat /\ now \in Int /\ made \in Nat /\ since \in Nat
  /\ st \in ClockState
  /\ over \in BOOLEAN /\ ahead \in BOOLEAN
  /\ {think, measured, refunded, gained} \subseteq [Sides -> Nat]

\* A clock is its base, less the measured time, plus what the clock type gives
\* back: the delay as min(elapsed, delay) (the Bronstein definition) and the
\* increment of every completed move.
Bookkeeping ==
  \A s \in Sides : ~(over /\ s = st.turn) =>
    st.left[s] = cfg.base - measured[s] + refunded[s] + gained[s]

\* Setting the wall clock back costs nobody anything: until it is set forward
\* again no side has paid more than the real time of its moves (elapsedMs).
NobodyPunished ==
  ~ahead => \A s \in Sides : ~(over /\ s = st.turn) => st.left[s] >= cfg.base - think[s]

\* And until then a flag falls only on a side that has really thought for longer
\* than its base, its increments and its delays (isFlagged).
FlagIsEarned ==
  ~ahead /\ over =>
    cfg.base + gained[st.turn] + refunded[st.turn] + Refund(Elapsed(st, now))
      < think[st.turn] + (real - since)

\* Correcting the wall clock costs nobody a game (elapsedMs: "yomon NTP tuzatishi
\* yengil vaqtni BERADI, lekin o'yinchini jazolamaydi").
CorrectionIsHarmless ==
  over => cfg.base + gained[st.turn] + refunded[st.turn] + Refund(Elapsed(st, now))
            < think[st.turn] + (real - since)
=============================================================================
