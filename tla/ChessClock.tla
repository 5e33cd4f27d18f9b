----------------------------- MODULE ChessClock -----------------------------
(***************************************************************************)
(* The chess clock of core/clock/chess-clock.ts: a pure calculator.  No    *)
(* operator reads the time; `now' is always an argument, as nowMs is in    *)
(* the code.  Times and durations are integers of an arbitrary unit (the   *)
(* code counts milliseconds).                                              *)
(*                                                                         *)
(* MULTI_STAGE is rejected by assertSupported before any arithmetic, so it *)
(* is not a member of ClockTypes.                                          *)
(*                                                                         *)
(* Of two definitions of one thing the first is a plausible mistake: the   *)
(* second is the code's, and the specification uses no other.              *)
(***************************************************************************)
EXTENDS Integers

Sides == {"w", "b"}

Other(side) == IF side = "w" THEN "b" ELSE "w"

DelayTypes == {"BRONSTEIN_DELAY", "SIMPLE_DELAY"}

ClockTypes == {"SUDDEN_DEATH", "FISCHER_INCREMENT"} \cup DelayTypes

\* What assertSupported lets through: a positive base, an increment >= 0.
ClockConfig == [type : ClockTypes, base : Nat \ {0}, inc : Nat]

\* `left' is the stored remaining time of each side; `last' is when the clock
\* of the side to move started.
ClockState == [left : [Sides -> Nat], turn : Sides, last : Int]

CreateClock(cfg, turn, now) ==
  [left |-> [s \in Sides |-> cfg.base], turn |-> turn, last |-> now]

NonNegative(n) == IF n < 0 THEN 0 ELSE n

\* A backward jump of the wall clock is absorbed: elapsed time is never < 0.
Elapsed(st, now) == NonNegative(now - st.last)

\* The time taken off the clock for `elapsed' units of thinking.
ChargeablePastDelay(cfg, elapsed) ==
  IF cfg.type \in DelayTypes /\ elapsed <= cfg.inc THEN 0 ELSE elapsed
Chargeable(cfg, elapsed) ==
  IF cfg.type \in DelayTypes THEN NonNegative(elapsed - cfg.inc) ELSE elapsed

Charge(cfg, st, now) == Chargeable(cfg, Elapsed(st, now))

\* The live remaining time of a side, never below zero: only the side to move is charged.
RemainingUnclamped(cfg, st, side, now) ==
  IF side = st.turn THEN st.left[side] - Charge(cfg, st, now)
                    ELSE st.left[side]
Remaining(cfg, st, side, now) ==
  IF side = st.turn THEN NonNegative(st.left[side] - Charge(cfg, st, now))
                    ELSE st.left[side]

\* Strict: a move that uses exactly the time left is still in time.
IsFlagged(cfg, st, now) == Charge(cfg, st, now) > st.left[st.turn]

Increment(cfg) == IF cfg.type = "FISCHER_INCREMENT" THEN cfg.inc ELSE 0

\* The clock after a move that arrived in time.
AfterMoveStillRunning(cfg, st, now) ==
  [left |-> [st.left EXCEPT ![st.turn] = @ - Charge(cfg, st, now) + Increment(cfg)],
   turn |-> Other(st.turn),
   last |-> st.last]
AfterMove(cfg, st, now) ==
  [left |-> [st.left EXCEPT ![st.turn] = @ - Charge(cfg, st, now) + Increment(cfg)],
   turn |-> Other(st.turn),
   last |-> now]

\* The clock of a mover whose flag fell: zero, and the turn does not pass.
AfterFlag(st) == [st EXCEPT !.left[st.turn] = 0]

ApplyMoveAtZero(cfg, st, now) ==
  LET fell == Charge(cfg, st, now) >= st.left[st.turn] IN
  [flagged |-> fell,
   elapsed |-> Elapsed(st, now),
   state   |-> IF fell THEN AfterFlag(st) ELSE AfterMove(cfg, st, now)]
ApplyMove(cfg, st, now) ==
  LET fell == Charge(cfg, st, now) > st.left[st.turn] IN
  [flagged |-> fell,
   elapsed |-> Elapsed(st, now),
   state   |-> IF fell THEN AfterFlag(st) ELSE AfterMove(cfg, st, now)]
=============================================================================
