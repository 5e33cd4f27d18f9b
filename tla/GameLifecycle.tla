--------------------------- MODULE GameLifecycle ---------------------------
(***************************************************************************)
(* What the play module promises about the life of one game, whoever asks  *)
(* for what and in whatever order: moves are appended one at a time while  *)
(* the game is on, it ends once, and its end is announced at most once.    *)
(***************************************************************************)
EXTENDS Naturals

VARIABLES
  plies,      \* moves played
  over,       \* the game has ended
  announced   \* times its end was announced

vars == <<plies, over, announced>>

Init == plies = 0 /\ over = FALSE /\ announced = 0

\* A move, which may be the last.
Play ==
  /\ ~over
  /\ plies' = plies + 1
  /\ over' \in BOOLEAN
  /\ UNCHANGED announced

\* The game ends without a move.
End ==
  /\ ~over
  /\ over' = TRUE
  /\ UNCHANGED <<plies, announced>>

Announce ==
  /\ over
  /\ announced = 0
  /\ announced' = 1
  /\ UNCHANGED <<plies, over>>

Next == Play \/ End \/ Announce

Spec == Init /\ [][Next]_vars
=============================================================================
