----------------------------- MODULE MCPlayGame -----------------------------
(***************************************************************************)
(* Instances of PlayGame for TLC.                                          *)
(***************************************************************************)
EXTENDS PlayGame, TLC

CONSTANTS p, q, s   \* requests of players (p, q) and of a sweeper (s)

Sudden1  == [type |-> "SUDDEN_DEATH", base |-> 1, inc |-> 0]
Sudden2  == [type |-> "SUDDEN_DEATH", base |-> 2, inc |-> 0]
Fischer1 == [type |-> "FISCHER_INCREMENT", base |-> 1, inc |-> 1]

\* Every slot runs everything.
AnySlot == [r \in Requests |-> Kinds]

\* A slot for the players and one for the timers.
PlayerAndSweeper == [r \in Requests |-> IF r = s THEN {"flag"} ELSE PlayerKinds]

\* A slot that moves and one for the timers.
MoveAndFlag == [r \in Requests |-> IF r = s THEN {"flag"} ELSE {"move"}]

TwoSides == Sides
Stranger == Sides \cup {"stranger"}

-----------------------------------------------------------------------------
(* Two scenes, of which the initial state picks one.  In "turns" one slot runs every  *)
(* request, after one another, while Redis may lose the keys; in "races" two slots     *)
(* overlap that move or end the game, the clock stands still and one of them may die.  *)

VARIABLE scene

OneSlot == [r \in Requests |-> IF r = p THEN Kinds ELSE {}]
Enders == [r \in Requests |-> {"move", "resign", "offer", "accept"}]

Races == INSTANCE PlayGame WITH
  Handles <- Enders, Actors <- Sides, MaxTime <- 0, Horizon <- 0, MaxPly <- 2,
  MaxCrashes <- 1, MaxLosses <- 0

MCInit ==
  \/ scene = "turns" /\ Init /\ pc[p] = "create"
  \/ scene = "races" /\ Races!Init

MCNext ==
  /\ UNCHANGED scene
  /\ \/ scene = "turns" /\ Next
     \/ scene = "races" /\ Races!Next

MCSpec == MCInit /\ [][MCNext]_<<vars, scene>>

\* One instance alone, of requests that come to their end.
AloneSpec == scene = "turns" /\ Init /\ [][Next /\ UNCHANGED scene]_<<vars, scene>> /\ Fairness
=============================================================================
