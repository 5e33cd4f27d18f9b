--------------------------- MODULE MCMatchmaking ----------------------------
(***************************************************************************)
(* Instances of Matchmaking for TLC.  One run checks two scenes: `meeting` *)
(* tells which of them the initial state has picked.  In the first two     *)
(* players join two queues, leave them, lose their markers, and a request  *)
(* dies; in the second three players wait for each other in one queue, and *)
(* nothing goes wrong.                                                     *)
(***************************************************************************)
EXTENDS Matchmaking, TLC

CONSTANTS blitz, rapid, t1, t2, t3, w1, w2

VARIABLE meeting

\* Three players: 1 and 2 fit at once, 2 and 3 after a while, 1 and 3 never.
Spread == <<1, 2, 4>>
Apart == <<1, 3>>
Equals == [p \in 1..NumPlayers |-> 1]

\* One tab per player, or two tabs of player 1 and one of player 2.
OwnTab == (t1 :> 1) @@ (t2 :> 2) @@ (t3 :> 3)
OwnPair == (t1 :> 1) @@ (t2 :> 2)
TwoTabs == (t1 :> 1) @@ (t2 :> 1) @@ (t3 :> 2)

MCInit == meeting \in BOOLEAN /\ Init

\* One thing goes wrong in a moment, and player 1 alone leaves and comes back.
ComeAndGo ==
  /\ crashes' + expiries' <= 1 /\ now' = 0
  /\ joins'[2] <= 1 /\ pc'[t2] # "which" /\ pc'[t3] = "idle"

\* Everybody joins once, and stays.
Meet ==
  /\ crashes' = 0 /\ expiries' = 0
  /\ \A t \in Tabs : pc[t] = "idle" /\ pc'[t] # "idle" =>
       pc'[t] = "marker" /\ loc'[t].bucket = blitz /\ joins[Owner[t]] = 0

MCNext == Next /\ UNCHANGED meeting /\ (IF meeting THEN Meet ELSE ComeAndGo)

\* The fairness of Matchmaking, of the three who meet.
MCFairness ==
  /\ \A s \in Slots : WF_vars(meeting /\ Advance(s))
  /\ \A s \in Sweepers : WF_vars(meeting /\ Sweep(s))
  /\ WF_vars(meeting /\ Tick)

MCSpec == MCInit /\ [][MCNext]_<<vars, meeting>> /\ MCFairness

\* Matchmaking as it is, for the configurations of what does not hold.
AloneSpec ==
  /\ Init /\ meeting = FALSE
  /\ [][Next /\ UNCHANGED meeting]_<<vars, meeting>>
  /\ Fairness

AllMeet == \A p \in 1..2 :
  (meeting /\ Waiting(blitz, p, p + 1)) ~> ~(meeting /\ Waiting(blitz, p, p + 1))
=============================================================================
