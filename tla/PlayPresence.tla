---------------------------- MODULE PlayPresence ----------------------------
(***************************************************************************)
(* Who is at the board (play.gateway, game-timers, the presence and gone   *)
(* markers of clock.store, sweepAbandonedGames): sockets join and drop,    *)
(* the last one of a side to drop starts its grace, and a side that is not *)
(* back in time has abandoned the game.  The sockets and timers of a node  *)
(* are in its memory, the markers in Redis.  A handler runs from one await *)
(* to the next.  How a game ends in the database is in PlayGame; here it   *)
(* is a step.                                                              *)
(***************************************************************************)
EXTENDS Integers, FiniteSets

CONSTANTS
  Sockets,   \* each connects once; a page that is loaded again has a new one
  SideOf,    \* the side whose player holds a socket
  Nodes,     \* instances of the server
  Tasks,     \* slots for handlers in progress
  Null,
  MaxCrashes \* bound: nodes that die

VARIABLES
  socket,   \* of each: [state, node]
  here,     \* playerSocketsByGame of each node: the sockets of each side
  joined,   \* playerGamesBySocket: the sockets that are known to be players'
  graces,   \* the sides whose grace runs, by node
  timers,   \* flag and tick, by node
  presence, \* game:presence of the sides
  gone,     \* game:gone of the sides: "no", "fresh", or past the grace: "old"
  active, moved,
  verdict,  \* history: how the game ended
  smooth,   \* history: no two handlers at once so far, and no node died
  crashes, pc, loc

memory == <<here, joined, graces, timers>>
redis == <<presence, gone>>
game == <<active, moved, verdict>>
vars == <<socket, memory, redis, game, smooth, crashes, pc, loc>>

Sides == {"w", "b"}
Other(s) == IF s = "w" THEN "b" ELSE "w"

Blank == [socket |-> Null, node |-> Null, side |-> Null, rival |-> FALSE, by |-> Null]

Goto(t, label, l) ==
  /\ pc' = [pc EXCEPT ![t] = label]
  /\ loc' = [loc EXCEPT ![t] = l]

Reply(t) == Goto(t, "idle", Blank)

Begin(t, label, l) ==
  /\ pc[t] = "idle"
  /\ Goto(t, label, l)
  /\ smooth' = (smooth /\ \A u \in Tasks : pc[u] = "idle")

NoBegin == UNCHANGED smooth

Init ==
  /\ socket = [x \in Sockets |-> [state |-> "new", node |-> Null]]
  /\ here = [n \in Nodes |-> [s \in Sides |-> {}]]
  /\ joined = {}
  /\ graces = [n \in Nodes |-> {}]
  /\ timers = [n \in Nodes |-> {}]
  /\ presence = {} /\ gone = [s \in Sides |-> "no"]
  /\ active = TRUE /\ moved = FALSE /\ verdict = Null
  /\ smooth = TRUE /\ crashes = 0
  /\ pc = [t \in Tasks |-> "idle"]
  /\ loc = [t \in Tasks |-> Blank]

\* Whether a socket of the side is up, anywhere.
Connected(s) == \E x \in Sockets : SideOf[x] = s /\ socket[x].state = "up"
\* Whether one of them has joined, and been answered.
Seated(s) ==
  \E x \in joined : SideOf[x] = s /\ socket[x].state = "up" /\ \A t \in Tasks : loc[t].socket # x

-----------------------------------------------------------------------------
(* onJoin *)

BeginJoin(t) ==
  /\ \E x \in Sockets, n \in Nodes :
       /\ socket[x].state = "new"
       /\ socket' = [socket EXCEPT ![x] = [state |-> "up", node |-> n]]
       /\ Begin(t, "view", [Blank EXCEPT !.socket = x, !.node = n, !.side = SideOf[x]])
  /\ UNCHANGED <<memory, redis, game, crashes>>

\* getGameView, then the part of registerPlayerSocket that does not wait.
Register(t) ==
  LET l == loc[t] IN
  /\ pc[t] = "view"
  /\ IF active
     THEN /\ here' = [here EXCEPT ![l.node][l.side] = @ \cup {l.socket}]
          /\ joined' = joined \cup {l.socket}
          /\ Goto(t, "present", l)
     ELSE Reply(t) /\ UNCHANGED <<here, joined>>
  /\ UNCHANGED <<socket, graces, timers, redis, game, crashes>> /\ NoBegin

SetPresence(t) ==
  /\ pc[t] = "present"
  /\ presence' = presence \cup {loc[t].side}
  /\ Goto(t, "returned", loc[t])
  /\ UNCHANGED <<socket, memory, gone, game, crashes>> /\ NoBegin

StillGone(s) == gone
Returned(s) == [gone EXCEPT ![s] = "no"]

ClearGone(t) ==
  /\ pc[t] = "returned"
  /\ gone' = Returned(loc[t].side)
  /\ Goto(t, "back", loc[t])
  /\ UNCHANGED <<socket, memory, presence, game, crashes>> /\ NoBegin

ClearGrace(t) ==
  /\ pc[t] = "back"
  /\ graces' = [graces EXCEPT ![loc[t].node] = @ \ {loc[t].side}]
  /\ Reply(t)
  /\ UNCHANGED <<socket, here, joined, timers, redis, game, crashes>> /\ NoBegin

-----------------------------------------------------------------------------
(* handleDisconnect, and onPlayerSocketGone up to its first await *)

\* No other tab of this player is left on the node.
LastOne(n, x) == here[n][SideOf[x]] \subseteq {x}

Disconnect(t) ==
  \E x \in Sockets :
    LET n == socket[x].node
        s == SideOf[x]
    IN
    /\ socket[x].state = "up"
    /\ socket' = [socket EXCEPT ![x].state = "down"]
    /\ joined' = joined \ {x}
    /\ here' = [here EXCEPT ![n][s] = @ \ {x}]
    /\ IF x \in joined /\ LastOne(n, x)
       THEN Begin(t, "row", [Blank EXCEPT !.node = n, !.side = s])
       ELSE /\ UNCHANGED <<pc, loc>>
            /\ smooth' = (smooth /\ \A u \in Tasks : pc[u] = "idle")
    /\ UNCHANGED <<graces, timers, redis, game, crashes>>

ActiveGameRow(t) ==
  /\ pc[t] = "row"
  /\ IF active THEN Goto(t, "absent", loc[t]) ELSE Reply(t)
  /\ UNCHANGED <<socket, memory, redis, game, crashes>> /\ NoBegin

ClearPresence(t) ==
  /\ pc[t] = "absent"
  /\ presence' = presence \ {loc[t].side}
  /\ Goto(t, "mark", loc[t])
  /\ UNCHANGED <<socket, memory, gone, game, crashes>> /\ NoBegin

MarkGone(t) ==
  /\ pc[t] = "mark"
  /\ gone' = [gone EXCEPT ![loc[t].side] = "fresh"]
  /\ Goto(t, "schedule", loc[t])
  /\ UNCHANGED <<socket, memory, presence, game, crashes>> /\ NoBegin

ScheduleGrace(t) ==
  /\ pc[t] = "schedule"
  /\ graces' = [graces EXCEPT ![loc[t].node] = @ \cup {loc[t].side}]
  /\ Reply(t)
  /\ UNCHANGED <<socket, here, joined, timers, redis, game, crashes>> /\ NoBegin

-----------------------------------------------------------------------------
(* The grace runs out: the node's timer, or the sweeper of any node. *)

OnGraceExpired(t) ==
  \E n \in Nodes : \E s \in graces[n] :
    /\ graces' = [graces EXCEPT ![n] = @ \ {s}]
    /\ IF here[n][s] # {}
       THEN UNCHANGED <<pc, loc, smooth>>
       ELSE Begin(t, "abandon", [Blank EXCEPT !.node = n, !.side = s, !.rival = here[n][Other(s)] # {}, !.by = "timer"])
    /\ UNCHANGED <<socket, here, joined, timers, redis, game, crashes>>

\* The sweeper steps in after a slack in which a timer that lives has fired.
GraceElapses(s) ==
  /\ gone[s] = "fresh" /\ \A n \in Nodes : s \notin graces[n]
  /\ \A t \in Tasks : pc[t] = "schedule" => loc[t].side # s
  /\ gone' = [gone EXCEPT ![s] = "old"]
  /\ UNCHANGED <<socket, memory, presence, game, crashes, pc, loc>> /\ NoBegin

SweepGone(t) ==
  /\ \E n \in Nodes, s \in Sides :
       /\ gone[s] = "old" \/ (gone[s] # "no" /\ ~active)
       /\ Begin(t, IF active THEN "look" ELSE "forget", [Blank EXCEPT !.node = n, !.side = s, !.by = "sweeper"])
  /\ UNCHANGED <<socket, memory, redis, game, crashes>>

IsPresent(t) ==
  /\ pc[t] = "look"
  /\ Goto(t, IF loc[t].side \in presence THEN "forget" ELSE "rival", loc[t])
  /\ UNCHANGED <<socket, memory, redis, game, crashes>> /\ NoBegin

IsRivalPresent(t) ==
  /\ pc[t] = "rival"
  /\ Goto(t, "abandon", [loc[t] EXCEPT !.rival = Other(loc[t].side) \in presence])
  /\ UNCHANGED <<socket, memory, redis, game, crashes>> /\ NoBegin

\* ABANDONED: the rival wins if he was there when it was asked, nobody if both were
\* gone.  `away' and `there' are what is so when the game ends, awaits later.
Abandon(t) ==
  LET l == loc[t] IN
  /\ pc[t] = "abandon"
  /\ IF active
     THEN /\ active' = FALSE
          /\ verdict' = [by |-> l.by, loser |-> l.side, rival |-> l.rival,
                         away |-> ~Seated(l.side), there |-> Connected(Other(l.side))]
          /\ Goto(t, "clear", l)
     ELSE /\ IF l.by = "sweeper" THEN Goto(t, "forget", l) ELSE Reply(t)
          /\ UNCHANGED <<active, verdict>>
  /\ UNCHANGED <<socket, memory, redis, moved, crashes>> /\ NoBegin

\* clocks.clear of every path that ends a game
ClearKeys(t) ==
  /\ pc[t] = "clear"
  /\ presence' = {} /\ gone' = [s \in Sides |-> "no"]
  /\ Goto(t, "announce", loc[t])
  /\ UNCHANGED <<socket, memory, game, crashes>> /\ NoBegin

ForgetGone(t) ==
  /\ pc[t] = "forget"
  /\ gone' = Returned(loc[t].side)
  /\ Reply(t)
  /\ UNCHANGED <<socket, memory, presence, game, crashes>> /\ NoBegin

\* clearGame of the node's timers
TimersCleared(n) ==
  /\ graces' = [graces EXCEPT ![n] = {}]
  /\ timers' = [timers EXCEPT ![n] = {}]

\* announceEnd forgets the sockets of the node too, notifyGameSwept does not.
AnnounceEnd(t) ==
  LET n == loc[t].node IN
  /\ pc[t] = "announce"
  /\ TimersCleared(n)
  /\ IF loc[t].by = "sweeper"
     THEN Goto(t, "forget", loc[t]) /\ UNCHANGED <<here, joined>>
     ELSE /\ here' = [here EXCEPT ![n] = [s \in Sides |-> {}]]
          /\ joined' = joined \ UNION {here[n][s] : s \in Sides}
          /\ Reply(t)
  /\ UNCHANGED <<socket, redis, game, crashes>> /\ NoBegin

-----------------------------------------------------------------------------
(* Moves, and the timers they arm. *)

OnMove(n) ==
  /\ active
  /\ moved' = TRUE
  /\ timers' = [timers EXCEPT ![n] = {"flag", "tick"}]
  /\ UNCHANGED <<socket, here, joined, graces, redis, active, verdict, crashes, pc, loc>> /\ NoBegin

\* A move, a resignation, an agreement: the game ends while both may be there.
EndGame(t, n) ==
  /\ active
  /\ active' = FALSE
  /\ verdict' = [by |-> "play", loser |-> Null, rival |-> FALSE, away |-> TRUE, there |-> FALSE]
  /\ Begin(t, "clear", [Blank EXCEPT !.node = n, !.by = "play"])
  /\ UNCHANGED <<socket, memory, redis, moved, crashes>>

\* Time is left: the timer is set again.  The game is over: everything is cleared.
OnFlagTimer(n) ==
  /\ "flag" \in timers[n] /\ ~active
  /\ TimersCleared(n)
  /\ UNCHANGED <<socket, here, joined, redis, game, crashes, pc, loc>> /\ NoBegin

OnClockTick(n) ==
  /\ "tick" \in timers[n] /\ ~active
  /\ timers' = [timers EXCEPT ![n] = @ \ {"tick"}]
  /\ UNCHANGED <<socket, here, joined, graces, redis, game, crashes, pc, loc>> /\ NoBegin

\* A node dies with its sockets, its timers and what its handlers were at.
Crash(n) ==
  /\ crashes < MaxCrashes
  /\ crashes' = crashes + 1 /\ smooth' = FALSE
  /\ socket' = [x \in Sockets |-> IF socket[x].node = n THEN [socket[x] EXCEPT !.state = "down"] ELSE socket[x]]
  /\ here' = [here EXCEPT ![n] = [s \in Sides |-> {}]]
  /\ joined' = {x \in joined : socket[x].node # n}
  /\ TimersCleared(n)
  /\ pc' = [t \in Tasks |-> IF loc[t].node = n THEN "idle" ELSE pc[t]]
  /\ loc' = [t \in Tasks |-> IF loc[t].node = n THEN Blank ELSE loc[t]]
  /\ UNCHANGED <<redis, game>>

Step(t) ==
  \/ BeginJoin(t) \/ Register(t) \/ SetPresence(t) \/ ClearGone(t) \/ ClearGrace(t)
  \/ Disconnect(t) \/ ActiveGameRow(t) \/ ClearPresence(t) \/ MarkGone(t) \/ ScheduleGrace(t)
  \/ OnGraceExpired(t) \/ SweepGone(t) \/ IsPresent(t) \/ IsRivalPresent(t)
  \/ Abandon(t) \/ ClearKeys(t) \/ ForgetGone(t) \/ AnnounceEnd(t)

Next ==
  \/ \E t \in Tasks : Step(t)
  \/ \E t \in Tasks, n \in Nodes : EndGame(t, n)
  \/ \E s \in Sides : GraceElapses(s)
  \/ \E n \in Nodes : OnMove(n) \/ OnFlagTimer(n) \/ OnClockTick(n) \/ Crash(n)

Spec == Init /\ [][Next]_vars

-----------------------------------------------------------------------------
(* Properties. *)

Quiet == \A t \in Tasks : pc[t] = "idle"

TypeOK ==
  /\ joined \subseteq {x \in Sockets : socket[x].state # "new"}
  /\ \A n \in Nodes, s \in Sides : here[n][s] \subseteq {x \in joined : SideOf[x] = s /\ socket[x].node = n}
  /\ presence \subseteq Sides
  /\ verdict # Null => ~active

\* On one node, one handler at a time: the sockets, the marker that the side is
\* there, the marker that it has gone and its grace tell one story, and a game
\* that moves is watched (registerPlayerSocket, onPlayerSocketGone, armClockTimers).
MarkersAgree ==
  smooth /\ Quiet /\ active =>
    /\ moved => \E n \in Nodes : "flag" \in timers[n]
    /\ \A s \in Sides :
         IF Connected(s)
         THEN s \in presence /\ gone[s] = "no" /\ \A n \in Nodes : s \notin graces[n]
         ELSE /\ s \notin presence
              /\ gone[s] = "no" <=> \A x \in Sockets : SideOf[x] = s => socket[x].state = "new"

\* As long as no two handlers overlap, nobody who has joined and been answered has
\* abandoned the game when it ends, and the rival wins exactly if he is there then
\* (onGraceExpired, sweepAbandonedGames).  A join that comes between the check of
\* the timer and the end of the game is answered, and loses.
AbandonedWasAway == verdict # Null /\ smooth => verdict.away /\ verdict.rival = verdict.there


\* No socket that has dropped counts as a player.  One that drops while its join
\* waits for the game is registered afterwards, and stays.
NoGhost == Quiet /\ active => \A n \in Nodes, s \in Sides : \A x \in here[n][s] : socket[x].state = "up"
=============================================================================
