----------------------------- MODULE LiveBoard -----------------------------
(***************************************************************************)
(* The board a browser shows (web: live-game.tsx) and what the server says *)
(* to it (play.gateway): a full snapshot in the answer to a join, taken in *)
(* several reads before the socket is in the room, and events broadcast to *)
(* the room after the writes they tell of.  A socket hands over what it    *)
(* was sent in order, and loses what was under way when it drops.  A       *)
(* handler of the server runs from one await to the next.                  *)
(***************************************************************************)
EXTENDS Integers, Sequences

CONSTANTS
  Tasks,    \* slots for handlers in progress
  Null,
  MaxPlies, \* bound: moves of the game
  MaxJoins, \* bound: sockets the page opens, one after the other
  MaxTicks  \* bound: clock_update events

VARIABLES
  plies, over, offer, \* the game: its move log, its status, the draw offer in Redis
  link,               \* the socket: its number, whether it is up and whether it is in the room
  inbox,              \* what was sent to it and has not arrived
  board, connection,  \* the state of the page
  smooth,             \* history: no handler overlapped a join or another handler, so far
  ticks, pc, loc

game == <<plies, over, offer>>
page == <<board, connection>>
vars == <<game, link, inbox, page, smooth, ticks, pc, loc>>

Sides == {"w", "b"}
\* The clock after n moves.
ClockAt(n) == [whiteMs |-> 0 - n, blackMs |-> 0 - n]

Blank == [link |-> 0, fen |-> 0, over |-> FALSE, moves |-> <<>>, offer |-> Null, ends |-> FALSE]

Goto(t, label, l) ==
  /\ pc' = [pc EXCEPT ![t] = label]
  /\ loc' = [loc EXCEPT ![t] = l]

\* A handler that begins while another runs, or before a snapshot has arrived.
Begin(t, label, l) ==
  /\ pc[t] = "idle"
  /\ Goto(t, label, l)
  /\ smooth' = (smooth /\ (\A u \in Tasks : pc[u] = "idle")
                       /\ \A i \in 1..Len(inbox) : inbox[i].event # "ack")

Reply(t) == Goto(t, "idle", Blank) /\ UNCHANGED smooth

\* server.to(room).emit
ToRoom(events) == IF link.up /\ link.joined THEN inbox \o events ELSE inbox

Log(n) == [i \in 1..n |-> i]

Init ==
  /\ plies = 0 /\ over = FALSE /\ offer = Null
  /\ link = [number |-> 0, up |-> FALSE, joined |-> FALSE]
  /\ inbox = <<>>
  /\ board = [fen |-> 0, moves |-> <<>>, over |-> FALSE, offer |-> Null, clock |-> ClockAt(0)]
  /\ connection = "connecting"
  /\ smooth = TRUE /\ ticks = 0
  /\ pc = [t \in Tasks |-> "idle"] /\ loc = [t \in Tasks |-> Blank]

-----------------------------------------------------------------------------
(* The socket of the page. *)

\* 'connect': the board is locked, and asks to join.
Connect(t) ==
  /\ ~link.up /\ link.number < MaxJoins
  /\ link' = [number |-> link.number + 1, up |-> TRUE, joined |-> FALSE]
  /\ connection' = "syncing"
  /\ Begin(t, "row", [Blank EXCEPT !.link = link.number + 1])
  /\ UNCHANGED <<game, inbox, board, ticks>>

Disconnect ==
  /\ link.up
  /\ link' = [link EXCEPT !.up = FALSE, !.joined = FALSE]
  /\ inbox' = <<>>
  /\ connection' = "reconnecting"
  /\ UNCHANGED <<game, board, smooth, ticks, pc, loc>>

ConnectError ==
  /\ ~link.up
  /\ connection' = IF connection = "connecting" THEN "offline" ELSE "reconnecting"
  /\ UNCHANGED <<game, link, inbox, board, smooth, ticks, pc, loc>>

-----------------------------------------------------------------------------
(* onJoin and getGameView *)

FindGame(t) ==
  /\ pc[t] = "row"
  /\ Goto(t, "log", [loc[t] EXCEPT !.fen = plies, !.over = over])
  /\ UNCHANGED <<game, link, inbox, page, smooth, ticks>>

ListMoves(t) ==
  /\ pc[t] = "log"
  /\ Goto(t, "offer", [loc[t] EXCEPT !.moves = Log(plies)])
  /\ UNCHANGED <<game, link, inbox, page, smooth, ticks>>

GetDrawOffer(t) ==
  /\ pc[t] = "offer"
  /\ Goto(t, "enter", [loc[t] EXCEPT !.offer = IF loc[t].over THEN Null ELSE offer])
  /\ UNCHANGED <<game, link, inbox, page, smooth, ticks>>

\* socket.join; registerPlayerSocket then waits for Redis
EnterRoom(t) ==
  /\ pc[t] = "enter"
  /\ link' = [link EXCEPT !.joined = link.up /\ (link.joined \/ loc[t].link = link.number)]
  /\ Goto(t, "ack", loc[t])
  /\ UNCHANGED <<game, inbox, page, smooth, ticks>>

AckJoin(t) ==
  LET l == loc[t] IN
  /\ pc[t] = "ack"
  /\ inbox' = IF link.up /\ l.link = link.number
              THEN Append(inbox, [event |-> "ack", fen |-> l.fen, moves |-> l.moves,
                                  over |-> l.over, offer |-> l.offer])
              ELSE inbox
  /\ Reply(t)
  /\ UNCHANGED <<game, link, page, ticks>>

-----------------------------------------------------------------------------
(* What the players do. *)

\* appendMove; the offer is cleared, and the room told, after it
BeginMove(t) ==
  /\ ~over /\ plies < MaxPlies
  /\ plies' = plies + 1
  /\ \E ends \in BOOLEAN :
       /\ over' = ends
       /\ Begin(t, "made", [Blank EXCEPT !.fen = plies + 1, !.ends = ends])
  /\ UNCHANGED <<offer, link, inbox, page, ticks>>

\* clocks.clear, or clearDrawOffer
ClearOffer(t) ==
  /\ pc[t] = "made"
  /\ offer' = Null
  /\ Goto(t, "tell", loc[t])
  /\ UNCHANGED <<plies, over, link, inbox, page, smooth, ticks>>

MoveMade(n) == [event |-> "move_made", fen |-> n, san |-> n, clock |-> ClockAt(n)]
Ended(n) == [event |-> "ended", finalFen |-> n]

\* The move first, the end after it.
MoveEvents(l) == <<MoveMade(l.fen)>> \o (IF l.ends THEN <<Ended(l.fen)>> ELSE <<>>)

BroadcastMove(t) ==
  /\ pc[t] = "tell"
  /\ inbox' = ToRoom(MoveEvents(loc[t]))
  /\ Reply(t)
  /\ UNCHANGED <<game, link, page, ticks>>

\* resign, acceptDraw, abort, claimTimeout, a timer: announceEnd
BeginEnd(t) ==
  /\ ~over
  /\ over' = TRUE
  /\ Begin(t, "finished", [Blank EXCEPT !.fen = plies])
  /\ UNCHANGED <<plies, offer, link, inbox, page, ticks>>

ClearKeys(t) ==
  /\ pc[t] = "finished"
  /\ offer' = Null
  /\ Goto(t, "announce", loc[t])
  /\ UNCHANGED <<plies, over, link, inbox, page, smooth, ticks>>

AnnounceEnd(t) ==
  /\ pc[t] = "announce"
  /\ inbox' = ToRoom(<<Ended(loc[t].fen)>>)
  /\ Reply(t)
  /\ UNCHANGED <<game, link, page, ticks>>

BeginOffer(t, side) ==
  /\ ~over
  /\ Begin(t, "set", [Blank EXCEPT !.offer = side])
  /\ UNCHANGED <<game, link, inbox, page, ticks>>

SetDrawOffer(t) ==
  /\ pc[t] = "set"
  /\ offer' = loc[t].offer
  /\ Goto(t, "offered", loc[t])
  /\ UNCHANGED <<plies, over, link, inbox, page, smooth, ticks>>

BroadcastOffer(t) ==
  /\ pc[t] = "offered"
  /\ inbox' = ToRoom(<<[event |-> "draw_offered", from |-> loc[t].offer]>>)
  /\ Reply(t)
  /\ UNCHANGED <<game, link, page, ticks>>

\* onClockTick: the payload is {gameId, clock}
OnClockTick ==
  /\ ~over /\ ticks < MaxTicks
  /\ ticks' = ticks + 1
  /\ inbox' = ToRoom(<<[event |-> "clock_update", payload |-> [gameId |-> "g", clock |-> ClockAt(plies)]]>>)
  /\ UNCHANGED <<game, link, page, smooth, pc, loc>>

-----------------------------------------------------------------------------
(* The handlers of the page. *)

\* Nothing of the board before is kept, but the offer it shows.
Kept(b, e) == [b EXCEPT !.fen = e.fen, !.over = e.over, !.offer = e.offer]
FromSnapshot(b, e) ==
  [fen |-> e.fen, moves |-> e.moves, over |-> e.over, offer |-> e.offer, clock |-> ClockAt(e.fen)]

Shown(b, e) ==
  CASE e.event = "ack" -> FromSnapshot(b, e)
    [] e.event = "move_made" ->
         [b EXCEPT !.fen = e.fen, !.moves = Append(@, e.san), !.clock = e.clock, !.offer = Null]
    [] e.event = "ended" -> [b EXCEPT !.over = TRUE, !.fen = e.finalFen, !.offer = Null]
    [] e.event = "draw_offered" -> [b EXCEPT !.offer = e.from]
    [] e.event = "clock_update" -> [b EXCEPT !.clock = e.payload]

Receive ==
  /\ link.up /\ inbox # <<>>
  /\ board' = Shown(board, Head(inbox))
  /\ connection' = IF Head(inbox).event = "ack" THEN "open" ELSE connection
  /\ inbox' = Tail(inbox)
  /\ UNCHANGED <<game, link, smooth, ticks, pc, loc>>

Step(t) ==
  \/ Connect(t) \/ FindGame(t) \/ ListMoves(t) \/ GetDrawOffer(t) \/ EnterRoom(t) \/ AckJoin(t)
  \/ BeginMove(t) \/ ClearOffer(t) \/ BroadcastMove(t)
  \/ BeginEnd(t) \/ ClearKeys(t) \/ AnnounceEnd(t)
  \/ SetDrawOffer(t) \/ BroadcastOffer(t)

Next ==
  \/ \E t \in Tasks : Step(t)
  \/ \E t \in Tasks, side \in Sides : BeginOffer(t, side)
  \/ Disconnect \/ ConnectError \/ OnClockTick \/ Receive

Spec == Init /\ [][Next]_vars

-----------------------------------------------------------------------------
(* Properties. *)

TypeOK ==
  /\ plies \in 0..MaxPlies /\ over \in BOOLEAN /\ offer \in Sides \cup {Null}
  /\ connection \in {"connecting", "open", "syncing", "reconnecting", "offline"}
  /\ link.joined => link.up
  /\ inbox # <<>> => link.up

\* The page has what the server has sent, and nothing is under way.
Settled == connection = "open" /\ inbox = <<>> /\ \A t \in Tasks : pc[t] = "idle"

SameBoard ==
  /\ board.fen = plies /\ board.moves = Log(plies)
  /\ board.over = over /\ board.offer = offer

\* A board that is open shows the game of the server, whatever was lost while the
\* connection was down, if no move, offer or end overlapped a join (game:join's full
\* snapshot, onMove's order of broadcasts).  It never shows a move nobody made.
BoardFollows ==
  /\ board.fen <= plies
  /\ smooth /\ Settled => SameBoard

\* The snapshot is the board: an open board shows the server's whatever overlaps.
\* A move between the reads and the entry into the room is in neither; one between
\* the entry and the answer is shown, then taken back by the older snapshot.
BoardIsCurrent == Settled => SameBoard

\* The clock of the board is set by each clock_update to the server's clock.
\* The gateway sends {gameId, clock}, the page takes what comes for the clock.
ClockIsAClock == {"whiteMs", "blackMs"} \subseteq DOMAIN board.clock
=============================================================================
