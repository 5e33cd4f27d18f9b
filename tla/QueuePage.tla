----------------------------- MODULE QueuePage ------------------------------
(***************************************************************************)
(* The page on which a player waits for an opponent (web/app/(site)/oyin), *)
(* the socket of the application it stands in (web/lib/play-socket) and    *)
(* the gateway's side of that socket (handleConnection, notifyMatched).    *)
(* The news of a pairing is sent once, to whatever socket is in the room   *)
(* of the player at that moment; the page looks his games up whenever a    *)
(* socket connects and once the queue has taken him.                       *)
(*                                                                         *)
(* The queue itself is in Matchmaking, the tokens in Browser: here he is   *)
(* in it or not, and the access token is in force or not.  He may have a   *)
(* game under way already, and he stays on the page.                       *)
(***************************************************************************)
EXTENDS Naturals, FiniteSets

CONSTANTS
  Calls,      \* slots for requests of the page under way
  Unread,     \* the list of games has not arrived yet
  MaxDrops,   \* bound: failures of the socket's connection
  MaxStale,   \* bound: access tokens that run out
  MaxLosses   \* bound: requests that fail

VARIABLES
  waiting,   \* "out", "in" the queue, or "taken" out of it by a pairing
  games,     \* his games under way: one from before, one from the queue
  owed,      \* the new game exists, nobody has been told
  valid,     \* the access token is in force
  socket,    \* "down", "up", "joined": in the room of the player, "dead": refused
  pushed,    \* the news is on its way to the socket
  shown,     \* what the browser shows: the "lobby", or a game
  queue,     \* what the page says: "idle", "joining", "queued"
  known,     \* knownGameIds
  listed,    \* the games the page has listed
  calls,
  drops, stales, losses,
  slipped    \* history: the news was sent between a connection and its entry into the room

vars == <<waiting, games, owed, valid, socket, pushed, shown, queue, known, listed, calls,
          drops, stales, losses, slipped>>

server == <<waiting, games, owed>>
page   == <<shown, queue, known, listed>>
bounds == <<drops, stales, losses, slipped>>

Free == [kind |-> "none", at |-> "sent", got |-> {}]
Call(kind) == [Free EXCEPT !.kind = kind]

\* The page has come up: its list is asked for and its socket being connected.
Init ==
  /\ waiting = "out" /\ games \in {{}, {"old"}} /\ owed = FALSE /\ valid = TRUE
  /\ socket = "down" /\ pushed = FALSE
  /\ shown = "lobby" /\ queue = "idle" /\ known = {} /\ listed = Unread
  /\ \E c \in Calls : calls = [x \in Calls |-> IF x = c THEN Call("load") ELSE Free]
  /\ drops = 0 /\ stales = 0 /\ losses = 0 /\ slipped = FALSE

-----------------------------------------------------------------------------
(* The player. *)

Connected == socket \in {"up", "joined"}

Join(c) ==
  /\ shown = "lobby" /\ queue = "idle" /\ Connected /\ "new" \notin games
  /\ calls[c] = Free
  /\ calls' = [calls EXCEPT ![c] = Call("join")]
  /\ queue' = "joining"
  /\ known' = IF listed = Unread THEN {} ELSE listed
  /\ UNCHANGED <<server, valid, socket, pushed, shown, listed, bounds>>

Leave(c) ==
  /\ shown = "lobby" /\ queue = "queued" /\ calls[c] = Free
  /\ calls' = [calls EXCEPT ![c] = Call("leave")]
  /\ UNCHANGED <<server, valid, socket, pushed, page, bounds>>

-----------------------------------------------------------------------------
(* The server. *)

Answer(c, got) == calls' = [calls EXCEPT ![c] = [@ EXCEPT !.at = "answered", !.got = got]]

\* authFetch: with a token that has run out the request is refused, the token exchanged
\* and the request sent again; with the new token the socket is opened and the list asked
\* for anew.
Renew(c) ==
  /\ calls[c] # Free /\ calls[c].at = "sent" /\ ~valid
  /\ valid' = TRUE
  /\ socket' = "down" /\ pushed' = FALSE
  /\ IF shown = "lobby" THEN \E d \in Calls : calls[d] = Free /\ calls' = [calls EXCEPT ![d] = Call("load")]
     ELSE UNCHANGED calls
  /\ UNCHANGED <<server, page, bounds>>

Reaches(c, kind) == calls[c] = Call(kind) /\ valid

\* The marker is set NX: a second entry is refused.  (One game comes of the queue here:
\* nobody enters it while that one is being made.)
Enter(c) ==
  /\ Reaches(c, "join") /\ waiting # "taken"
  /\ IF waiting = "in"
     THEN Answer(c, {"refused"}) /\ UNCHANGED waiting
     ELSE waiting' = "in" /\ calls' = [calls EXCEPT ![c].at = "looking"]
  /\ UNCHANGED <<games, owed, valid, socket, pushed, page, bounds>>

\* tryMatchFor: nobody there, or the pairing is this request's own.
LookAround(c) ==
  /\ calls[c].at = "looking"
  /\ \/ Answer(c, {"queued"}) /\ UNCHANGED waiting
     \/ /\ waiting = "in"
        /\ waiting' = "taken"
        /\ calls' = [calls EXCEPT ![c].at = "pairing"]
  /\ UNCHANGED <<games, owed, valid, socket, pushed, page, bounds>>

\* The sweeper, or the request of another player.
PairedByOther ==
  /\ waiting = "in" /\ "new" \notin games
  /\ waiting' = "taken"
  /\ UNCHANGED <<games, owed, valid, socket, pushed, page, calls, bounds>>

CreateGame ==
  /\ waiting = "taken"
  /\ waiting' = "out"
  /\ games' = games \cup {"new"}
  /\ owed' = TRUE
  /\ UNCHANGED <<valid, socket, pushed, page, calls, bounds>>

\* To the room of the player; the request that made the pairing answers afterwards.
NotifyMatched ==
  /\ owed
  /\ owed' = FALSE
  /\ pushed' = (socket = "joined")
  /\ slipped' = (slipped \/ socket = "up")
  /\ calls' = [c \in Calls |->
       IF calls[c].at = "pairing" THEN [calls[c] EXCEPT !.at = "answered", !.got = {"new"}] ELSE calls[c]]
  /\ UNCHANGED <<waiting, games, valid, socket, page, drops, stales, losses>>

Withdraw(c) ==
  /\ Reaches(c, "leave")
  /\ waiting' = IF waiting = "in" THEN "out" ELSE waiting
  /\ Answer(c, {})
  /\ UNCHANGED <<games, owed, valid, socket, pushed, page, bounds>>

ListGames(c) ==
  /\ Reaches(c, "load") \/ Reaches(c, "recover")
  /\ Answer(c, games)
  /\ UNCHANGED <<server, valid, socket, pushed, page, bounds>>

-----------------------------------------------------------------------------
(* The answers. *)

GoTo(game) == shown' = game /\ queue' = "idle"
Stay == UNCHANGED <<shown, queue>>

WasKnown(game) == game \in known

\* The newest first.
Fresh(rows) == {g \in rows : ~WasKnown(g) /\ (g = "old" => "new" \notin rows \/ WasKnown("new"))}

\* recoverMissedMatch does nothing while the page is idle.
Recovery(q) == IF q = "idle" THEN Free ELSE Call("recover")

Deliver(c) ==
  LET call == calls[c] IN
  /\ call.at = "answered"
  /\ CASE call.kind = "join" /\ call.got = {"new"} ->
            GoTo("new") /\ UNCHANGED listed /\ calls' = [calls EXCEPT ![c] = Free]
       [] call.kind = "join" /\ call.got = {"queued"} ->
            queue' = "queued" /\ UNCHANGED <<shown, listed>> /\ calls' = [calls EXCEPT ![c] = Recovery(queue')]
       [] call.kind = "recover" ->
            /\ IF Fresh(call.got) = {} THEN Stay ELSE \E g \in Fresh(call.got) : GoTo(g)
            /\ listed' = call.got
            /\ calls' = [calls EXCEPT ![c] = Free]
       [] call.kind = "load" ->
            Stay /\ listed' = call.got /\ calls' = [calls EXCEPT ![c] = Free]
       [] OTHER ->
            queue' = "idle" /\ UNCHANGED <<shown, listed>> /\ calls' = [calls EXCEPT ![c] = Free]
  /\ UNCHANGED <<server, valid, socket, pushed, known, bounds>>

\* A request or its answer is lost: the page shows an error and is idle again, except
\* after a look-up.
Lose(c) ==
  /\ calls[c] # Free /\ calls[c].at # "pairing" /\ losses < MaxLosses
  /\ losses' = losses + 1
  /\ queue' = IF calls[c].kind \in {"join", "leave"} THEN "idle" ELSE queue
  /\ calls' = [calls EXCEPT ![c] = Free]
  /\ UNCHANGED <<server, valid, socket, pushed, shown, known, listed, drops, stales, slipped>>

-----------------------------------------------------------------------------
(* The socket. *)

AskNothing == Free
\* The listener of the page: every connection is an occasion to look.
AskOnConnect == IF shown = "lobby" THEN Recovery(queue) ELSE Free

Connect ==
  /\ socket = "down"
  /\ socket' = "up"
  /\ IF AskOnConnect = Free THEN UNCHANGED calls
     ELSE \E c \in Calls : calls[c] = Free /\ calls' = [calls EXCEPT ![c] = AskOnConnect]
  /\ UNCHANGED <<server, valid, pushed, page, bounds>>

\* handleConnection: the token is verified, then the socket joins the player's room; the
\* server ends the connection otherwise, and the client does not connect again by itself.
\* (No token runs out while it is being verified: RunOut.)
EnterRoom ==
  /\ socket = "up"
  /\ socket' = IF valid THEN "joined" ELSE "dead"
  /\ UNCHANGED <<server, valid, pushed, page, calls, bounds>>

\* A game on the board is not left for another one.
Matched ==
  /\ pushed
  /\ pushed' = FALSE
  /\ IF shown = "lobby" THEN GoTo("new") ELSE Stay
  /\ UNCHANGED <<server, valid, socket, known, listed, calls, bounds>>

Drop ==
  /\ Connected /\ drops < MaxDrops
  /\ drops' = drops + 1
  /\ socket' = "down" /\ pushed' = FALSE
  /\ UNCHANGED <<server, valid, page, calls, stales, losses, slipped>>

RunOut ==
  /\ valid /\ stales < MaxStale /\ socket # "up"
  /\ stales' = stales + 1
  /\ valid' = FALSE
  /\ UNCHANGED <<server, socket, pushed, page, calls, drops, losses, slipped>>

Next ==
  \/ \E c \in Calls :
       Join(c) \/ Leave(c) \/ Renew(c) \/ Enter(c) \/ LookAround(c) \/ Withdraw(c) \/ ListGames(c)
         \/ Deliver(c) \/ Lose(c)
  \/ PairedByOther \/ CreateGame \/ NotifyMatched
  \/ Connect \/ EnterRoom \/ Matched \/ Drop \/ RunOut

Spec == Init /\ [][Next]_vars

-----------------------------------------------------------------------------
(* Properties. *)

Quiet == \A c \in Calls : calls[c] = Free

\* A player who waits on the page while his game has begun finds out: once his socket is
\* in its room and nothing is under way he is at the board, whatever was dropped before
\* (recoverMissedMatch).  Two ways out are known: a look-up that failed, and news sent in
\* the moment between a connection and its entry into the room.
NobodyIsFrozen ==
  shown = "lobby" /\ queue = "queued" /\ "new" \in games /\ ~owed /\ ~pushed /\ Quiet /\ socket = "joined"
    => losses > 0 \/ slipped

\* A socket that was refused for its token comes back before the page waits for news.
QueuedIsReachable == queue = "queued" /\ shown = "lobby" /\ socket = "dead" /\ Quiet => losses > 0

\* He is not taken to a game he had before (page.tsx, knownGameIds).  Not so when he joins
\* before his list has arrived: PeopleDivergences.
NotDraggedAway == shown # "old"
=============================================================================
