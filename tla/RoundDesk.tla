----------------------------- MODULE RoundDesk ------------------------------
(***************************************************************************)
(* The page on which an arbiter runs the rounds of a section               *)
(* (web/app/(site)/konsol/turnir/[id]) with its table of results           *)
(* (web/components/result-entry).  He opens a round, enters a result by a  *)
(* key or a click, closes the round and asks for the next.  Each of these  *)
(* is a chain of requests, whose answers come in any order.                *)
(*                                                                         *)
(* The server answers at once here; what its requests do to each other is  *)
(* in TournamentSection.  Only boards with two players are listed, every   *)
(* round has the same number of them, and the tournament is in progress.   *)
(***************************************************************************)
EXTENDS Naturals, Sequences

CONSTANTS
  Calls,        \* slots for chains of requests under way
  Boards,       \* 1..n
  Results,      \* what an arbiter enters
  MaxRounds,    \* bound: rounds
  MaxLosses,    \* bound: requests or answers that are lost
  MaxElsewhere  \* bound: what another arbiter does meanwhile

VARIABLES
  rounds,   \* the server's: the status and the results of each round
  open,     \* openRound, a copy of one of them, or Closed
  listed,   \* how many rounds the page lists
  active,   \* the row the keys belong to
  lock,     \* inFlight
  busy,     \* a round is being asked for
  calls,
  losses, elsewhere,
  had,      \* history: the results the server has had
  pressed,  \* history: what was entered first for each board
  orderly,  \* history: no chain began while another was under way
  upset     \* history: the page has missed something since it last read a round

server == <<rounds, had>>
page   == <<open, listed, active, lock, busy>>
bounds == <<losses, elsewhere>>
vars == <<rounds, open, listed, active, lock, busy, calls, losses, elsewhere, had, pressed, orderly, upset>>

Closed == [round |-> 0, status |-> "NONE", results |-> <<>>]
Fresh == [status |-> "PAIRED", results |-> [b \in Boards |-> "UNPLAYED"]]
Copy(n) == [round |-> n, status |-> rounds[n].status, results |-> rounds[n].results]

Free == [kind |-> "none", step |-> "none", at |-> "sent", round |-> 0, board |-> 0, result |-> "UNPLAYED",
         rows |-> <<>>, got |-> Closed, ok |-> TRUE]

Init ==
  /\ rounds = <<Fresh>>
  /\ open = Closed /\ listed = 0 /\ active = 1 /\ lock = FALSE /\ busy = FALSE
  /\ \E c \in Calls :
       calls = [d \in Calls |-> IF d = c THEN [Free EXCEPT !.kind = "load", !.step = "list"] ELSE Free]
  /\ losses = 0 /\ elsewhere = 0 /\ had = {} /\ pressed = <<>> /\ orderly = TRUE /\ upset = FALSE

-----------------------------------------------------------------------------
(* The arbiter. *)

Start(c, call) ==
  /\ calls[c] = Free
  /\ calls' = [calls EXCEPT ![c] = call]
  /\ orderly' = (orderly /\ \A d \in Calls : calls[d] = Free)

\* The lock is a ref: a second key finds it taken before the page is drawn again.
LockUnseen == TRUE
Unlocked == ~lock

\* A key enters the result of the active row, a click that of any other, which becomes
\* active.  The rows are those the page showed then.
Press(c) ==
  /\ open.status = "PAIRED" /\ Unlocked
  /\ \E b \in Boards, result \in Results :
       LET key == <<open.round, b>> IN
       /\ Start(c, [Free EXCEPT !.kind = "result", !.step = "patch", !.round = open.round, !.board = b,
                                !.result = result, !.rows = open.results])
       /\ active' = b
       /\ pressed' = IF key \in DOMAIN pressed THEN pressed
                     ELSE [k \in DOMAIN pressed \cup {key} |-> IF k = key THEN result ELSE pressed[k]]
  /\ lock' = TRUE
  /\ UNCHANGED <<server, open, listed, busy, bounds, upset>>

\* The arrows, or a row that is clicked.
Move ==
  /\ open # Closed
  /\ active' \in Boards \ {active}
  /\ UNCHANGED <<server, open, listed, lock, busy, calls, bounds, pressed, orderly, upset>>

ShowRound(c) ==
  /\ \E n \in 1..listed : Start(c, [Free EXCEPT !.kind = "show", !.step = "round", !.round = n])
  /\ UNCHANGED <<server, page, bounds, pressed, upset>>

CompleteRound(c) ==
  /\ open.status = "PAIRED"
  /\ Start(c, [Free EXCEPT !.kind = "complete", !.step = "complete", !.round = open.round])
  /\ UNCHANGED <<server, page, bounds, pressed, upset>>

GenerateRound(c) ==
  /\ listed > 0 /\ ~busy
  /\ Start(c, [Free EXCEPT !.kind = "generate", !.step = "generate"])
  /\ busy' = TRUE
  /\ UNCHANGED <<server, open, listed, active, lock, bounds, pressed, upset>>

-----------------------------------------------------------------------------
(* The server. *)

Sent(c, step) == calls[c].step = step /\ calls[c].at = "sent"
Answer(c, ok, got) == calls' = [calls EXCEPT ![c] = [@ EXCEPT !.at = "answered", !.ok = ok, !.got = got]]

\* A result that is there is corrected with a reason only, and the page sends none.
EnterResult(c) ==
  LET l == calls[c]
      there == rounds[l.round].results[l.board] # "UNPLAYED" IN
  /\ Sent(c, "patch")
  /\ Answer(c, ~there, Closed)
  /\ IF there THEN UNCHANGED server
     ELSE /\ rounds' = [rounds EXCEPT ![l.round].results[l.board] = l.result]
          /\ had' = had \cup {<<l.round, l.board, l.result>>}
  /\ UNCHANGED <<page, bounds, pressed, orderly, upset>>

Closable(n) == rounds[n].status = "PAIRED" /\ \A b \in Boards : rounds[n].results[b] # "UNPLAYED"

Complete(c) ==
  LET n == calls[c].round IN
  /\ Sent(c, "complete")
  /\ Answer(c, Closable(n), Closed)
  /\ rounds' = IF Closable(n) THEN [rounds EXCEPT ![n].status = "COMPLETED"] ELSE rounds
  /\ UNCHANGED <<had, page, bounds, pressed, orderly, upset>>

\* The rounds of a section are paired one after the other.
Generate(c) ==
  LET last == Len(rounds) IN
  /\ Sent(c, "generate")
  /\ IF last < MaxRounds /\ rounds[last].status = "COMPLETED"
     THEN /\ rounds' = Append(rounds, Fresh)
          /\ Answer(c, TRUE, [round |-> last + 1, status |-> Fresh.status, results |-> Fresh.results])
          /\ upset' = FALSE
     ELSE Answer(c, FALSE, Closed) /\ UNCHANGED <<rounds, upset>>
  /\ UNCHANGED <<had, page, bounds, pressed, orderly>>

GetRound(c) ==
  /\ Sent(c, "round")
  /\ Answer(c, TRUE, Copy(calls[c].round))
  /\ upset' = FALSE
  /\ UNCHANGED <<server, page, bounds, pressed, orderly>>

\* The rounds, the players and the table; of a chain that opens a round the copy is kept.
List(c) ==
  /\ Sent(c, "list")
  /\ calls' = [calls EXCEPT ![c] = [@ EXCEPT !.at = "answered", !.board = Len(rounds), !.ok = TRUE]]
  /\ UNCHANGED <<server, page, bounds, pressed, orderly, upset>>

\* The request never arrives, or its answer does not.
Lose(c) ==
  /\ calls[c] # Free /\ losses < MaxLosses
  /\ losses' = losses + 1
  /\ calls' = [calls EXCEPT ![c] = [@ EXCEPT !.at = "answered", !.ok = FALSE]]
  /\ upset' = TRUE
  /\ UNCHANGED <<server, page, elsewhere, pressed, orderly>>

\* Another arbiter enters a result, corrects one with a reason, or closes the round.
Elsewhere ==
  /\ elsewhere < MaxElsewhere
  /\ elsewhere' = elsewhere + 1
  /\ \E n \in DOMAIN rounds :
       \/ \E b \in Boards, result \in Results :
            /\ rounds' = [rounds EXCEPT ![n].results[b] = result]
            /\ had' = had \cup {<<n, b, result>>}
       \/ Closable(n) /\ rounds' = [rounds EXCEPT ![n].status = "COMPLETED"] /\ UNCHANGED had
  /\ upset' = TRUE
  /\ UNCHANGED <<page, calls, losses, pressed, orderly>>

-----------------------------------------------------------------------------
(* What the page does with an answer. *)

Answered(c, kind, step) == calls[c].kind = kind /\ calls[c].step = step /\ calls[c].at = "answered"
Then(c, step) == calls' = [calls EXCEPT ![c] = [@ EXCEPT !.step = step, !.at = "sent"]]
End(c) == calls' = [calls EXCEPT ![c] = Free]
Show(c) == open' = IF calls[c].ok THEN calls[c].got ELSE open
Same == UNCHANGED <<server, bounds, pressed, orderly, upset>>

\* The next row without a result, of those there were when the key was pressed.
NextEmpty(rows, b) ==
  LET empty == {i \in Boards : i > b /\ rows[i] = "UNPLAYED"} IN
  IF empty # {} THEN CHOOSE i \in empty : \A j \in empty : i <= j
  ELSE IF b + 1 \in Boards THEN b + 1 ELSE b

\* finally
Unlock(c) == lock' = FALSE

\* setResult catches every error, so the cursor goes on whatever the answer was.
Entered(c) ==
  /\ active' = NextEmpty(calls[c].rows, calls[c].board)
  /\ Unlock(c)
  /\ End(c)

AfterResult(c) ==
  /\ Answered(c, "result", "patch")
  /\ IF calls[c].ok THEN Then(c, "round") /\ UNCHANGED <<active, lock>> ELSE Entered(c)
  /\ Same /\ UNCHANGED <<open, listed, busy>>

AfterReread(c) ==
  /\ Answered(c, "result", "round")
  /\ Show(c) /\ Entered(c)
  /\ Same /\ UNCHANGED <<listed, busy>>

AfterShow(c) ==
  /\ \E kind \in {"show", "complete"} : Answered(c, kind, "round")
  /\ Show(c) /\ End(c)
  /\ Same /\ UNCHANGED <<listed, active, lock, busy>>

\* A request that is refused ends the chain.
AfterAsked(c) ==
  /\ \E kind \in {"complete", "generate"} : Answered(c, kind, kind)
  /\ IF calls[c].ok THEN Then(c, "list") ELSE End(c)
  /\ busy' = IF calls[c].kind = "generate" /\ ~calls[c].ok THEN FALSE ELSE busy
  /\ Same /\ UNCHANGED <<open, listed, active, lock>>

\* load reports its own errors: the chain goes on without it.
AfterList(c) ==
  /\ calls[c].step = "list" /\ calls[c].at = "answered"
  /\ listed' = IF calls[c].ok THEN calls[c].board ELSE listed
  /\ CASE calls[c].kind = "load" -> End(c) /\ UNCHANGED <<open, busy>>
       [] calls[c].kind = "complete" -> Then(c, "round") /\ UNCHANGED <<open, busy>>
       [] calls[c].kind = "generate" -> End(c) /\ open' = calls[c].got /\ busy' = FALSE
  /\ Same /\ UNCHANGED <<active, lock>>

-----------------------------------------------------------------------------

Arbiter(c) == Press(c) \/ ShowRound(c) \/ CompleteRound(c) \/ GenerateRound(c)
Server(c) == EnterResult(c) \/ Complete(c) \/ Generate(c) \/ GetRound(c) \/ List(c) \/ Lose(c)
Page(c) == AfterResult(c) \/ AfterReread(c) \/ AfterShow(c) \/ AfterAsked(c) \/ AfterList(c)

Next == Move \/ Elsewhere \/ \E c \in Calls : Arbiter(c) \/ Server(c) \/ Page(c)

Spec == Init /\ [][Next]_vars

-----------------------------------------------------------------------------
(* Properties. *)

TypeOK ==
  /\ open = Closed \/ open.round \in DOMAIN rounds
  /\ active \in Boards /\ listed <= Len(rounds)

Quiet == \A c \in Calls : calls[c] = Free

\* Nothing is shown before it is written ("OPTIMISTIK EMAS", result-entry).
ShownWasWritten ==
  \A b \in DOMAIN open.results :
    open.results[b] # "UNPLAYED" => <<open.round, b, open.results[b]>> \in had

\* Of two results entered for a board the first is the one that counts, as the arbiter is
\* told of the second: they never overtake each other (inFlight).
FirstPressCounts ==
  losses = 0 /\ elsewhere = 0 =>
    \A key \in DOMAIN pressed : rounds[key[1]].results[key[2]] \in {"UNPLAYED", pressed[key]}

\* Whatever was refused or lost, the page takes the next key in the end.
PageSettles == Quiet => ~lock /\ ~busy

\* An arbiter who waits for his answers, alone and on a good line, sees the round as it is.
QuietPageIsCurrent == Quiet /\ orderly /\ ~upset /\ open # Closed => open = Copy(open.round)

\* None of these holds, SectionDivergences: one who does not wait is left with an old copy,
\* or taken back to the round he had left; and after a result that was refused or lost the
\* cursor has gone on to the next board.
PageIsCurrent == Quiet /\ ~upset /\ open # Closed => open = Copy(open.round)
CursorWaits ==
  \A c \in Calls : Answered(c, "result", "patch") /\ ~calls[c].ok /\ Quiet' => active' = active
=============================================================================
