----------------------------- MODULE UciEngine -----------------------------
(***************************************************************************)
(* The adapter of the analysis engine (modules/fairplay/engine): a child   *)
(* process that speaks UCI is opened when it is needed, asked about one    *)
(* position at a time, and killed when it does not answer in time.  What   *)
(* it writes reaches the adapter later, also after its death, and always   *)
(* the one line handler there is.                                          *)
(*                                                                         *)
(* A line that is about a position carries it here, so that a property can *)
(* tell whose answer was taken; in the code lines carry none.              *)
(***************************************************************************)
EXTENDS Integers, Sequences

CONSTANTS
  Positions,  \* the positions asked about are 1..Positions
  Mated       \* ... those in which there is no move

VARIABLES
  chain,     \* positions asked about and not begun
  current,   \* the position under analysis
  handler,   \* lineHandler: what the next line is for
  child,     \* the process in use
  procs,     \* the processes opened so far
  evals,     \* what was found
  disposed,
  worker,    \* "up", or "dead": an error event nobody listens to
  overtaken  \* history: timeouts that came before lines already written

vars == <<chain, current, handler, child, procs, evals, disposed, worker, overtaken>>

None == 0
Unasked == [answer |-> "unasked"]
Pending == [answer |-> "pending"]
Failed == [answer |-> "failed"]
Found(of, info) == [answer |-> "found", of |-> of, info |-> info]

\* What a process reads from its stdin and writes to its stdout.
Command(word, of) == [word |-> word, of |-> of]
Line(word, of) == [word |-> word, of |-> of]
Spawned == [alive |-> TRUE, quitting |-> FALSE, noticed |-> FALSE, stdin |-> <<Command("uci", None)>>, stdout |-> <<>>]

NoHandler == [for |-> "nothing", info |-> None]
Handshake == [for |-> "handshake", info |-> None]
Search == [for |-> "search", info |-> None]

Init ==
  /\ chain = <<>> /\ current = None /\ handler = NoHandler
  /\ child = None /\ procs = <<>>
  /\ evals = [p \in 1..Positions |-> Unasked]
  /\ disposed = FALSE /\ worker = "up" /\ overtaken = 0

Up == worker = "up"

-----------------------------------------------------------------------------
(* The adapter. *)

\* evaluateAllPositions asks in order; whoever asks meanwhile waits in the chain.
AnalyzePosition(p) ==
  /\ Up /\ evals[p] = Unasked /\ \A q \in 1..(p - 1) : evals[q] # Unasked
  /\ chain' = Append(chain, p)
  /\ evals' = [evals EXCEPT ![p] = Pending]
  /\ UNCHANGED <<current, handler, child, procs, disposed, worker, overtaken>>

\* A write to a process that has died, before its exit is known, ends in an `error' event
\* of the stream, and nobody listens to it.
Write(all, commands) ==
  IF procs[child].alive
  THEN procs' = [all EXCEPT ![child].stdin = @ \o commands] /\ UNCHANGED worker
  ELSE procs' = all /\ worker' = "dead"

GoCommands(p) == <<Command("go", p)>>

\* analyzeSerialized; ensureProcess opens a process when there is none.
Begin ==
  /\ Up /\ current = None /\ chain # <<>>
  /\ chain' = Tail(chain)
  /\ CASE disposed ->
            evals' = [evals EXCEPT ![Head(chain)] = Failed] /\ UNCHANGED <<current, handler, child, procs, worker>>
       [] ~disposed /\ child = None ->
            /\ current' = Head(chain)
            /\ procs' = Append(procs, Spawned) /\ child' = Len(procs')
            /\ handler' = Handshake
            /\ UNCHANGED <<evals, worker>>
       [] OTHER ->
            /\ current' = Head(chain)
            /\ handler' = Search
            /\ Write(procs, GoCommands(current'))
            /\ UNCHANGED <<evals, child>>
  /\ UNCHANGED <<disposed, overtaken>>

Settle(outcome) ==
  /\ evals' = [evals EXCEPT ![current] = outcome]
  /\ current' = None

\* A pipe is read in its order, and what an earlier process had written before it was
\* killed is read before a word of the next one.
Readable(i) == procs[i].stdout # <<>> /\ \A j \in 1..(i - 1) : procs[j].stdout = <<>>

ReadLine(i) ==
  LET line == Head(procs[i].stdout)
      rest == [procs EXCEPT ![i].stdout = Tail(@)]
  IN
  /\ Up /\ i \in DOMAIN procs /\ Readable(i)
  /\ CASE handler.for = "handshake" /\ line.word = "uciok" ->
            Write(rest, <<Command("isready", None)>>) /\ UNCHANGED <<handler, evals, current>>
       [] handler.for = "handshake" /\ line.word = "readyok" ->
            Write(rest, GoCommands(current)) /\ handler' = Search /\ UNCHANGED <<evals, current>>
       [] handler.for = "search" /\ line.word = "info" ->
            procs' = rest /\ handler' = [handler EXCEPT !.info = line.of] /\ UNCHANGED <<evals, current, worker>>
       [] handler.for = "search" /\ line.word \in {"bestmove", "none"} ->
            /\ procs' = rest /\ handler' = NoHandler
            /\ Settle(IF line.word = "none" THEN Failed ELSE Found(line.of, handler.info))
            /\ UNCHANGED worker
       [] OTHER -> procs' = rest /\ UNCHANGED <<handler, evals, current, worker>>
  /\ UNCHANGED <<chain, child, disposed, overtaken>>

LetItRun(all) == all
\* killCurrentProcess
Killed(all) == IF child = None THEN all ELSE [all EXCEPT ![child].alive = FALSE]

\* withTimeout, of the handshake or of the position.
Timeout ==
  /\ Up /\ current # None
  /\ procs' = Killed(procs)
  /\ child' = None /\ handler' = NoHandler
  /\ Settle(Failed)
  /\ overtaken' = overtaken + (IF \E i \in DOMAIN procs : procs[i].stdout # <<>> THEN 1 ELSE 0)
  /\ UNCHANGED <<chain, disposed, worker>>

AnyExit(i) == TRUE
\* The exit of a process that is not in use any more concerns nobody.
InUse(i) == child = i

\* The exit event may come before the last lines are read.
Exit(i) ==
  /\ Up /\ i \in DOMAIN procs /\ ~procs[i].alive /\ ~procs[i].noticed
  /\ procs' = [procs EXCEPT ![i].noticed = TRUE]
  /\ IF InUse(i) THEN child' = None /\ handler' = NoHandler ELSE UNCHANGED <<child, handler>>
  /\ UNCHANGED <<chain, current, evals, disposed, worker, overtaken>>

\* The binary cannot be started.
SpawnError ==
  /\ Up /\ handler = Handshake /\ procs[child].stdin = Spawned.stdin
  /\ procs' = [procs EXCEPT ![child].alive = FALSE, ![child].noticed = TRUE]
  /\ child' = None /\ handler' = NoHandler
  /\ Settle(Failed)
  /\ UNCHANGED <<chain, disposed, worker, overtaken>>

Dispose ==
  /\ Up /\ ~disposed
  /\ disposed' = TRUE
  /\ child' = None /\ handler' = NoHandler
  /\ IF child = None THEN UNCHANGED <<procs, worker>>
     ELSE Write([procs EXCEPT ![child].quitting = TRUE], <<Command("quit", None)>>)
  /\ UNCHANGED <<chain, current, evals, overtaken>>

\* QUIT_GRACE_MS later.
GraceOver(i) ==
  /\ Up /\ i \in DOMAIN procs /\ procs[i].quitting /\ procs[i].alive
  /\ procs' = [procs EXCEPT ![i].alive = FALSE]
  /\ UNCHANGED <<chain, current, handler, child, evals, disposed, worker, overtaken>>

-----------------------------------------------------------------------------
(* The process: slow, silent, or dead at any time. *)

Says(command) ==
  CASE command.word = "uci" -> Line("uciok", None)
    [] command.word = "isready" -> Line("readyok", None)
    [] command.word = "go" -> Line(IF command.of \in Mated THEN "none" ELSE "bestmove", command.of)

Heard(i, word) == i \in DOMAIN procs /\ procs[i].alive /\ procs[i].stdin # <<>> /\ Head(procs[i].stdin).word = word

Speak(i) ==
  /\ \E word \in {"uci", "isready", "go"} : Heard(i, word)
  /\ procs' = [procs EXCEPT ![i].stdin = Tail(@), ![i].stdout = Append(@, Says(Head(procs[i].stdin)))]
  /\ UNCHANGED <<chain, current, handler, child, evals, disposed, worker, overtaken>>

\* One line of thought about a position is enough here.
Think(i) ==
  LET of == Head(procs[i].stdin).of IN
  /\ Heard(i, "go")
  /\ \A n \in DOMAIN procs[i].stdout : procs[i].stdout[n] # Line("info", of)
  /\ procs' = [procs EXCEPT ![i].stdout = Append(@, Line("info", of))]
  /\ Len(procs'[i].stdout) <= 2
  /\ UNCHANGED <<chain, current, handler, child, evals, disposed, worker, overtaken>>

Die(i) ==
  /\ i \in DOMAIN procs /\ procs[i].alive
  /\ procs' = [procs EXCEPT ![i].alive = FALSE]
  /\ UNCHANGED <<chain, current, handler, child, evals, disposed, worker, overtaken>>

-----------------------------------------------------------------------------

Next ==
  \/ \E p \in 1..Positions : AnalyzePosition(p)
  \/ Begin \/ Timeout \/ SpawnError \/ Dispose
  \/ \E i \in DOMAIN procs : ReadLine(i) \/ Exit(i) \/ GraceOver(i) \/ Speak(i) \/ Think(i) \/ Die(i)

Spec == Init /\ [][Next]_vars

-----------------------------------------------------------------------------
(* Properties. *)

TypeOK ==
  /\ child \in 0..Len(procs) /\ current \in 0..Positions
  /\ handler.for \in {"nothing", "handshake", "search"}
  /\ current # None <=> \E p \in 1..Positions : evals[p] = Pending /\ \A n \in DOMAIN chain : chain[n] # p

\* A position is given the move and the evaluation of that position, however late the
\* lines of a process come that was killed for its silence (withTimeout).
AnswerOf(p) == evals[p].answer = "found" => evals[p].of = p /\ evals[p].info \in {p, None}
AnswerIsOfPosition == overtaken <= 1 => \A p \in 1..Positions : AnswerOf(p)

\* No process is forgotten: one that lives is in use or has been told to quit
\* ("Zombie yo'q").
NoZombie == Up => \A i \in DOMAIN procs : procs[i].alive => i = child \/ procs[i].quitting

\* Neither of these holds: AroundDivergences.  A word of one process that was killed can end
\* the handshake of the next, which is then asked twice and leaves a word too many behind.
AnswersAreOwn == \A p \in 1..Positions : AnswerOf(p)
WorkerSurvives == worker = "up"
=============================================================================
