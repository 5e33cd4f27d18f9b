---------------------------- MODULE FairPlayCases ---------------------------
(***************************************************************************)
(* Fair play (modules/fairplay): reports and analyses of finished games    *)
(* leave signals in a player's open case, a commission decides the case,   *)
(* and the player may appeal to somebody else.  Signals are recorded in a  *)
(* READ COMMITTED transaction that looks for the open case first and       *)
(* writes later; the analysis jobs are delivered at least once.            *)
(***************************************************************************)
EXTENDS Integers, Sequences, FiniteSetsExt

CONSTANTS
  Games,
  Players,    \* the players of these games
  Reporters,  \* users who report somebody
  Commission, \* users who may decide cases and appeals
  Findings,   \* the sets of signals an analysis of a game may end with
  Slots,      \* requests in flight and worker processes
  Null,
  MaxCases,   \* bound: no further case is opened
  MaxAppeals  \* bound: no further appeal is filed

VARIABLES
  cases,   \* [player, status, counted: what its score was computed from, reviewedBy, sanction]
  signals, \* [case, type, game, reporter]
  appeals, \* [case, status, reviewedBy]
  jobs,    \* of every job id, what the queue knows: "none", "waiting", "active", "kept"
  over,    \* the games that have ended
  late,    \* decided cases whose appeal window has closed
  pc, loc

tables == <<cases, signals, appeals>>
vars == <<cases, signals, appeals, jobs, over, late, pc, loc>>

Undecided == {"OPEN", "UNDER_REVIEW"}
Verdicts == {"CLOSED_CLEARED", "CLOSED_WARNING", "CLOSED_SANCTION"}
Active == {"SUBMITTED", "UNDER_REVIEW"}

\* analyze:game:player or analyze:game:all; added under an id it knows, a job is dropped.
JobIds == [game : Games, player : Players \cup {Null}]
Queued(id) == IF jobs[id] = "none" THEN [jobs EXCEPT ![id] = "waiting"] ELSE jobs

Blank == [job |-> Null, todo |-> {}, player |-> Null, signals |-> {}, found |-> 0,
          old |-> {}, case |-> 0, by |-> Null]

Goto(s, label, l) ==
  /\ pc' = [pc EXCEPT ![s] = label]
  /\ loc' = [loc EXCEPT ![s] = l]

Reply(s) == Goto(s, "idle", Blank)

Init ==
  /\ cases = <<>> /\ signals = {} /\ appeals = <<>>
  /\ jobs = [id \in JobIds |-> "none"]
  /\ over = {} /\ late = {}
  /\ pc = [s \in Slots |-> "idle"]
  /\ loc = [s \in Slots |-> Blank]

-----------------------------------------------------------------------------
(* Signals. *)

Evidence(type, game, reporter) == [type |-> type, game |-> game, reporter |-> reporter]
Of(x) == Evidence(x.type, x.game, x.reporter)
SignalsOf(c) == {Of(x) : x \in {y \in signals : y.case = c}}
OpenCases(p) == {c \in DOMAIN cases : cases[c].player = p /\ cases[c].status \in Undecided}

\* The game ends, and is sampled or not; an aborted game is never over here.
OnGameFinished(g) ==
  /\ g \notin over
  /\ over' = over \cup {g}
  /\ jobs' \in {jobs, Queued([game |-> g, player |-> Null])}
  /\ UNCHANGED <<tables, late, pc, loc>>

\* The game need not be over; nobody reports himself.
SubmitReport(s) ==
  /\ pc[s] = "idle"
  /\ \E g \in Games, suspect \in Players, reporter \in Reporters :
       /\ reporter # suspect
       /\ Goto(s, "record", [Blank EXCEPT !.player = suspect,
                                          !.signals = {Evidence("MANUAL_REPORT", g, reporter)}])
  /\ UNCHANGED <<tables, jobs, over, late>>

NewestOpen(p) == Max(OpenCases(p) \cup {0})

\* recordSignals up to its first write
FindCase(s) ==
  LET l == loc[s]
      c == NewestOpen(l.player)
  IN
  /\ pc[s] = "record"
  /\ Goto(s, "write", [l EXCEPT !.found = c, !.old = SignalsOf(c)])
  /\ UNCHANGED <<tables, jobs, over, late>>

\* The score is computed from all signals of the case, as this transaction knows them.
Counted(l) == l.old \cup l.signals

RecordSignals(s) ==
  LET l == loc[s]
      c == IF l.found = 0 THEN Len(cases) + 1 ELSE l.found
      fresh == {[case |-> c, type |-> e.type, game |-> e.game, reporter |-> e.reporter]
                : e \in l.signals \ l.old}
  IN
  /\ pc[s] = "write"
  /\ l.found # 0 \/ Len(cases) < MaxCases
  /\ cases' = IF l.found = 0
              THEN Append(cases, [player |-> l.player, status |-> "OPEN", counted |-> Counted(l),
                                  reviewedBy |-> Null, sanction |-> FALSE])
              ELSE [cases EXCEPT ![c].counted = Counted(l)]
  /\ signals' = signals \cup fresh
  /\ IF l.job = Null THEN Goto(s, "enqueue", l) ELSE Goto(s, "analyze", l)
  /\ UNCHANGED <<appeals, jobs, over, late>>

EnqueueAnalysis(s) ==
  LET report == CHOOSE e \in loc[s].signals : TRUE IN
  /\ pc[s] = "enqueue"
  /\ jobs' = Queued([game |-> report.game, player |-> loc[s].player])
  /\ Reply(s)
  /\ UNCHANGED <<tables, over, late>>

-----------------------------------------------------------------------------
(* The worker. *)

\* A job about a game that is not over is dropped, and kept as done.
TakeJob(s) ==
  /\ pc[s] = "idle"
  /\ \E id \in JobIds :
       /\ jobs[id] = "waiting"
       /\ IF id.game \in over
          THEN /\ jobs' = [jobs EXCEPT ![id] = "active"]
               /\ Goto(s, "analyze", [Blank EXCEPT !.job = id,
                         !.todo = IF id.player = Null THEN Players ELSE {id.player}])
          ELSE jobs' = [jobs EXCEPT ![id] = "kept"] /\ UNCHANGED <<pc, loc>>
  /\ UNCHANGED <<tables, over, late>>

\* What the engine and the clock say of one player is data; below the
\* threshold nothing is recorded, and an engine that failed leaves the timing.
AnalyzePlayer(s) ==
  LET l == loc[s] IN
  /\ pc[s] = "analyze" /\ l.todo # {}
  /\ \E p \in l.todo, kinds \in Findings :
       LET rest == [l EXCEPT !.todo = @ \ {p}] IN
       Goto(s, IF kinds = {} THEN "analyze" ELSE "record",
            [rest EXCEPT !.player = p, !.signals = {Evidence(k, l.job.game, Null) : k \in kinds}])
  /\ UNCHANGED <<tables, jobs, over, late>>

CompleteJob(s) ==
  /\ pc[s] = "analyze" /\ loc[s].todo = {}
  /\ jobs' = [jobs EXCEPT ![loc[s].job] = "kept"]
  /\ Reply(s)
  /\ UNCHANGED <<tables, over, late>>

\* The queue keeps the last thousand done jobs and five thousand failed ones.
Evict(id) ==
  /\ jobs[id] = "kept"
  /\ jobs' = [jobs EXCEPT ![id] = "none"]
  /\ UNCHANGED <<tables, over, late, pc, loc>>

\* The process dies, or an await throws: a job is tried again, three times in all.
Crash(s) ==
  LET id == loc[s].job IN
  /\ pc[s] # "idle"
  /\ Reply(s)
  /\ IF id = Null THEN UNCHANGED jobs
     ELSE \E next \in {"waiting", "kept"} : jobs' = [jobs EXCEPT ![id] = next]
  /\ UNCHANGED <<tables, over, late>>

-----------------------------------------------------------------------------
(* The commission, and appeals. *)

\* The one writer of a sanction: an update of a case that is still undecided.
DecideCase(by, c) ==
  /\ c \in DOMAIN cases /\ cases[c].status \in Undecided
  /\ \E verdict \in Verdicts :
       cases' = [cases EXCEPT ![c].status = verdict, ![c].reviewedBy = by,
                              ![c].sanction = (verdict = "CLOSED_SANCTION")]
  /\ UNCHANGED <<signals, appeals, jobs, over, late, pc, loc>>

WindowCloses(c) ==
  /\ c \in DOMAIN cases \ late /\ cases[c].reviewedBy # Null
  /\ late' = late \cup {c}
  /\ UNCHANGED <<tables, jobs, over, pc, loc>>

Appealable(c) ==
  /\ cases[c].status \in {"CLOSED_WARNING", "CLOSED_SANCTION"}
  /\ c \notin late
  /\ \A a \in DOMAIN appeals : appeals[a].case = c => appeals[a].status \notin Active

SubmitAppeal(s) ==
  /\ pc[s] = "idle"
  /\ \E c \in DOMAIN cases :
       /\ Appealable(c)
       /\ Goto(s, "appeal", [Blank EXCEPT !.case = c])
  /\ UNCHANGED <<tables, jobs, over, late>>

CreateAppeal(s) ==
  /\ pc[s] = "appeal" /\ Len(appeals) < MaxAppeals
  /\ appeals' = Append(appeals, [case |-> loc[s].case, status |-> "SUBMITTED", reviewedBy |-> Null])
  /\ Reply(s)
  /\ UNCHANGED <<cases, signals, jobs, over, late>>

AnyReviewer(by, a) == TRUE
\* Whoever decided the case does not decide the appeal.
OtherReviewer(by, a) == cases[appeals[a].case].reviewedBy # by

BeginDecideAppeal(s) ==
  /\ pc[s] = "idle"
  /\ \E a \in DOMAIN appeals, by \in Commission :
       /\ OtherReviewer(by, a)
       /\ Goto(s, "decide", [Blank EXCEPT !.case = a, !.by = by])
  /\ UNCHANGED <<tables, jobs, over, late>>

\* An appeal that was decided meanwhile is left as it is.
DecideAppeal(s) ==
  LET a == loc[s].case
      c == appeals[a].case
  IN
  /\ pc[s] = "decide"
  /\ Reply(s)
  /\ IF appeals[a].status \notin Active THEN UNCHANGED tables
     ELSE \E verdict \in {"UPHELD", "REJECTED"} :
            /\ appeals' = [appeals EXCEPT ![a].status = verdict, ![a].reviewedBy = loc[s].by]
            /\ cases' = IF verdict = "REJECTED" THEN cases
                        ELSE [cases EXCEPT ![c].status = "APPEALED", ![c].sanction = FALSE]
            /\ UNCHANGED signals
  /\ UNCHANGED <<jobs, over, late>>

Step(s) ==
  \/ SubmitReport(s) \/ FindCase(s) \/ RecordSignals(s) \/ EnqueueAnalysis(s)
  \/ TakeJob(s) \/ AnalyzePlayer(s) \/ CompleteJob(s) \/ Crash(s)
  \/ SubmitAppeal(s) \/ CreateAppeal(s) \/ BeginDecideAppeal(s) \/ DecideAppeal(s)

Next ==
  \/ \E g \in Games : OnGameFinished(g)
  \/ \E id \in JobIds : Evict(id)
  \/ \E by \in Commission, c \in 1..MaxCases : DecideCase(by, c)
  \/ \E c \in 1..MaxCases : WindowCloses(c)
  \/ \E s \in Slots : Step(s)

Spec == Init /\ [][Next]_vars

-----------------------------------------------------------------------------
(* Properties. *)

TypeOK ==
  /\ \A c \in DOMAIN cases :
       /\ cases[c].player \in Players
       /\ cases[c].status \in {"OPEN", "APPEALED"} \cup Verdicts
       /\ cases[c].reviewedBy \in Commission \cup {Null}
  /\ \A x \in signals : x.case \in DOMAIN cases
  /\ \A a \in DOMAIN appeals : appeals[a].case \in DOMAIN cases
  /\ \A id \in JobIds : jobs[id] = "active" <=> \E s \in Slots : loc[s].job = id

\* Whatever machines record and whoever decides at once: a sanction rests on the
\* decision of a person, every decided appeal was decided by another one, and an
\* appeal upheld is the end of the sanction (decideCase, decideAppeal).
JudgedByPeople ==
  /\ \A c \in DOMAIN cases :
       /\ cases[c].sanction <=> cases[c].status = "CLOSED_SANCTION"
       /\ cases[c].status = "OPEN" <=> cases[c].reviewedBy = Null
       /\ cases[c].status = "APPEALED" <=> \E a \in DOMAIN appeals : appeals[a].case = c /\ appeals[a].status = "UPHELD"
  /\ \A a \in DOMAIN appeals :
       appeals[a].status \notin Active =>
         appeals[a].reviewedBy \notin {Null, cases[appeals[a].case].reviewedBy}

\* With one process at a time: the commission finds what is said of a player in one open
\* case, and the score that orders its queue is that of all of it (recordSignals).
OneCaseTellsAll ==
  /\ \A p \in Players : Cardinality(OpenCases(p)) <= 1
  /\ \A c \in DOMAIN cases : cases[c].counted = SignalsOf(c)

\* One appeal at a time (submitAppeal: a case has one open appeal).  Two that are
\* submitted together are both filed.
OneActiveAppeal ==
  \A a, b \in DOMAIN appeals :
    appeals[a].case = appeals[b].case /\ {appeals[a].status, appeals[b].status} \subseteq Active => a = b

\* What was decided upon is not held against a player again (recordSignals is to be
\* idempotent).  A job that is repeated after the decision opens a second case on it.
AccusedOnce ==
  \A x, y \in signals :
    Of(x) = Of(y) /\ x.reporter = Null /\ cases[x.case].player = cases[y.case].player => x.case = y.case
=============================================================================
