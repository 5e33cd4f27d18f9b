-------------------------- MODULE TournamentOffice --------------------------
(***************************************************************************)
(* A tournament before its first round (modules/tournament): it is created *)
(* and edited, gets its sections, its status changes, and players are      *)
(* entered, one by himself or a whole list by an arbiter.                  *)
(*                                                                         *)
(* A request reads in one step and writes in another; nothing it has read  *)
(* is looked at again, and of the database only the unique indexes speak   *)
(* then.  Who may send it is decided in Access; what a section does with   *)
(* its players afterwards is in TournamentSection.                         *)
(***************************************************************************)
EXTENDS Integers, FiniteSets, Sequences

CONSTANTS
  Requests,   \* slots for requests in flight
  Players,
  Names,      \* of sections
  Capacity,   \* section.maxPlayers
  Lists,      \* the lists of players an arbiter imports
  Days,       \* dates
  MaxEdits,   \* bound: changes of the tournament and of its status
  MaxImports  \* bound: imported lists and single entries

VARIABLES
  tournament,  \* the row, once it is there
  sections,    \* the names of its sections
  entries,     \* the Registration of a player in a section
  pc, loc,     \* the await each request is stopped at, its local variables
  edits, imports,
  reports,     \* what the arbiters were told of their lists
  opened,      \* history: the sections when the tournament left DRAFT
  closed       \* history: its dates and fee when registration closed

tables == <<tournament, sections, entries>>
history == <<edits, imports, reports, opened, closed>>
vars == <<tables, pc, loc, history>>

Nothing == [status |-> "NONE"]
Terms(t) == [start |-> t.start, end |-> t.end, fee |-> t.fee]

Successors ==
  [DRAFT |-> {"REGISTRATION_OPEN", "CANCELLED"},
   REGISTRATION_OPEN |-> {"REGISTRATION_CLOSED", "CANCELLED"},
   REGISTRATION_CLOSED |-> {"IN_PROGRESS", "CANCELLED"},
   IN_PROGRESS |-> {"COMPLETED", "CANCELLED"},
   COMPLETED |-> {}, CANCELLED |-> {}]

Blank == [seen |-> Nothing, change |-> Nothing, to |-> "NONE", section |-> "", rest |-> <<>>,
          list |-> <<>>, entered |-> {}, failed |-> {}, many |-> FALSE]

Goto(r, label, l) ==
  /\ pc' = [pc EXCEPT ![r] = label]
  /\ loc' = [loc EXCEPT ![r] = l]

\* The request replied, was rejected, or threw.
Reply(r) == Goto(r, "idle", Blank)

Begin(r, label, l) == pc[r] = "idle" /\ Goto(r, label, [l EXCEPT !.seen = tournament])

Init ==
  /\ tournament = Nothing /\ sections = {} /\ entries = <<>>
  /\ pc = [r \in Requests |-> "idle"]
  /\ loc = [r \in Requests |-> Blank]
  /\ edits = 0 /\ imports = 0 /\ reports = {} /\ opened = {} /\ closed = Nothing

-----------------------------------------------------------------------------
(* create *)

Drafts == {[status |-> "DRAFT", start |-> s, end |-> e, fee |-> f] : s \in Days, e \in Days, f \in BOOLEAN}

\* The dates are in order, and no tournament has the slug.
BeginCreate(r) ==
  /\ tournament = Nothing
  /\ \E draft \in Drafts :
       draft.end >= draft.start /\ Begin(r, "create", [Blank EXCEPT !.change = draft])
  /\ UNCHANGED <<tables, history>>

\* slug is unique.
Create(r) ==
  /\ pc[r] = "create"
  /\ tournament' = IF tournament = Nothing THEN loc[r].change ELSE tournament
  /\ Reply(r)
  /\ UNCHANGED <<sections, entries, history>>

-----------------------------------------------------------------------------
(* update *)

\* A field that is not given keeps its value.
Changes ==
  {[start |-> s] : s \in Days} \cup {[end |-> e] : e \in Days} \cup {[fee |-> f] : f \in BOOLEAN}
    \cup {[start |-> s, end |-> s] : s \in Days}
With(t, change) == [f \in DOMAIN t |-> IF f \in DOMAIN change THEN change[f] ELSE t[f]]

BeforePlay(status) == status \in {"DRAFT", "REGISTRATION_OPEN", "REGISTRATION_CLOSED"}
Editable(status) == status \in {"DRAFT", "REGISTRATION_OPEN"}

BeginUpdate(r) ==
  /\ edits < MaxEdits /\ Editable(tournament.status)
  /\ \E change \in Changes :
       LET then == With(tournament, change) IN
       then.end >= then.start /\ then # tournament /\ Begin(r, "update", [Blank EXCEPT !.change = change])
  /\ edits' = edits + 1
  /\ UNCHANGED <<tables, imports, reports, opened, closed>>

Update(r) ==
  /\ pc[r] = "update"
  /\ tournament' = With(tournament, loc[r].change)
  /\ Reply(r)
  /\ UNCHANGED <<sections, entries, history>>

-----------------------------------------------------------------------------
(* changeStatus *)

BeginStatus(r) ==
  /\ edits < MaxEdits /\ tournament # Nothing
  /\ \E to \in Successors[tournament.status] : Begin(r, "status", [Blank EXCEPT !.to = to])
  /\ edits' = edits + 1
  /\ UNCHANGED <<tables, imports, reports, opened, closed>>

ChangeStatus(r) ==
  /\ pc[r] = "status"
  /\ tournament' = [tournament EXCEPT !.status = loc[r].to]
  /\ opened' = IF loc[r].seen.status = "DRAFT" THEN sections ELSE opened
  /\ closed' = IF loc[r].to = "REGISTRATION_CLOSED" THEN Terms(tournament) ELSE closed
  /\ Reply(r)
  /\ UNCHANGED <<sections, entries, edits, imports, reports>>

-----------------------------------------------------------------------------
(* createSection *)

BeginSection(r) ==
  /\ tournament.status = "DRAFT"
  /\ \E name \in Names \ sections : Begin(r, "section", [Blank EXCEPT !.section = name])
  /\ UNCHANGED <<tables, history>>

\* (tournamentId, name) is unique.
CreateSection(r) ==
  /\ pc[r] = "section"
  /\ sections' = sections \cup {loc[r].section}
  /\ Reply(r)
  /\ UNCHANGED <<tournament, entries, history>>

-----------------------------------------------------------------------------
(* register, and registerMany, which calls it for one player after the other *)

Entered(section) == {p \in Players : <<section, p>> \in DOMAIN entries}

BeginRegister(r) ==
  /\ imports < MaxImports
  /\ \E name \in sections, p \in Players :
       pc[r] = "idle" /\ Goto(r, "look", [Blank EXCEPT !.section = name, !.rest = <<p>>])
  /\ imports' = imports + 1
  /\ UNCHANGED <<tables, edits, reports, opened, closed>>

\* A name that is on the list twice is tried once.
BeginMany(r) ==
  /\ imports < MaxImports
  /\ \E name \in sections, list \in Lists :
       /\ pc[r] = "idle"
       /\ Goto(r, "look", [Blank EXCEPT !.section = name, !.rest = list, !.list = list, !.many = TRUE])
  /\ imports' = imports + 1
  /\ UNCHANGED <<tables, edits, reports, opened, closed>>

\* One player is done with; after the last one the arbiter gets his report.
Next1(r, entered, failed) ==
  LET l == [loc[r] EXCEPT !.rest = Tail(@), !.entered = @ \cup entered, !.failed = @ \cup failed] IN
  IF l.rest # <<>> THEN Goto(r, "look", l) /\ UNCHANGED reports
  ELSE /\ Reply(r)
       /\ reports' = IF l.many
                     THEN reports \cup {[section |-> l.section, list |-> l.list, entered |-> l.entered, failed |-> l.failed]}
                     ELSE reports

Current(r) == Head(loc[r].rest)

Full(section) == Cardinality(Entered(section)) >= Capacity

\* The tournament is open, the player is not entered, and there is a place left.
Look(r) ==
  /\ pc[r] = "look"
  /\ IF tournament.status = "REGISTRATION_OPEN" /\ Current(r) \notin Entered(loc[r].section) /\ ~Full(loc[r].section)
     THEN Goto(r, "enter", [loc[r] EXCEPT !.seen = tournament]) /\ UNCHANGED reports
     ELSE Next1(r, {}, {Current(r)})
  /\ UNCHANGED <<tables, edits, imports, opened, closed>>

\* (sectionId, playerId) is unique; the database's refusal is no DomainError and ends a list.
Enter(r) ==
  LET key == <<loc[r].section, Current(r)>> IN
  /\ pc[r] = "enter"
  /\ IF key \in DOMAIN entries
     THEN Reply(r) /\ UNCHANGED <<entries, reports>>
     ELSE /\ entries' = [k \in DOMAIN entries \cup {key} |->
                           IF k = key THEN [confirmed |-> ~loc[r].seen.fee] ELSE entries[k]]
          /\ Next1(r, {Current(r)}, {})
  /\ UNCHANGED <<tournament, sections, edits, imports, opened, closed>>

-----------------------------------------------------------------------------

Step(r) ==
  \/ BeginCreate(r) \/ Create(r) \/ BeginUpdate(r) \/ Update(r) \/ BeginStatus(r) \/ ChangeStatus(r)
  \/ BeginSection(r) \/ CreateSection(r)
  \/ BeginRegister(r) \/ BeginMany(r) \/ Look(r) \/ Enter(r)

Next == \E r \in Requests : Step(r)

Spec == Init /\ [][Next]_vars

-----------------------------------------------------------------------------
(* Properties. *)

TypeOK ==
  /\ sections \subseteq Names
  /\ \A key \in DOMAIN entries : key[1] \in sections /\ key[2] \in Players
  /\ tournament = Nothing => entries = <<>> /\ sections = {}

\* One request at a time: once registration has begun no section is added, once it has
\* closed neither the dates nor the fee change, and the dates are in order all along
\* (createSection, update).
Started(status) == status \notin {"NONE", "DRAFT"}
StructureStands ==
  /\ Started(tournament.status) => sections = opened
  /\ closed # Nothing => Terms(tournament) = closed
  /\ tournament # Nothing => tournament.end >= tournament.start

\* The arbiter is told of everybody on his list, and whoever he is told to have entered is
\* there (registerMany).
ReportIsTrue ==
  \A report \in reports :
    /\ report.entered \cup report.failed = {report.list[n] : n \in DOMAIN report.list}
    /\ report.entered \cap report.failed = {}
    /\ report.entered \subseteq Entered(report.section)

\* One request at a time, whole lists among them: no section is overfull ("sequentially, not
\* in parallel", registerMany).
PlacesSuffice == \A name \in sections : Cardinality(Entered(name)) <= Capacity

\* None of these holds, SectionDivergences: two requests at once leave a cancelled tournament
\* open, and end a list because one of its players has just entered himself; and where the
\* fee is dropped later, players who have none to pay wait for their confirmation.
IsFinal == tournament.status = "CANCELLED" => tournament'.status = "CANCELLED"
CancelledIsFinal == [][IsFinal]_vars
ListEndsTold == \A r \in Requests : loc[r].many /\ ~loc'[r].many => reports' # reports
ListsAreFinished == [][ListEndsTold]_vars
NobodyOwesNothing ==
  \A key \in DOMAIN entries : ~entries[key].confirmed => tournament.fee
=============================================================================
