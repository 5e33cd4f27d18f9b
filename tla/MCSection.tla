----------------------------- MODULE MCSection -----------------------------
(***************************************************************************)
(* Instances for TLC of a section and of the engine that pairs it. They    *)
(* share no state, so one run checks them all: the initial state picks the *)
(* scene. At the "desk" one request of a round-robin section runs at a     *)
(* time and may die; at the "desks" an arbiter does anything beside one    *)
(* who opens and closes rounds, with drawn games and nobody dying; "swiss" *)
(* plays Swiss sections, and "matching" runs the algorithm under them; at  *)
(* the "office" a tournament is set up by one request at a time, at the    *)
(* "offices" by two; "console" is the page an arbiter runs his rounds on,  *)
(* waiting for each answer, "consoles" one on which he does not wait. The  *)
(* variables of the other scenes are Null, those of TournamentSection      *)
(* stand still.                                                            *)
(***************************************************************************)
EXTENDS TournamentSection, TLC

CONSTANTS desk1, desk2, Null

VARIABLES scene, field, played, left, brackets, state, graph, forest, step, stage, at, todo,
          row, names, members, clerk, form, edits, imports, reports, opened, closed,
          paired, open, listed, active, lock, busy, calls, losses, elsewhere, had, pressed, orderly, upset

\* One slot runs anything, the other what an arbiter does to the rounds.
TwoArbiters == [r \in Requests |-> IF r = desk1 THEN Kinds ELSE {"generate", "complete"}]

\* Both slots run anything.
Anything == [r \in Requests |-> Kinds]

Drawn(l) == l.result \in {"UNPLAYED", "DRAW"}

-----------------------------------------------------------------------------
(* Swiss sections: withdrawals and forfeits; byes and every result; rounds that cannot *)
(* be paired; colours that cannot be given.                                            *)

\* What breaks a tie in the section of n players.
Orders == [n \in 4..8 |->
  CASE n = 5 -> <<"DIRECT_ENCOUNTER", "BLACK_GAMES", "KOYA">>
    [] n = 6 -> <<"DIRECT_ENCOUNTER", "MEDIAN_BUCHHOLZ", "CUMULATIVE", "ARO">>
    [] OTHER -> <<>>]

Played(n, total, results, leavers) ==
  [players |-> n, rounds |-> total, results |-> results, byes |-> {"BYE_FULL"}, leavers |-> leavers,
   ratings |-> [p \in 1..n |-> 2 * n - p], order |-> Orders[n]]

Sections ==
  { Played(4, 3, {"WHITE_WIN", "DRAW", "BLACK_WIN_FORFEIT"}, 1),
    Played(5, 4, {"WHITE_WIN", "BLACK_WIN", "DRAW"}, 0),
    Played(6, 5, {"WHITE_WIN", "BLACK_WIN"}, 0),
    Played(7, 4, {"WHITE_WIN", "DRAW"}, 0),
    Played(8, 4, {"WHITE_WIN", "DRAW"}, 0) }

Swiss == INSTANCE TieBreaks WITH Fields <- Sections, rounds <- played, withdrawn <- left

swiss == <<field, played, left, brackets, state>>

\* The last round of the larger sections is paired and not played.
Enough == field.players > 6 /\ Len(played) = field.rounds

-----------------------------------------------------------------------------
(* Graphs: what four vertices can be with two weights; and graphs in which blossoms *)
(* grow, become T, are nested, and are expanded in mid-stage.                       *)

Weighted(n, list) == [n |-> n, edges |-> [i \in DOMAIN list |-> [ends |-> <<list[i][1], list[i][2]>>, w |-> list[i][3]]]]

OnFour ==
  LET pairs == << <<1, 2>>, <<1, 3>>, <<1, 4>>, <<2, 3>>, <<2, 4>>, <<3, 4>> >>
      given(w) == [i \in 1..6 |-> pairs[i] \o <<w[i]>>]
  IN {Weighted(4, SelectSeq(given(w), LAMBDA e : e[3] > 0)) :
        w \in [1..6 -> 0..2]}

Nests ==
  { Weighted(5, << <<1,2,12>>, <<1,3,12>>, <<2,3,20>>, <<2,4,19>>, <<4,5,20>> >>),
    Weighted(6, << <<1,2,8>>, <<2,3,9>>, <<3,4,8>>, <<4,5,9>>, <<5,1,8>>, <<5,6,6>> >>),
    Weighted(6, << <<1,2,9>>, <<1,3,9>>, <<2,3,10>>, <<2,4,8>>, <<3,5,8>>, <<4,5,10>>, <<5,6,6>> >>),
    Weighted(8, << <<1,2,10>>, <<1,7,10>>, <<2,3,12>>, <<3,4,20>>, <<3,5,20>>, <<4,5,25>>, <<5,6,10>>,
                   <<6,7,10>>, <<7,8,8>> >>),
    Weighted(8, << <<1,2,23>>, <<1,5,22>>, <<1,6,15>>, <<2,3,25>>, <<3,4,22>>, <<4,5,25>>, <<4,8,14>>,
                   <<5,7,13>> >>),
    Weighted(10, << <<1,2,45>>, <<1,5,45>>, <<2,3,50>>, <<3,4,45>>, <<4,5,50>>, <<1,6,30>>, <<3,9,35>>,
                    <<4,8,28>>, <<5,7,26>>, <<9,10,5>> >>),
    Weighted(12, << <<1,2,45>>, <<1,7,45>>, <<2,3,50>>, <<3,4,45>>, <<4,5,95>>, <<4,6,94>>, <<5,6,94>>,
                    <<6,7,50>>, <<1,8,30>>, <<3,11,35>>, <<5,9,36>>, <<7,10,26>>, <<11,12,5>> >>),
    Weighted(10, << <<1,2,40>>, <<1,3,40>>, <<2,3,60>>, <<2,4,55>>, <<3,5,55>>, <<4,5,50>>, <<1,8,15>>,
                    <<5,7,30>>, <<7,6,10>>, <<8,10,10>>, <<4,9,30>> >>) }

Matching == INSTANCE Blossom WITH Inputs <- OnFour \cup Nests, pc <- step

matching == <<graph, forest, step, stage, at, todo>>

-----------------------------------------------------------------------------
Tables == {<<1, 2>>, <<2, 3>>}

Office == INSTANCE TournamentOffice WITH
  Players <- 1..3, Names <- {"A", "B"}, Capacity <- 2, Lists <- Tables, Days <- {0, 1}, MaxEdits <- 4,
  MaxImports <- 2, tournament <- row, sections <- names, entries <- members, pc <- clerk, loc <- form

office == <<row, names, members, clerk, form, edits, imports, reports, opened, closed>>

\* Two requests at once: the tournament is free, is opened and perhaps closed.
Small ==
  /\ edits' <= 2 /\ imports' <= 2 /\ names' \subseteq {"A"}
  /\ row'.status # "NONE" => Office!Terms(row') = [start |-> 0, end |-> 0, fee |-> FALSE]

-----------------------------------------------------------------------------
Desk == INSTANCE RoundDesk WITH
  Calls <- Requests, Boards <- 1..2, Results <- GameResults, MaxRounds <- 2, MaxLosses <- 1,
  MaxElsewhere <- 1, rounds <- paired

console == <<paired, open, listed, active, lock, busy, calls, losses, elsewhere, had, pressed, orderly, upset>>

InTurn == calls'[desk2] = Desk!Free /\ losses' + elsewhere' <= 1
Unhindered == losses' + elsewhere' = 0

-----------------------------------------------------------------------------
NoSwiss == field = Null /\ played = Null /\ left = Null /\ brackets = Null /\ state = Null
NoMatching == graph = Null /\ forest = Null /\ step = Null /\ stage = Null /\ at = Null /\ todo = Null
NoOffice ==
  /\ row = Null /\ names = Null /\ members = Null /\ clerk = Null /\ form = Null
  /\ edits = Null /\ imports = Null /\ reports = Null /\ opened = Null /\ closed = Null

NoConsole ==
  /\ paired = Null /\ open = Null /\ listed = Null /\ active = Null /\ lock = Null /\ busy = Null
  /\ calls = Null /\ losses = Null /\ elsewhere = Null /\ had = Null /\ pressed = Null
  /\ orderly = Null /\ upset = Null

MCInit ==
  /\ Init
  /\ \/ scene \in {"desk", "desks"} /\ NoSwiss /\ NoMatching /\ NoOffice /\ NoConsole
     \/ scene = "swiss" /\ Swiss!Init /\ NoMatching /\ NoOffice /\ NoConsole
     \/ scene = "matching" /\ Matching!Init /\ NoSwiss /\ NoOffice /\ NoConsole
     \/ scene \in {"office", "offices"} /\ Office!Init /\ NoSwiss /\ NoMatching /\ NoConsole
     \/ scene \in {"console", "consoles"} /\ Desk!Init /\ NoSwiss /\ NoMatching /\ NoOffice

MCNext ==
  /\ UNCHANGED scene
  /\ \/ /\ scene = "desk" /\ Next /\ pc'[desk2] = "idle"
        /\ UNCHANGED <<swiss, matching, office, console>>
     \/ /\ scene = "desks" /\ Next /\ crashes' = 0 /\ Drawn(loc'[desk1])
        /\ UNCHANGED <<swiss, matching, office, console>>
     \/ scene = "swiss" /\ ~Enough /\ Swiss!Next /\ UNCHANGED <<vars, matching, office, console>>
     \/ scene = "matching" /\ Matching!Next /\ UNCHANGED <<vars, swiss, office, console>>
     \/ scene = "office" /\ Office!Next /\ clerk'[desk2] = "idle" /\ UNCHANGED <<vars, swiss, matching, console>>
     \/ scene = "offices" /\ Office!Next /\ Small /\ UNCHANGED <<vars, swiss, matching, console>>
     \/ scene = "console" /\ Desk!Next /\ InTurn /\ UNCHANGED <<vars, swiss, matching, office>>
     \/ scene = "consoles" /\ Desk!Next /\ Unhindered /\ Len(paired') = 1
        /\ UNCHANGED <<vars, swiss, matching, office>>

everything == <<vars, scene, swiss, matching, office, console>>

MCSpec == MCInit /\ [][MCNext]_everything

\* Every request beside every other, at the desks, the offices or the page.
AloneNext ==
  \/ scene = "desks" /\ Next /\ UNCHANGED <<office, console>>
  \/ scene = "offices" /\ Office!Next /\ edits' <= 3 /\ imports' <= 2 /\ UNCHANGED <<vars, console>>
  \/ scene = "consoles" /\ Desk!Next /\ UNCHANGED <<vars, office>>
AloneSpec ==
  /\ MCInit /\ scene \in {"desks", "offices", "consoles"}
  /\ [][AloneNext /\ UNCHANGED <<scene, swiss, matching>>]_everything

\* The Swiss engine and nothing else.
EngineSpec == MCInit /\ scene \in {"swiss", "matching"} /\ [][MCNext]_everything

-----------------------------------------------------------------------------
(* What is said of one desk holds for one request at a time. *)

DeskIsSound == scene = "desk" => TypeOK /\ StandingsMatchResults /\ TablesAreFair /\ NoRematch
SeatsHold == NumbersStay /\ [][scene = "desk" => EveryoneSits]_vars

SwissIsTheBest ==
  scene = "swiss" => Swiss!RoundsAreLegal /\ Swiss!GivesUpOnlyWhenImpossible /\ Swiss!PairingIsTheBest
TableIsSound == scene = "swiss" /\ field.players <= 6 => Swiss!TableIsSound(field.order)
MatchingIsBest == scene = "matching" => Matching!MatchingIsBest
OfficeKeepsItsWord ==
  /\ scene \in {"office", "offices"} => Office!TypeOK /\ Office!ReportIsTrue
  /\ scene = "office" => Office!StructureStands /\ Office!PlacesSuffice

ConsoleIsTrue ==
  scene \in {"console", "consoles"} =>
    /\ Desk!TypeOK /\ Desk!ShownWasWritten /\ Desk!FirstPressCounts
    /\ Desk!PageSettles /\ Desk!QuietPageIsCurrent

\* Not so: SectionDivergences.
PageIsCurrent == scene = "consoles" => Desk!PageIsCurrent
CursorWaits == [][scene = "consoles" => Desk!CursorWaits]_everything
CancelledIsFinal == [][scene = "offices" => Office!IsFinal]_everything
ListsAreFinished == [][scene = "offices" => Office!ListEndsTold]_everything
NobodyOwesNothing == scene = "offices" => Office!NobodyOwesNothing

\* Not so: SectionDivergences, under EngineSpec.
ByeGoesLow == scene = "swiss" => Swiss!ByeGoesLow
MatchingIsLargest == scene = "matching" => Matching!MatchingIsLargest
=============================================================================
