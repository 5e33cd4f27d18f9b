------------------------------ MODULE MCAround ------------------------------
(***************************************************************************)
(* Instances for TLC of what is around a game: its clock, who is at the    *)
(* board, what the page shows, the rating periods it counts in, the cases  *)
(* it is examined in and the engine that does so.  They share no state, so *)
(* one run checks them all: the initial state picks the component that     *)
(* moves, `focus`, and the variables of the others are Null (those of the  *)
(* clock stand still).                                                     *)
(***************************************************************************)
EXTENDS ClockRun, Sequences, FiniteSets, TLC

CONSTANTS
  Desks, Null,  \* slots for requests, handlers and processes
  ann, ben, cem, g1, g2, \* the pool that is rated
  Examined, Suspects, Reporters, Commission, Findings, MaxCases, MaxAppeals,
  Sockets, SideOf, node, MaxCrashes,
  MaxPlies, MaxJoins, MaxTicks,
  Positions, Mated,
  Users, me, accused, PageSize, MaxEvents, MaxChanges, MaxFaults

VARIABLES
  focus, both,
  environment, games, periods, ratings, history, locks, announced, commits, overlapped, disordered,
  cases, signals, appeals, jobs, finished, late,
  socket, here, joined, graces, timers, presence, gone, active, moved, verdict, crashes,
  plies, ended, offer, link, inbox, board, connection, ticks,
  chain, current, handler, child, procs, evals, disposed, worker, overtaken,
  seated, admins, verified, events, notes, created, mails, walk, marking, changes, faults,
  smooth, pc, loc

AllTypes == [type : ClockTypes, base : {2}, inc : {0, 1, 2}]

AnyOrNone == {{}, {"ENGINE_CORRELATION"}}
ThreeSockets == {"w1", "w2", "b1"}
TwoOfWhite == ("w1" :> "w") @@ ("w2" :> "w") @@ ("b1" :> "b")
Alike == Permutations(Desks) \cup Permutations(Commission)

ASSUME CasesAssumption ==
  /\ Null \notin Examined \cup Suspects \cup Reporters \cup Commission \cup UNION Findings
  /\ Null \notin [game : Examined, player : Suspects \cup {Null}]
ASSUME SocketsAssumption ==
  Null \notin Sockets \cup {node} /\ SideOf \in [Sockets -> {"w", "b"}]
ASSUME BoardAssumption == MaxPlies \in Nat /\ Null \notin {"w", "b"}
ASSUME EngineAssumption == Positions \in Nat
ASSUME NoticesAssumption ==
  IsFiniteSet(Users) /\ me \in Users /\ Null \notin Nat /\ PageSize \in Nat \ {0}

Rating == INSTANCE RatingPeriods WITH
  Requests <- Desks, Players <- {ann, ben, cem}, Games <- {g1, g2},
  SeatsOf <- (g1 :> [white |-> ann, black |-> ben]) @@ (g2 :> [white |-> cem, black |-> ann]),
  PlayedAt <- (g1 :> 0) @@ (g2 :> 1),
  Windows <- {[from |-> 0, to |-> 1], [from |-> 1, to |-> 2], [from |-> 0, to |-> 2]},
  MinGames <- 1, MaxPeriods <- 2, MaxCommits <- 3
FairPlay == INSTANCE FairPlayCases WITH
  Games <- Examined, Players <- Suspects, Slots <- Desks, over <- finished
Presence == INSTANCE PlayPresence WITH
  Nodes <- {node}, Tasks <- Desks
Page == INSTANCE LiveBoard WITH
  Tasks <- Desks, over <- ended
Engine == INSTANCE UciEngine
Notice == INSTANCE Notices WITH Tasks <- Desks

clock == vars
rating == <<environment, games, periods, ratings, history, locks, announced, commits, overlapped, disordered>>
fairPlay == <<cases, signals, appeals, jobs, finished, late>>
atBoard == <<socket, here, joined, graces, timers, presence, gone, active, moved, verdict, crashes>>
onPage == <<plies, ended, offer, link, inbox, board, connection, ticks>>
engine == <<chain, current, handler, child, procs, evals, disposed, worker, overtaken>>
notices == <<seated, admins, verified, events, notes, created, mails, walk, marking, changes, faults>>

ClockStands == Init /\ cfg = [type |-> "SUDDEN_DEATH", base |-> 2, inc |-> 0]
NoRating ==
  /\ environment = Null /\ games = Null /\ periods = Null /\ ratings = Null /\ history = Null
  /\ locks = Null /\ announced = Null /\ commits = Null /\ overlapped = Null /\ disordered = Null
NoFairPlay ==
  cases = Null /\ signals = Null /\ appeals = Null /\ jobs = Null /\ finished = Null /\ late = Null
NoPresence ==
  /\ socket = Null /\ here = Null /\ joined = Null /\ graces = Null /\ timers = Null /\ presence = Null
  /\ gone = Null /\ active = Null /\ moved = Null /\ verdict = Null /\ crashes = Null
NoPage ==
  /\ plies = Null /\ ended = Null /\ offer = Null /\ link = Null /\ inbox = Null /\ board = Null
  /\ connection = Null /\ ticks = Null
NoEngine ==
  /\ chain = Null /\ current = Null /\ handler = Null /\ child = Null /\ procs = Null /\ evals = Null
  /\ disposed = Null /\ worker = Null /\ overtaken = Null
NoNotices ==
  /\ seated = Null /\ admins = Null /\ verified = Null /\ events = Null /\ notes = Null /\ created = Null
  /\ mails = Null /\ walk = Null /\ marking = Null /\ changes = Null /\ faults = Null

Alone(d) == \A e \in Desks \ {d} : pc[e] = "idle"

\* `both`: two requests, handlers or processes at once, instead of one.
GameInit ==
  \/ /\ focus = "clock" /\ both = FALSE /\ Init
     /\ NoRating /\ NoFairPlay /\ NoPresence /\ NoPage /\ smooth = Null /\ pc = Null /\ loc = Null
  \/ /\ focus = "rating" /\ both \in BOOLEAN /\ Rating!Init
     /\ ClockStands /\ NoFairPlay /\ NoPresence /\ NoPage /\ smooth = Null
  \/ /\ focus = "fair play" /\ both \in BOOLEAN /\ FairPlay!Init
     /\ ClockStands /\ NoRating /\ NoPresence /\ NoPage /\ smooth = Null
  \/ /\ focus = "presence" /\ both \in BOOLEAN /\ Presence!Init
     /\ ClockStands /\ NoRating /\ NoFairPlay /\ NoPage
  \/ /\ focus = "page" /\ both \in BOOLEAN /\ Page!Init
     /\ ClockStands /\ NoRating /\ NoFairPlay /\ NoPresence

NoGame == ClockStands /\ NoRating /\ NoFairPlay /\ NoPresence /\ NoPage /\ smooth = Null

MCInit ==
  \/ GameInit /\ NoEngine /\ NoNotices
  \/ /\ focus = "engine" /\ both = FALSE /\ Engine!Init
     /\ NoGame /\ NoNotices /\ pc = Null /\ loc = Null
  \/ /\ focus = "notices" /\ both \in BOOLEAN /\ Notice!Init
     /\ seated = Users /\ admins = {me} /\ verified = {me}
     /\ NoGame /\ NoEngine

\* Two requests at once: one of the games, and no computation begun after two.
RatingNext ==
  \/ \E d \in Desks : Rating!Step(d) /\ (~both => Alone(d)) /\ (both /\ commits >= 2 => pc'[d] # "games")
  \/ \E g \in {g1, g2} : Rating!EndGame(g) /\ (both => g = g1)
  \/ \E g \in {g1, g2} : Rating!CancelTournament(g) /\ ~both

\* Two processes at once: one case.
FairPlayNext ==
  \/ \E g \in Examined : FairPlay!OnGameFinished(g)
  \/ \E id \in FairPlay!JobIds : FairPlay!Evict(id)
  \/ \E by \in Commission, n \in 1..MaxCases : FairPlay!DecideCase(by, n)
  \/ \E n \in 1..MaxCases : FairPlay!WindowCloses(n)
  \/ \E d \in Desks : FairPlay!Step(d) /\ (~both => Alone(d)) /\ (both => Len(cases') <= 1)

\* Two handlers at once: the sockets of one player, and no death.
PresenceNext ==
  \/ \E d \in Desks : Presence!Step(d) /\ (~both => Alone(d)) /\ (both => \A x \in Sockets : SideOf[x] = "b" => socket'[x].state = "new")
  \/ \E d \in Desks : Presence!EndGame(d, node) /\ (~both => Alone(d))
  \/ \E s \in Presence!Sides : Presence!GraceElapses(s)
  \/ Presence!OnMove(node) \/ Presence!OnFlagTimer(node) \/ Presence!OnClockTick(node)
  \/ ~both /\ Presence!Crash(node)

\* Two handlers at once: one socket, one move, no tick.  An offer over another is made when
\* the page has received everything.
PageNext ==
  /\ \/ \E d \in Desks : Page!Step(d) /\ (~both => Alone(d))
     \/ \E d \in Desks, side \in Page!Sides :
          Page!BeginOffer(d, side) /\ (~both => Alone(d)) /\ (offer # Null => inbox = <<>>)
     \/ Page!Disconnect \/ Page!ConnectError \/ Page!OnClockTick \/ Page!Receive
  /\ both => link'.number <= 1 /\ plies' <= 1 /\ ticks' = 0

GameNext ==
  /\ UNCHANGED <<focus, both, engine, notices>>
  /\ \/ focus = "clock" /\ Next /\ UNCHANGED <<rating, fairPlay, atBoard, onPage, smooth, pc, loc>>
     \/ /\ focus = "rating" /\ RatingNext
        /\ UNCHANGED <<clock, fairPlay, atBoard, onPage, smooth>>
     \/ /\ focus = "fair play" /\ FairPlayNext
        /\ UNCHANGED <<clock, rating, atBoard, onPage, smooth>>
     \/ /\ focus = "presence" /\ PresenceNext
        /\ UNCHANGED <<clock, rating, fairPlay, onPage>>
     \/ focus = "page" /\ PageNext /\ UNCHANGED <<clock, rating, fairPlay, atBoard>>

EngineNext ==
  /\ focus = "engine" /\ Engine!Next
  /\ UNCHANGED <<focus, both, clock, rating, fairPlay, atBoard, onPage, notices, smooth, pc, loc>>

\* The end of a game and another event, two listeners and nobody reading; or three payments,
\* told by one without a fault, and a reader.
NoticesNext ==
  /\ focus = "notices" /\ Notice!Next
  /\ IF both THEN walk' = Null /\ \A i \in DOMAIN events' : i <= 2 /\ (events'[i].kind = "game" <=> i = 2)
     ELSE /\ \A d, e \in Desks : pc'[d] # "idle" /\ pc'[e] # "idle" => d = e
          /\ faults' = 0 /\ changes' = 0
          /\ \A i \in DOMAIN events' : events'[i].kind = "payment"
  /\ UNCHANGED <<focus, both, clock, rating, fairPlay, atBoard, onPage, engine, smooth>>

MCNext == GameNext \/ EngineNext \/ NoticesNext

MCSpec ==
  MCInit
  /\ [][MCNext]_<<clock, focus, both, rating, fairPlay, atBoard, onPage, engine, notices, smooth, pc, loc>>

-----------------------------------------------------------------------------
(* The properties of the components; those of ClockRun keep their names. *)

RatingIsExplained ==
  focus = "rating" =>
    /\ Rating!TypeOK /\ Rating!RatingIsExplained
    /\ Rating!RatingsCoverPeriods /\ Rating!GamesCountOnce

CasesAreJudged ==
  focus = "fair play" =>
    /\ FairPlay!TypeOK /\ FairPlay!JudgedByPeople
    /\ ~both => FairPlay!OneCaseTellsAll

PresenceIsTold ==
  focus = "presence" =>
    Presence!TypeOK /\ Presence!MarkersAgree /\ Presence!AbandonedWasAway

BoardFollows == focus = "page" => Page!TypeOK /\ Page!BoardFollows

NoticesAreTold ==
  focus = "notices" =>
    /\ Notice!TypeOK /\ Notice!ToldOnce /\ Notice!ToldWhoItConcerns /\ Notice!LettersAreRight
    /\ Notice!PagesAreWhole

AnswersAreTrue == focus = "engine" => Engine!TypeOK /\ Engine!AnswerIsOfPosition /\ Engine!NoZombie

-----------------------------------------------------------------------------
(* What does not hold: PresenceReload, BoardClock and AroundDivergences. *)

ClockIsAClock == focus = "page" => Page!ClockIsAClock

ToldOnceEver == focus = "notices" => Notice!ToldOnceEver
FailedWasNotSent == focus = "notices" => Notice!FailedWasNotSent
AccusedIsNotTold == focus = "notices" => Notice!AccusedIsNotTold
ReadOnce == focus = "notices" => Notice!ReadOnce
AnswersAreOwn == focus = "engine" => Engine!AnswersAreOwn
WorkerSurvives == focus = "engine" => Engine!WorkerSurvives
BoardIsCurrent == focus = "page" => Page!BoardIsCurrent
NoGhost == focus = "presence" => Presence!NoGhost
NoPeriodTwice == focus = "rating" => Rating!NoPeriodTwice
PeriodsDisjoint == focus = "rating" => Rating!PeriodsDisjoint
NoPeriodLost == focus = "rating" => Rating!NoPeriodLost
EstablishedStays ==
  [][focus = "rating" => \A p \in DOMAIN ratings : ~ratings[p].provisional => ~ratings'[p].provisional]_ratings
AccusedOnce == focus = "fair play" => FairPlay!AccusedOnce
OneCaseTellsAll == focus = "fair play" => FairPlay!OneCaseTellsAll
=============================================================================
