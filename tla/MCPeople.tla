------------------------------ MODULE MCPeople ------------------------------
(***************************************************************************)
(* Instances for TLC of what is about a person: payments, sessions, roles, *)
(* logins, friends, and three pages of the browser.  They share no state,  *)
(* so one run checks them all: the initial state picks the component that  *)
(* moves, `focus`, and the variables of the others are Null (those of      *)
(* Billing stand still).                                                   *)
(***************************************************************************)
EXTENDS Billing, TLC

CONSTANTS r1, r2, k1, k2, a, b, ip, AppCodes, Unknown, Gone, Unread,
  Accounts, LimitOf, Window, MaxTime, MaxLogins, \* LoginLimits
  MaxRows, MaxLosses, MaxRenewals                \* Friendship and the pages

ASSUME LoginAssumption ==
  /\ ip \notin Accounts /\ Window \in Nat
  /\ \A k \in Accounts \cup {ip} : LimitOf[k] \in Nat
ASSUME RolesAssumption == a \in Accounts /\ Null \notin Accounts \cup {"u1", "u2"}
ASSUME TabsAssumption == Gone \notin {"first", "second"} /\ Unknown \notin Nat
ASSUME PlayersAssumption == a # b /\ Null \notin {a, b} /\ MaxRows \in Nat

VARIABLES
  focus,
  account, tokens, links, pending, spent, passwords, sent, given, uses, redeemed, ended, reused,
  rows, status, cache, granted,
  windows, now, attempts, failed, let,
  row, created, last,
  smooth,
  calls, losses,
  issued, jar, tabs, reloads, orderly,
  waiting, games, owed, valid, socket, pushed, shown, queue, known, listed, drops, stales, slipped,
  lists, busy, query, timer, lookups, results, searching, asked, renewals, missed, hasty

Session == INSTANCE Sessions_proofs WITH
  MaxTokens <- 3, MaxPasswords <- 3, MaxLinks <- 2, MaxCodes <- 2
Admin == INSTANCE RoleAdmin WITH
  Users <- Accounts, Root <- a, MaxGrants <- 3,
  Given <- {[role |-> "SUPER_ADMIN", scope |-> Null], [role |-> "ARBITER", scope |-> "TOURNAMENT"]},
  MayExpire <- {[role |-> "ARBITER", scope |-> "TOURNAMENT"]}
Login == INSTANCE LoginLimits WITH Shared <- ip, MaxAttempts <- MaxLogins
Pair == {a, b}
Friend == INSTANCE Friendship WITH Players <- Pair
BothTabs == {"first", "second"}
Tab == INSTANCE Browser WITH
  Tabs <- BothTabs, Calls <- Requests, MaxTokens <- 3, MaxStale <- 1, MaxReloads <- 1
Lobby == INSTANCE QueuePage WITH Calls <- Requests, MaxDrops <- 1, MaxStale <- 1
Friends == INSTANCE FriendsPage WITH
  me <- a, other <- b, Calls <- Requests

Limits == (a :> 1) @@ (b :> 1) @@ (ip :> 2)
Everything == [r \in Requests |-> Kinds]
Alike == Permutations({r1, r2}) \cup Permutations({k1, k2})

payments_ == <<reg, invoices, payments, ledger, outbox, crashes>>
sessions == <<account, tokens, links, pending, spent, passwords, sent, given, uses, redeemed, ended, reused>>
roles == <<rows, status, cache, granted>>
logins == <<windows, now, attempts, failed, let>>
friends == <<row, created, last>>
signIn == <<issued, jar, tabs, reloads, orderly>>
lobby == <<waiting, games, owed, valid, socket, pushed, shown, queue, known, listed, drops, stales, slipped>>
friendList == <<lists, busy, query, timer, lookups, results, searching, asked, renewals, missed, hasty>>
pages == <<calls, losses, signIn, lobby, friendList>>

NoSessions ==
  /\ account = Null /\ tokens = Null /\ links = Null /\ pending = Null /\ spent = Null
  /\ passwords = Null /\ sent = Null /\ given = Null /\ uses = Null /\ redeemed = Null
  /\ ended = Null /\ reused = Null
NoRoles == rows = Null /\ status = Null /\ cache = Null /\ granted = Null
NoLogins == windows = Null /\ now = Null /\ attempts = Null /\ failed = Null /\ let = Null
NoFriends == row = Null /\ created = Null /\ last = Null
NoSignIn == issued = Null /\ jar = Null /\ tabs = Null /\ reloads = Null /\ orderly = Null
NoLobby ==
  /\ waiting = Null /\ games = Null /\ owed = Null /\ valid = Null /\ socket = Null /\ pushed = Null
  /\ shown = Null /\ queue = Null /\ known = Null /\ listed = Null
  /\ drops = Null /\ stales = Null /\ slipped = Null
NoFriendList ==
  /\ lists = Null /\ busy = Null /\ query = Null /\ timer = Null /\ lookups = Null /\ results = Null
  /\ searching = Null /\ asked = Null /\ renewals = Null /\ missed = Null /\ hasty = Null
NoPages == calls = Null /\ losses = Null /\ NoSignIn /\ NoLobby /\ NoFriendList

Alone(r) == \A q \in Requests \ {r} : pc[q] = "idle"

-----------------------------------------------------------------------------
(* The cases of the access checks: two assignments, and a resource. *)

Narrow == {[kind |-> "own", id |-> Null]} \cup
          {[kind |-> u, id |-> "u1"] : u \in {"REGION", "CLUB", "TOURNAMENT"}}
Assignment == [role : Admin!Roles, scope : Narrow]
                \cup [role : {"SUPER_ADMIN"}, scope : {[kind |-> "global", id |-> Null]}]
Seconds == {{}, {[role |-> "ARBITER", scope |-> [kind |-> "TOURNAMENT", id |-> "u1"]]},
            {[role |-> "CLUB_ADMIN", scope |-> [kind |-> "CLUB", id |-> "u2"]]}}
Refs == [owner : {a, b, Null}, of : {"REGION", "CLUB", "TOURNAMENT"}, unit : {"u1", "u2", Null}]

AccessCase ==
  \E x \in Assignment, more \in Seconds, type \in Admin!ResourceTypes, ref \in Refs :
    loc = [assignments |-> {x} \cup more,
           resource |-> [type |-> type, owner |-> ref.owner,
                         units |-> [u \in Admin!Units |-> IF u = ref.of THEN ref.unit ELSE Null]]]

-----------------------------------------------------------------------------

ServerInit ==
  \/ focus = "payments" /\ Init /\ NoSessions /\ NoRoles /\ NoLogins /\ NoFriends /\ smooth = Null
  \/ /\ focus \in {"account", "factor", "tokens"} /\ Session!Init
     /\ focus = "account" => account = Session!Nobody
     /\ focus = "factor" => account = Session!Member({1, 2})
     /\ focus = "tokens" => account = Session!Member({})
     /\ Unbilled /\ NoRoles /\ NoLogins /\ NoFriends
  \/ focus = "roles" /\ Admin!Init /\ Unbilled /\ NoSessions /\ NoLogins /\ NoFriends
  \/ focus = "logins" /\ Login!Init /\ Unbilled /\ NoSessions /\ NoRoles /\ NoFriends /\ smooth = Null
  \/ focus = "friends" /\ Friend!Init /\ Unbilled /\ NoSessions /\ NoRoles /\ NoLogins /\ smooth = Null
  \/ /\ focus = "access" /\ AccessCase /\ pc = Null
     /\ Unbilled /\ NoSessions /\ NoRoles /\ NoLogins /\ NoFriends /\ smooth = Null

PageInit ==
  /\ \/ focus \in {"tab", "tabs"} /\ Tab!Init /\ NoLobby /\ NoFriends /\ NoFriendList
     \/ focus = "lobby" /\ Lobby!Init /\ NoSignIn /\ NoFriends /\ NoFriendList
     \/ /\ focus \in {"list", "box"} /\ Friends!Init
        /\ issued = Null /\ jar = Null /\ tabs = Null /\ reloads = Null /\ NoLobby
  /\ Unbilled /\ NoSessions /\ NoRoles /\ NoLogins
  /\ pc = Null /\ loc = Null /\ smooth = Null

MCInit == (ServerInit /\ NoPages) \/ PageInit

\* An account from its registration on and the second factor, one request at a time
\* and a family of two tokens; or the tokens of one account under two requests.
SessionNext ==
  \/ \E r \in Requests : focus = "account" /\ Alone(r)
       /\ (Session!TokenRequest(r) \/ Session!AccountRequest(r) \/ Session!Continue(r))
  \/ \E r \in Requests : focus = "factor" /\ Alone(r)
       /\ (Session!BeginLogin(r) \/ Session!BeginRotate(r) \/ Session!FactorRequest(r) \/ Session!Continue(r))
  \/ \E r \in Requests : focus = "tokens"
       /\ (Session!TokenRequest(r) \/ Session!RequestReset(r) \/ Session!BeginReset(r) \/ Session!Continue(r))
  \/ focus = "factor" /\ \E t \in DOMAIN tokens : Session!Expire(t)
  \/ focus = "factor" /\ Session!RaiseParameters

RoleNext == (\E r \in Requests : Alone(r) /\ Admin!Step(r)) \/ Admin!Expire \/ Admin!CacheExpires

\* One tab alone; or two whose requests follow one another.
FirstOnly == tabs'["second"] = Tab!Loading
InTurn == orderly' /\ Cardinality({c \in Requests : calls'[c] # Tab!Free}) <= 1

ServerNext ==
  \/ focus = "payments" /\ Next /\ UNCHANGED <<sessions, roles, logins, friends, smooth>>
  \/ /\ focus \in {"account", "factor", "tokens"} /\ SessionNext
     /\ focus # "tokens" => Len(tokens') <= 2 /\ passwords' <= 2
     /\ UNCHANGED <<payments_, roles, logins, friends>>
  \/ focus = "roles" /\ RoleNext /\ UNCHANGED <<payments_, sessions, logins, friends>>
  \/ focus = "logins" /\ Login!Next /\ UNCHANGED <<payments_, sessions, roles, friends, smooth>>
  \/ focus = "friends" /\ Friend!Next /\ UNCHANGED <<payments_, sessions, roles, logins, smooth>>

\* His lists, with the other's name in the box perhaps; or the box, and nobody asked.
OneName == query' # "no name" /\ (query = "" \/ query' = query) /\ renewals' = 0
InOrder == Cardinality({c \in Requests : calls'[c] # Friends!Free}) <= 1

PageNext ==
  \/ focus = "tab" /\ Tab!Next /\ FirstOnly /\ UNCHANGED <<lobby, friends, friendList>>
  \/ focus = "tabs" /\ Tab!Next /\ InTurn /\ UNCHANGED <<lobby, friends, friendList>>
  \/ focus = "lobby" /\ Lobby!Next /\ UNCHANGED <<signIn, friends, friendList>>
  \/ focus = "list" /\ Friends!Next /\ OneName /\ InOrder /\ UNCHANGED <<lobby, issued, jar, tabs, reloads>>
  \/ focus = "box" /\ Friends!Next /\ row' = Null /\ UNCHANGED <<lobby, issued, jar, tabs, reloads>>

everywhere == <<vars, focus, sessions, roles, logins, friends, smooth, pages>>

MCNext ==
  \/ ServerNext /\ UNCHANGED <<focus, pages>>
  \/ PageNext /\ UNCHANGED <<vars, focus, sessions, roles, logins, smooth>>

MCSpec == MCInit /\ [][MCNext]_everywhere

-----------------------------------------------------------------------------
(* The properties of the components. *)

\* Sessions
OfSessions == focus \in {"account", "factor", "tokens"}
SessionsAreSound ==
  OfSessions => Session!TypeOK /\ Session!SessionsAreSound

\* RoleAdmin, Access
RolesStand ==
  /\ focus = "roles" => Admin!TypeOK /\ Admin!SomebodyGoverns /\ Admin!CacheLateByExpiryOnly
  /\ focus = "access" => Admin!AccessIsSound(a, loc.assignments, loc.resource)

\* LoginLimits
FailuresStayCounted == focus = "logins" => Login!TypeOK /\ Login!FailuresStayCounted

\* Friendship, FriendsPage
FriendsAgreed ==
  /\ focus = "friends" => Friend!TypeOK /\ Friend!FriendsAgreed
  /\ focus \in {"list", "box"} => /\ Friends!TypeOK /\ Friends!FriendWasAgreed
                                 /\ Friends!QuietPageIsCurrent /\ Friends!PageSettles

\* Browser, QueuePage
BrowserIsTrue ==
  focus \in {"tab", "tabs"} => Tab!TypeOK /\ Tab!SessionIsTokens /\ Tab!CookieIsKept /\ Tab!PageSettles
NobodyIsFrozen == focus = "lobby" => Lobby!NobodyIsFrozen /\ Lobby!QueuedIsReachable

-----------------------------------------------------------------------------
(* What does not hold: PeopleDivergences, where two requests run at once,    *)
(* and a super-administrator may be one for a time.                          *)

LogoutIsFinal == OfSessions => Session!LogoutIsFinal
CodesWorkOnce == OfSessions => Session!CodesWorkOnce
LastPasswordCounts == OfSessions => Session!LastPasswordCounts
SomebodyGoverns == focus = "roles" => Admin!SomebodyGoverns
CacheLateByExpiryOnly == focus = "roles" => Admin!CacheLateByExpiryOnly
ExpiredGivesNothing == focus = "roles" => Admin!ExpiredGivesNothing
BlockStands == focus = "friends" => Friend!BlockStands
NotDraggedAway == focus = "lobby" => Lobby!NotDraggedAway

PageIsCurrent == focus = "list" => Friends!PageIsCurrent
OneListEach == focus = "list" => Friends!OneListEach
ResultsAreOfQuery == focus = "box" => Friends!ResultsAreOfQuery

Dated == INSTANCE RoleAdmin WITH
  Users <- Accounts, Root <- a, MaxGrants <- 3,
  Given <- {[role |-> "SUPER_ADMIN", scope |-> Null]}, MayExpire <- {[role |-> "SUPER_ADMIN", scope |-> Null]}

RaceNext ==
  /\ \/ OfSessions /\ Session!Next /\ UNCHANGED <<payments_, roles, logins, friends>>
     \/ focus = "friends" /\ Friend!Next /\ UNCHANGED <<payments_, sessions, roles, logins, smooth>>
  /\ UNCHANGED <<focus, pages>>

ListRaceNext ==
  /\ focus = "list" /\ Friends!Next /\ OneName /\ losses' = 0
  /\ UNCHANGED <<vars, focus, sessions, roles, logins, smooth, lobby, issued, jar, tabs, reloads>>

RoleRaceNext ==
  focus = "roles" /\ Dated!Next /\ UNCHANGED <<focus, payments_, sessions, logins, friends, pages>>

RaceSpec ==
  /\ MCInit
  /\ [][RaceNext \/ ListRaceNext \/ RoleRaceNext
        \/ (MCNext /\ focus \in {"payments", "tab", "lobby", "box"})]_everywhere

\* The finding about the invoices, alone.
InvoiceSpec == MCInit /\ focus = "payments" /\ [][MCNext]_everywhere

OnlyLoginSignsIn == [][focus = "tab" => Tab!SignsInByLogin]_everywhere

\* The finding about the browser: one tab that is never loaded again or signed out, and
\* no answer is lost.
Visit == INSTANCE Browser WITH
  Tabs <- BothTabs, Calls <- Requests, MaxTokens <- 3, MaxStale <- 1, MaxReloads <- 0, MaxLosses <- 0

SignsOut == \E c \in Requests : calls'[c].kind = "logout"
VisitNext ==
  /\ focus = "tab" /\ Visit!Next /\ FirstOnly /\ ~SignsOut
  /\ UNCHANGED <<vars, focus, sessions, roles, logins, friends, smooth, lobby, friendList>>
VisitSpec == MCInit /\ [][VisitNext]_everywhere

StaysSignedIn == focus = "tab" => Visit!StaysSignedIn
=============================================================================
