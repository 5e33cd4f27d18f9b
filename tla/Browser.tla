------------------------------ MODULE Browser ------------------------------
(***************************************************************************)
(* The sign-in of one browser (web/lib/auth): the refresh cookie its tabs  *)
(* share, the access token and the session each tab holds in memory, and   *)
(* the requests under way between them and the server.                     *)
(*                                                                         *)
(* The server gives out an access token with every refresh token: both are *)
(* named by the row of the refresh token, and None names no row.  Its part *)
(* is one step here; its transactions are in Sessions.  An answer is       *)
(* prepared in one step and reaches the browser in another, in any order.  *)
(***************************************************************************)
EXTENDS Integers, Sequences, FiniteSets

CONSTANTS
  Tabs, Accounts,
  Calls,       \* slots for requests under way
  Unknown,     \* undefined in the code: not settled yet
  Gone,        \* the tab of a request whose page was left
  MaxTokens,   \* bound: no further pair of tokens is issued
  MaxStale,    \* bound: access tokens that run out
  MaxReloads,  \* bound: pages loaded again
  MaxLosses    \* bound: answers that never arrive

VARIABLES
  issued,   \* the refresh tokens on the server, and whose they are
  jar,      \* the refresh cookie
  tabs,     \* what the AuthProvider of each tab holds
  calls,    \* requests under way
  reloads, losses,
  orderly   \* history: no two requests carried the cookie at once

vars == <<issued, jar, tabs, calls, reloads, losses, orderly>>

None == 0
Free == [kind |-> "none", at |-> "sent", tab |-> Gone, token |-> None, got |-> None]
Loading == [token |-> Unknown, seen |-> Unknown, asked |-> {}, session |-> Unknown, booted |-> FALSE]
Row(family, of) == [family |-> family, of |-> of, live |-> TRUE, stale |-> FALSE]

\* Somebody signed in a while ago; the tabs are being loaded.
Init ==
  /\ \E u \in Accounts : issued = <<Row(1, u)>>
  /\ jar = 1
  /\ tabs = [t \in Tabs |-> Loading]
  /\ calls = [c \in Calls |-> Free]
  /\ reloads = 0 /\ losses = 0 /\ orderly = TRUE

\* Requests to /auth, which take the cookie with them and outlive their page.
CarriesCookie(call) == call.kind \in {"boot", "renew", "login", "logout"}
Carrying == {c \in Calls : CarriesCookie(calls[c])}

Put(c, call) ==
  /\ calls' = [calls EXCEPT ![c] = call]
  /\ orderly' = (orderly /\ (CarriesCookie(call) => Carrying \subseteq {c}))

Begin(c, kind, t, token) ==
  /\ calls[c] = Free
  /\ Put(c, [Free EXCEPT !.kind = kind, !.tab = t, !.token = token])

-----------------------------------------------------------------------------
(* What a tab sends. *)

\* The effect that runs once, when the page is there.
Boot(c, t) ==
  /\ ~tabs[t].booted
  /\ Begin(c, "boot", t, jar)
  /\ tabs' = [tabs EXCEPT ![t].booted = TRUE]
  /\ UNCHANGED <<issued, jar, reloads, losses>>

SignedIn(t) == tabs[t].token \notin {Unknown, None}

\* The pages call the API once there is a token.
AuthFetch(c, t) ==
  /\ SignedIn(t)
  /\ Begin(c, "fetch", t, tabs[t].token)
  /\ UNCHANGED <<issued, jar, tabs, reloads, losses>>

\* The sign-in page sends whoever is signed in away.
Login(c, t, u) ==
  /\ tabs[t].token = None
  /\ Begin(c, "login", t, u)
  /\ UNCHANGED <<issued, jar, tabs, reloads, losses>>

Logout(c, t) ==
  /\ SignedIn(t)
  /\ Begin(c, "logout", t, jar)
  /\ UNCHANGED <<issued, jar, tabs, reloads, losses>>

-----------------------------------------------------------------------------
(* The server. *)

Answered(c, token) == Put(c, [calls[c] EXCEPT !.at = "answered", !.got = token])

EndFamily(cookie) ==
  [i \in DOMAIN issued |->
     IF cookie # None /\ issued[i].family = issued[cookie].family THEN [issued[i] EXCEPT !.live = FALSE]
     ELSE issued[i]]

\* One use of each refresh token: the successor, or the end of the family.
Refresh(c) ==
  LET cookie == calls[c].token IN
  /\ calls[c].kind \in {"boot", "renew"} /\ calls[c].at = "sent"
  /\ IF cookie = None \/ ~issued[cookie].live
     THEN issued' = EndFamily(cookie) /\ Answered(c, None)
     ELSE /\ Len(issued) < MaxTokens
          /\ issued' = Append([issued EXCEPT ![cookie].live = FALSE], Row(issued[cookie].family, issued[cookie].of))
          /\ Answered(c, Len(issued'))
  /\ UNCHANGED <<jar, tabs, reloads, losses>>

GrantLogin(c) ==
  /\ calls[c].kind = "login" /\ calls[c].at = "sent" /\ Len(issued) < MaxTokens
  /\ issued' = Append(issued, Row(Len(issued) + 1, calls[c].token))
  /\ Answered(c, Len(issued'))
  /\ UNCHANGED <<jar, tabs, reloads, losses>>

EndSession(c) ==
  /\ calls[c].kind = "logout" /\ calls[c].at = "sent"
  /\ issued' = EndFamily(calls[c].token)
  /\ Answered(c, None)
  /\ UNCHANGED <<jar, tabs, reloads, losses>>

\* Fifteen minutes pass over an access token.
Stale == {i \in DOMAIN issued : issued[i].stale}
RunOut(i) ==
  /\ ~issued[i].stale /\ Cardinality(Stale) < MaxStale
  /\ issued' = [issued EXCEPT ![i].stale = TRUE]
  /\ UNCHANGED <<jar, tabs, calls, reloads, losses, orderly>>

-----------------------------------------------------------------------------
(* What comes back. *)

\* authFetch: a 401 is met with one refresh, with the cookie of that moment.
ApiAnswer(c) ==
  /\ calls[c].kind \in {"fetch", "retry"}
  /\ IF calls[c].kind = "fetch" /\ issued[calls[c].token].stale
     THEN Put(c, [calls[c] EXCEPT !.kind = "renew", !.token = jar])
     ELSE Put(c, Free)
  /\ UNCHANGED <<issued, jar, tabs, reloads, losses>>

Cookie(call) ==
  IF call.kind = "logout" THEN None ELSE IF call.got = None THEN jar ELSE call.got

\* After a refresh the request that met the 401 is sent once more.
After(call) ==
  IF call.kind = "renew" /\ call.got # None /\ call.tab # Gone
  THEN [Free EXCEPT !.kind = "retry", !.tab = call.tab, !.token = call.got]
  ELSE Free

\* The browser keeps the cookie also when the page has been left.
Deliver(c) ==
  LET call == calls[c] IN
  /\ CarriesCookie(call) /\ call.at = "answered"
  /\ jar' = Cookie(call)
  /\ tabs' = IF call.tab = Gone THEN tabs ELSE [tabs EXCEPT ![call.tab].token = call.got]
  /\ Put(c, After(call))
  /\ UNCHANGED <<issued, reloads, losses>>

\* The network fails: the page signs out all the same, and otherwise stays as it was.
Lose(c) ==
  LET call == calls[c] IN
  /\ call # Free /\ losses < MaxLosses
  /\ losses' = losses + 1
  /\ tabs' = IF call.kind = "logout" /\ call.tab # Gone THEN [tabs EXCEPT ![call.tab].token = None] ELSE tabs
  /\ Put(c, Free)
  /\ UNCHANGED <<issued, jar, reloads>>

-----------------------------------------------------------------------------
(* The session a tab shows. *)

\* The effect on the token: the account and its roles are asked for anew.
AskMe(t) ==
  LET tab == tabs[t] IN
  /\ tab.token # tab.seen
  /\ tabs' = [tabs EXCEPT ![t] =
       IF tab.token = None THEN [tab EXCEPT !.seen = None, !.session = None]
       ELSE [tab EXCEPT !.seen = tab.token, !.asked = @ \cup {tab.token}]]
  /\ UNCHANGED <<issued, jar, calls, reloads, losses, orderly>>

\* The effect that asked has not been cleaned up: `cancelled'.
Heeded(tab, k) == k = tab.seen

Me(t, k, found) ==
  LET tab == tabs[t] IN
  /\ k \in tab.asked
  /\ found \in {None} \cup (IF issued[k].stale THEN {} ELSE {issued[k].of})
  /\ found = None => issued[k].stale \/ losses < MaxLosses
  /\ losses' = IF found = None /\ ~issued[k].stale THEN losses + 1 ELSE losses
  /\ tabs' = [tabs EXCEPT ![t] =
       [tab EXCEPT !.asked = @ \ {k}, !.session = IF Heeded(tab, k) THEN found ELSE @]]
  /\ UNCHANGED <<issued, jar, calls, reloads, orderly>>

GivenUp(call) == FALSE
\* fetch with keepalive goes on when its page is left, any other is given up.
Survives(call) == CarriesCookie(call)

Reload(t) ==
  /\ tabs[t].booted /\ reloads < MaxReloads
  /\ reloads' = reloads + 1
  /\ tabs' = [tabs EXCEPT ![t] = Loading]
  /\ calls' = [c \in Calls |->
       IF calls[c].tab # t THEN calls[c]
       ELSE IF Survives(calls[c]) THEN [calls[c] EXCEPT !.tab = Gone] ELSE Free]
  /\ UNCHANGED <<issued, jar, losses, orderly>>

-----------------------------------------------------------------------------

Next ==
  \/ \E c \in Calls, t \in Tabs :
       Boot(c, t) \/ AuthFetch(c, t) \/ Logout(c, t) \/ \E u \in Accounts : Login(c, t, u)
  \/ \E c \in Calls :
       Refresh(c) \/ GrantLogin(c) \/ EndSession(c) \/ ApiAnswer(c) \/ Deliver(c) \/ Lose(c)
  \/ \E t \in Tabs : AskMe(t) \/ Reload(t)
  \/ \E t \in Tabs, k \in DOMAIN issued, found \in Accounts \cup {None} : Me(t, k, found)
  \/ \E i \in DOMAIN issued : RunOut(i)

Spec == Init /\ [][Next]_vars

-----------------------------------------------------------------------------
(* Properties. *)

TypeOK ==
  /\ jar \in 0..Len(issued)
  /\ \A t \in Tabs : tabs[t].token \in {Unknown} \cup 0..Len(issued)
  /\ \A t \in Tabs : tabs[t].session \in {Unknown, None} \cup Accounts
  /\ \A c \in Calls : calls[c].got \in 0..Len(issued)

\* Once the answers to /auth/me are in, a tab shows the account its token is of, or
\* none: no late answer of an earlier token stays (the flag `cancelled').
SessionIsTokens ==
  \A t \in Tabs : LET tab == tabs[t] IN
    tab.token = tab.seen /\ tab.seen \notin tab.asked =>
      tab.session = (IF tab.token \in {Unknown, None} THEN tab.token ELSE issued[tab.token].of)
        \/ (tab.session = None /\ (losses > 0 \/ issued[tab.token].stale))

\* As long as the requests that carry the cookie follow one another and none is lost,
\* the cookie that is kept is one the server takes, also when the page is left while
\* it is exchanged (refresh, `keepalive').
CookieWorks == losses = 0 /\ Carrying = {} => jar = None \/ issued[jar].live
CookieIsKept == orderly => CookieWorks

\* A page whose first refresh was answered knows whether somebody is signed in.
PageSettles ==
  \A t \in Tabs : tabs[t].booted /\ tabs[t].token = Unknown =>
    losses > 0 \/ \E c \in Calls : calls[c].kind = "boot" /\ calls[c].tab = t

\* Without `orderly' it does not hold: two requests of a page that meet a 401 together,
\* or a page loaded while the cookie is exchanged, refresh with the same cookie.  And the
\* sign-in of another tab, or a refresh that outlasts a logout, signs a tab in:
\* PeopleDivergences.
SignsInByLogin ==
  \A t \in Tabs : tabs[t].token = None /\ SignedIn(t)' =>
    \E c \in Calls : calls[c].kind = "login" /\ calls[c].tab = t
OnlyLoginSignsIn == [][SignsInByLogin]_vars

\* "The access token lives for 15 minutes: that it runs out is usual, no error; we renew
\* it once and call again" (auth.tsx, authFetch): as long as he does not sign out himself
\* and no answer is lost, whoever was signed in stays so.
StaysSignedIn == \A t \in Tabs : tabs[t].token # None
=============================================================================
