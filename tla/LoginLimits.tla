----------------------------- MODULE LoginLimits ----------------------------
(***************************************************************************)
(* The sliding windows a login is counted in (shared/rate-limit, and login *)
(* of auth.service): one for the address it comes from, which many people  *)
(* share, and one for the account.  An attempt enters both windows before  *)
(* the password is looked at; a refused entry is taken out again by a      *)
(* second command; a login that succeeds empties the window of its account *)
(* and takes its own entry out of the shared one.                          *)
(***************************************************************************)
EXTENDS Integers, FiniteSets

CONSTANTS
  Accounts,
  Shared,      \* the key of the address
  Requests,    \* slots for logins in flight
  Null,
  LimitOf,     \* the limit of each key
  Window,      \* the width of a window
  MaxTime,     \* bound: the clock stops
  MaxAttempts  \* bound: no further attempt begins

VARIABLES
  windows,  \* the sorted sets: of each key, [id, at]
  now,
  attempts, \* attempts begun so far
  failed,   \* history: attempts whose password was wrong, [id, account, at]
  let,      \* history: entries let through and not taken back, [key, id, at]
  pc, loc

vars == <<windows, now, attempts, failed, let, pc, loc>>

Limited == Accounts \cup {Shared}
Blank == [id |-> 0, account |-> Null, at |-> 0, right |-> FALSE, refused |-> {}]

Goto(r, label, l) ==
  /\ pc' = [pc EXCEPT ![r] = label]
  /\ loc' = [loc EXCEPT ![r] = l]

Reply(r) == Goto(r, "idle", Blank)

Init ==
  /\ windows = [k \in Limited |-> {}]
  /\ now = 0 /\ attempts = 0
  /\ failed = {} /\ let = {}
  /\ pc = [r \in Requests |-> "idle"]
  /\ loc = [r \in Requests |-> Blank]

\* What of a sorted set lies in the window.
Within(entries) == {e \in entries : e.at > now - Window}
Entry(l) == [id |-> l.id, at |-> l.at]
Key(k, l) == [key |-> k, id |-> l.id, at |-> l.at]

BeginLogin(r) ==
  /\ pc[r] = "idle" /\ attempts < MaxAttempts
  /\ attempts' = attempts + 1
  /\ \E a \in Accounts, right \in BOOLEAN :
       Goto(r, "address", [Blank EXCEPT !.id = attempts', !.account = a, !.right = right])
  /\ UNCHANGED <<windows, now, failed, let>>

Over(k, count) == count > LimitOf[k]

\* consume: trim, add and count are one MULTI; whether it is over is decided here.
Consume(r, k, label) ==
  LET l == [loc[r] EXCEPT !.at = now]
      added == Within(windows[k]) \cup {Entry(l)}
      over == Over(k, Cardinality(added))
  IN
  /\ windows' = [windows EXCEPT ![k] = added]
  /\ let' = IF over THEN let ELSE let \cup {Key(k, l)}
  /\ Goto(r, label, IF over THEN [l EXCEPT !.refused = @ \cup {k}] ELSE l)
  /\ UNCHANGED <<now, attempts, failed>>

\* Both go out together on one connection, so that no time passes in between.
ConsumeAddress(r) == pc[r] = "address" /\ Consume(r, Shared, "account")
ConsumeAccount(r) == pc[r] = "account" /\ Consume(r, loc[r].account, "answer")

Taken(k, l) == [windows EXCEPT ![k] = {e \in @ : e.id # l.id}]
Emptied(k) == [windows EXCEPT ![k] = {}]

\* zrem of what was refused
Withdraw(r) ==
  /\ pc[r] = "answer" /\ loc[r].refused # {}
  /\ \E k \in loc[r].refused :
       /\ windows' = Taken(k, loc[r])
       /\ IF loc[r].refused = {k} THEN Reply(r)
          ELSE Goto(r, "answer", [loc[r] EXCEPT !.refused = @ \ {k}])
  /\ UNCHANGED <<now, attempts, failed, let>>

VerifyPassword(r) ==
  LET l == loc[r] IN
  /\ pc[r] = "answer" /\ l.refused = {}
  /\ IF l.right
     THEN Goto(r, "reset", l) /\ UNCHANGED failed
     ELSE Reply(r) /\ failed' = failed \cup {[id |-> l.id, account |-> l.account, at |-> l.at]}
  /\ UNCHANGED <<windows, now, attempts, let>>

Reset(r) ==
  /\ pc[r] = "reset"
  /\ windows' = Emptied(loc[r].account)
  /\ let' = {e \in let : e.key # loc[r].account}
  /\ Goto(r, "refund", loc[r])
  /\ UNCHANGED <<now, attempts, failed>>

RefundAll(k, l) == Emptied(k)
\* Its own entry: the window is shared.
RefundOne(k, l) == Taken(k, l)

Refund(r) ==
  /\ pc[r] = "refund"
  /\ windows' = RefundOne(Shared, loc[r])
  /\ let' = let \ {Key(Shared, loc[r])}
  /\ Reply(r)
  /\ UNCHANGED <<now, attempts, failed>>

Tick ==
  /\ now < MaxTime /\ \A r \in Requests : pc[r] # "account"
  /\ now' = now + 1
  /\ UNCHANGED <<windows, attempts, failed, let, pc, loc>>

\* The process dies: what it would have taken back stays.
Crash(r) ==
  /\ pc[r] # "idle"
  /\ Reply(r)
  /\ UNCHANGED <<windows, now, attempts, failed, let>>

Step(r) ==
  \/ BeginLogin(r) \/ ConsumeAddress(r) \/ ConsumeAccount(r) \/ Withdraw(r)
  \/ VerifyPassword(r) \/ Reset(r) \/ Refund(r) \/ Crash(r)

Next == Tick \/ \E r \in Requests : Step(r)

Spec == Init /\ [][Next]_vars

-----------------------------------------------------------------------------
(* Properties. *)

TypeOK ==
  /\ \A k \in Limited : \A e \in windows[k] : e.id \in 1..attempts /\ e.at \in 0..now
  /\ \A k \in Limited : \A e, f \in windows[k] : e.id = f.id => e = f

\* However logins overlap, succeed and die, a window lets no more through than
\* its limit, and nobody's success takes the failure of another out of the
\* window they share (login: reset of the account, refund of the address).
FailuresStayCounted ==
  /\ \A k \in Limited :
       Cardinality(Within({[id |-> e.id, at |-> e.at] : e \in {x \in let : x.key = k}})) <= LimitOf[k]
  /\ \A f \in Within(failed) : \E e \in windows[Shared] : e.id = f.id
=============================================================================
