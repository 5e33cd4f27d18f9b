----------------------------- MODULE RoleAdmin ------------------------------
(***************************************************************************)
(* Roles as they are given, taken and looked up (modules/identity: admin,  *)
(* authz and the guard).  Every request looks its actor's roles up, in a   *)
(* cache of a minute or in the table.  An administrative one then reads    *)
(* its target, counts the super-administrators, writes and drops the       *)
(* target's cache, each in a step of its own.  Access has the rules.       *)
(***************************************************************************)
EXTENDS Access

CONSTANTS
  Users,
  Root,        \* the user the seed made super-administrator
  Requests,    \* slots for requests in flight
  Given,       \* the roles that are given, each with the kind of its scope
  MayExpire,   \* those among them that are given until a date
  MaxGrants    \* bound: no further role is given

VARIABLES
  rows,    \* the UserRole rows
  status,  \* the status of each user
  cache,   \* authz:roles in Redis: what is kept of each user's rows, or Null
  granted, \* rows created so far
  smooth,  \* history: no request died half-way
  pc, loc

vars == <<rows, status, cache, granted, smooth, pc, loc>>

Blank == [kind |-> "none", actor |-> Null, own |-> {}, user |-> Null, row |-> 0,
          role |-> Null, scope |-> Null, until |-> "never", governs |-> FALSE, to |-> Null]

Goto(r, label, l) ==
  /\ pc' = [pc EXCEPT ![r] = label]
  /\ loc' = [loc EXCEPT ![r] = l]

Reply(r) == Goto(r, "idle", Blank)

Init ==
  /\ rows = {[id |-> 1, user |-> Root, role |-> "SUPER_ADMIN", scope |-> Null, until |-> "never"]}
  /\ status = [u \in Users |-> "ACTIVE"]
  /\ cache = [u \in Users |-> Null]
  /\ granted = 1 /\ smooth = TRUE
  /\ pc = [r \in Requests |-> "idle"]
  /\ loc = [r \in Requests |-> Blank]

\* findActiveAssignments
ActiveRows(u) == {row \in rows : row.user = u /\ row.until # "past"}
\* The columns that are selected; the id stands for the row.
View(some) == {[id |-> row.id, role |-> row.role, scope |-> row.scope] : row \in some}

-----------------------------------------------------------------------------
(* The guard. *)

\* getAssignments: GET
Arrive(r, l) ==
  IF cache[l.actor] # Null THEN Goto(r, "act", [l EXCEPT !.own = cache[l.actor]]) ELSE Goto(r, "miss", l)

BeginRequest(r) ==
  /\ pc[r] = "idle"
  /\ \E u \in Users :
       LET by == [Blank EXCEPT !.actor = u] IN
       \/ Arrive(r, [by EXCEPT !.kind = "visit"])
       \/ \E v \in Users, g \in Given, until \in {"never", "later"} :
            /\ until = "later" => g \in MayExpire
            /\ Arrive(r, [by EXCEPT !.kind = "grant", !.user = v, !.role = g.role, !.scope = g.scope,
                                    !.until = until])
       \/ \E id \in 1..granted : Arrive(r, [by EXCEPT !.kind = "revoke", !.row = id])
       \/ \E v \in Users, to \in {"ACTIVE", "SUSPENDED"} :
            Arrive(r, [by EXCEPT !.kind = "status", !.user = v, !.to = to])
  /\ UNCHANGED <<rows, status, cache, granted, smooth>>

ReadRows(r) ==
  /\ pc[r] = "miss"
  /\ Goto(r, "fill", [loc[r] EXCEPT !.own = View(ActiveRows(loc[r].actor))])
  /\ UNCHANGED <<rows, status, cache, granted, smooth>>

FillCache(r) ==
  /\ pc[r] = "fill"
  /\ cache' = [cache EXCEPT ![loc[r].actor] = loc[r].own]
  /\ Goto(r, "act", loc[r])
  /\ UNCHANGED <<rows, status, granted, smooth>>

-----------------------------------------------------------------------------
(* user-admin.service *)

\* toDomainAssignments; a scope here is a kind and an id in one.
Assignments(own) == {[role |-> a.role, scope |-> ToScope(a.role, a.scope, a.scope)] : a \in own}

Nameless == [type |-> "User", owner |-> Null, units |-> [k \in Units |-> Null]]

\* The guard's check and the controller's assertGlobal.
MayAdminister(l) ==
  /\ HasCapability(Assignments(l.own), "update", "User")
  /\ Can(l.actor, Assignments(l.own), "update", Nameless)

OwnRoles(l) == {a.role : a \in l.own}
Governing(some) == {row \in some : row.role = "SUPER_ADMIN" /\ row.scope = Null}

\* findById / findAssignment, and what is decided before the count.
ReadTarget(r) ==
  LET l == loc[r] IN
  /\ pc[r] = "act"
  /\ IF l.kind = "visit" \/ ~MayAdminister(l) THEN Reply(r) ELSE
     CASE l.kind = "grant" ->
            IF /\ CanGrant(OwnRoles(l), l.role, l.scope, l.scope)
               /\ ~\E row \in rows : row.user = l.user /\ row.role = l.role /\ row.scope = l.scope
            THEN Goto(r, "write", l) ELSE Reply(r)
       [] l.kind = "revoke" ->
            IF \E row \in rows : row.id = l.row
            THEN LET row == CHOOSE x \in rows : x.id = l.row
                 IN Goto(r, "count", [l EXCEPT !.user = row.user, !.role = row.role, !.scope = row.scope])
            ELSE Reply(r)
       [] OTHER ->
            Goto(r, "count", [l EXCEPT !.governs = Governing({x \in rows : x.user = l.user}) # {}])
  /\ UNCHANGED <<rows, status, cache, granted, smooth>>

\* Rows whose date has passed are counted too.
CountGlobalSuperAdmins == Cardinality({row \in Governing(rows) : status[row.user] = "ACTIVE"})

Decide(r) ==
  LET l == loc[r] IN
  /\ pc[r] = "count"
  /\ IF CASE l.kind = "revoke" -> CanRevoke(OwnRoles(l), l.role, l.scope, CountGlobalSuperAdmins)
          [] OTHER -> CanChangeStatus(l.actor, l.user, l.governs, l.to, CountGlobalSuperAdmins)
     THEN Goto(r, "write", l) ELSE Reply(r)
  /\ UNCHANGED <<rows, status, cache, granted, smooth>>

\* The unique index lets two rows without a scope in; two rows with one, not.
Insert(r) ==
  LET l == loc[r] IN
  /\ pc[r] = "write" /\ l.kind = "grant" /\ granted < MaxGrants
  /\ IF l.scope # Null /\ \E row \in rows : row.user = l.user /\ row.role = l.role /\ row.scope = l.scope
     THEN Reply(r) /\ UNCHANGED <<rows, granted>>
     ELSE /\ granted' = granted + 1
          /\ rows' = rows \cup {[id |-> granted', user |-> l.user, role |-> l.role, scope |-> l.scope,
                                 until |-> l.until]}
          /\ Goto(r, "forget", l)
  /\ UNCHANGED <<status, cache, smooth>>

\* A row that is gone already is an error.
Delete(r) ==
  LET l == loc[r] IN
  /\ pc[r] = "write" /\ l.kind = "revoke"
  /\ IF \E row \in rows : row.id = l.row
     THEN rows' = {row \in rows : row.id # l.row} /\ Goto(r, "forget", l)
     ELSE Reply(r) /\ UNCHANGED rows
  /\ UNCHANGED <<status, cache, granted, smooth>>

\* The sessions that are closed with it are in Sessions.
SetStatus(r) ==
  LET l == loc[r] IN
  /\ pc[r] = "write" /\ l.kind = "status"
  /\ status' = [status EXCEPT ![l.user] = l.to]
  /\ Goto(r, "forget", l)
  /\ UNCHANGED <<rows, cache, granted, smooth>>

CacheKept(u) == cache
CacheWithout(u) == [cache EXCEPT ![u] = Null]

Invalidate(r) ==
  /\ pc[r] = "forget"
  /\ cache' = CacheWithout(loc[r].user)
  /\ Reply(r)
  /\ UNCHANGED <<rows, status, granted, smooth>>

-----------------------------------------------------------------------------

\* The date of a row passes; a minute passes over a cache entry.
Expire ==
  /\ \E row \in rows :
       /\ row.until = "later"
       /\ rows' = (rows \ {row}) \cup {[row EXCEPT !.until = "past"]}
  /\ UNCHANGED <<status, cache, granted, smooth, pc, loc>>

CacheExpires ==
  /\ \E u \in Users : cache[u] # Null /\ cache' = CacheWithout(u)
  /\ UNCHANGED <<rows, status, granted, smooth, pc, loc>>

Crash(r) ==
  /\ pc[r] # "idle"
  /\ Reply(r)
  /\ smooth' = FALSE
  /\ UNCHANGED <<rows, status, cache, granted>>

Step(r) ==
  \/ BeginRequest(r) \/ ReadRows(r) \/ FillCache(r)
  \/ ReadTarget(r) \/ Decide(r) \/ Insert(r) \/ Delete(r) \/ SetStatus(r) \/ Invalidate(r)
  \/ Crash(r)

Next == (\E r \in Requests : Step(r)) \/ Expire \/ CacheExpires

Spec == Init /\ [][Next]_vars

-----------------------------------------------------------------------------
(* Properties. *)

TypeOK ==
  /\ \A row \in rows : row.id \in 1..granted /\ row.user \in Users
  /\ \A x, y \in rows : x.id = y.id => x = y
  /\ \A u \in Users : status[u] \in {"ACTIVE", "SUSPENDED"}

\* Whatever is given, taken and suspended, one request at a time and no
\* super-administrator for a limited time: somebody can still give roles
\* (canRevoke, canChangeStatus: "the last super-administrator").
SomebodyGoverns ==
  \E row \in Governing(rows) : row.until # "past" /\ status[row.user] = "ACTIVE"

\* Between requests, if none died, the cache differs from the table by roles
\* whose date passed within the minute and by nothing else (invalidate is called
\* after every write, on the right user, and no write happens after it).
CacheLateByExpiryOnly ==
  smooth /\ (\A r \in Requests : pc[r] = "idle") =>
    \A u \in Users : cache[u] # Null =>
      /\ View(ActiveRows(u)) \subseteq cache[u]
      /\ cache[u] \subseteq View({row \in rows : row.user = u})

\* An assignment whose date has passed gives nothing (rbac.service, rule 1).  It
\* does not hold for the minute of the cache: PeopleDivergences.
ExpiredGivesNothing ==
  \A r \in Requests : pc[r] = "write" /\ smooth =>
    \E row \in rows : row.user = loc[r].actor /\ row.role = "SUPER_ADMIN" /\ row.until # "past"
=============================================================================
