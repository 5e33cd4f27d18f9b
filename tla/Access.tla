------------------------------- MODULE Access -------------------------------
(***************************************************************************)
(* Who may do what (modules/identity/rbac): the policy table, the scope    *)
(* of a role, the two checks a request goes through (the guard's, before   *)
(* the resource is known, and the service's, on the resource it loaded),   *)
(* the columns a role may write, and the rules of granting a role.         *)
(*                                                                         *)
(* An assignment is [role, scope]; a resource is [type, owner, units],     *)
(* units giving the unit of each kind it belongs to, or Null.  The expiry  *)
(* of an assignment is in RoleAdmin: the rows that reach these checks have *)
(* lost it (toDomainAssignments copies the role and the scope alone).      *)
(***************************************************************************)
EXTENDS Integers, FiniteSets

CONSTANT Null

Units == {"FEDERATION", "REGION", "CLUB", "SCHOOL", "TOURNAMENT"}

CRUD == {"create", "read", "update", "delete"}
CRU == {"create", "read", "update"}
CRD == {"create", "read", "delete"}
CR == {"create", "read"}
RU == {"read", "update"}
RD == {"read", "delete"}
R == {"read"}

\* The cells of a row of the matrix: open ones, and starred ones.
Open(actions, types) ==
  {[resource |-> t, actions |-> actions, scoped |-> FALSE, fields |-> {}] : t \in types}
Starred(actions, types) ==
  {[resource |-> t, actions |-> actions, scoped |-> TRUE, fields |-> {}] : t \in types}
Columns(type, fields) ==
  {[resource |-> type, actions |-> RU, scoped |-> TRUE, fields |-> fields]}

\* What nearly everybody may read.
Units3 == {"Federation", "Region", "Club"}
Play5 == {"Tournament", "TournamentSection", "Round", "Pairing", "GameResult"}
Rating3 == {"RatingPeriod", "RatingHistory", "Title"}
Office6 == {"Tournament", "TournamentSection", "Registration", "Round", "Pairing", "GameResult"}
Money3 == {"Subscription", "Invoice", "Payment"}

OfFamily ==
  Starred(R, {"ClubMembership", "Lesson", "SchoolClass", "Student", "Invoice"})
    \cup Open(R, Units3 \cup (Play5 \ {"GameResult"}) \cup {"RatingPeriod", "Title", "Puzzle", "Coach"})
    \cup Starred(R, {"RatingHistory"})

POLICY == [
  SUPER_ADMIN |->
    Open(CRUD, {"User", "Player", "ClubMembership", "RatingPeriod", "Title", "Arbiter", "Appeal",
                "Puzzle", "Coach", "Lesson", "School", "SchoolClass", "Student", "FairPlayCase"}
               \cup Units3 \cup Office6 \cup Money3)
      \cup Open(RD, {"Session"})
      \cup Open(R, {"RatingHistory", "OnlineGame", "Move", "PuzzleAttempt", "AuditLog"}),
  FEDERATION_ADMIN |->
    Open(CRUD, {"Region", "Club", "Tournament", "TournamentSection", "Title", "Arbiter", "School"})
      \cup Open(CRU, {"Player", "RatingPeriod"}) \cup Open(RU, {"Federation", "GameResult"})
      \cup Open(R, {"User", "ClubMembership", "Registration", "Round", "Pairing", "RatingHistory",
                    "Appeal", "Puzzle", "Coach", "Lesson", "SchoolClass", "Student", "FairPlayCase"})
      \cup Starred(R, Money3 \cup {"AuditLog"}),
  REGION_ADMIN |->
    Starred(CRUD, {"Club", "Tournament", "TournamentSection"}) \cup Starred(CRU, {"Arbiter", "School"})
      \cup Starred(RU, {"Player", "Region"})
      \cup Starred(R, {"User", "ClubMembership", "Registration", "Round", "Pairing", "GameResult",
                       "Appeal", "SchoolClass", "Student", "AuditLog"} \cup Money3)
      \cup Open(R, {"Federation", "Puzzle", "Coach", "Lesson"} \cup Rating3),
  CLUB_ADMIN |->
    Starred(CRUD, {"ClubMembership", "Tournament", "TournamentSection", "Registration"})
      \cup Starred(CRU, {"Round"}) \cup Starred(RU, {"Player", "Club", "Coach", "Subscription"})
      \cup Starred(R, {"User", "Pairing", "GameResult", "Appeal", "Lesson", "Invoice", "Payment",
                       "AuditLog"})
      \cup Open(R, {"Federation", "Region", "Arbiter", "Puzzle"} \cup Rating3),
  ARBITER |->
    Columns("Tournament", {"status"}) \cup Columns("Appeal", {"status", "decision"})
      \cup Starred(CRU, {"Round", "Pairing", "GameResult"})
      \cup Starred(RU, {"TournamentSection", "Registration"})
      \cup Starred(R, {"Player", "Arbiter", "Move", "FairPlayCase"})
      \cup Open(R, Units3 \cup Rating3 \cup {"Puzzle"}),
  COACH |->
    Open(CR, {"Puzzle"}) \cup Starred(CRUD, {"Lesson"}) \cup Starred(RU, {"Coach"})
      \cup Starred(R, {"Player", "ClubMembership", "Registration", "Appeal", "OnlineGame", "Move",
                       "PuzzleAttempt", "Student", "Invoice", "Payment"})
      \cup Open(R, Units3 \cup Play5 \cup Rating3),
  SCHOOL_TEACHER |->
    Starred(CRUD, {"SchoolClass", "Student"}) \cup Starred(CRU, {"Lesson"})
      \cup Starred(R, {"Player", "PuzzleAttempt", "School"})
      \cup Open(R, Units3 \cup Play5 \cup Rating3 \cup {"Puzzle"}),
  PLAYER |->
    OfFamily \cup Open(R, {"Arbiter"})
      \cup Starred(RU, {"User", "Player"}) \cup Starred(RD, {"Session"}) \cup Starred(CRD, {"Registration"})
      \cup Starred(CR, {"GameResult", "Appeal", "OnlineGame", "Move", "PuzzleAttempt", "Payment"})
      \cup Starred(R, {"FairPlayCase"}),
  PARENT |->
    OfFamily \cup Starred(RD, {"Session"}) \cup Starred(CR, {"Payment"})
      \cup Starred(R, {"User", "Player", "Registration", "GameResult", "Appeal", "OnlineGame", "Move",
                       "PuzzleAttempt"}),
  SPECTATOR |->
    Starred(R, {"Player"})
      \cup Open(R, Units3 \cup Play5 \cup Rating3
                   \cup {"Arbiter", "OnlineGame", "Move", "Puzzle", "Coach"})]

Roles == DOMAIN POLICY
ResourceTypes == {g.resource : g \in UNION {POLICY[role] : role \in Roles}}

-----------------------------------------------------------------------------

\* A row without a scope is narrow, unless it is the super-administrator's.
ToScope(role, scopeType, scopeId) ==
  IF scopeType # Null /\ scopeId # Null THEN [kind |-> scopeType, id |-> scopeId]
  ELSE [kind |-> IF role = "SUPER_ADMIN" THEN "global" ELSE "own", id |-> Null]

\* A unit or an owner that is not known covers nothing.
ScopeCovers(scope, user, resource) ==
  CASE scope.kind = "global" -> TRUE
    [] scope.kind = "own" -> resource.owner = user
    [] OTHER -> resource.units[scope.kind] = scope.id

GrantsFor(a, action, type) == {g \in POLICY[a.role] : g.resource = type /\ action \in g.actions}

\* rbac.service.can
Can(user, assignments, action, resource) ==
  \E a \in assignments : \E g \in GrantsFor(a, action, resource.type) :
    (action = "read" /\ ~g.scoped) \/ ScopeCovers(a.scope, user, resource)

\* rbac.port.hasCapability
HasCapability(assignments, action, type) ==
  \E a \in assignments : GrantsFor(a, action, type) # {}

All == {"*"}

\* rbac.service.writableFields: a grant without columns gives them all.
WritableFields(user, assignments, resource) ==
  LET grants == UNION {GrantsFor(a, "update", resource.type) :
                         a \in {b \in assignments : ScopeCovers(b.scope, user, resource)}}
  IN IF \E g \in grants : g.fields = {} THEN All ELSE UNION {g.fields : g \in grants}

-----------------------------------------------------------------------------
(* role-grant.rules *)

ALLOWED_SCOPES == [
  SUPER_ADMIN |-> {Null}, FEDERATION_ADMIN |-> {"FEDERATION"}, REGION_ADMIN |-> {"REGION"},
  CLUB_ADMIN |-> {"CLUB"}, SCHOOL_TEACHER |-> {"SCHOOL"}, ARBITER |-> {"TOURNAMENT", Null},
  COACH |-> {"CLUB", "SCHOOL", Null}, PLAYER |-> {Null}, PARENT |-> {Null}, SPECTATOR |-> {Null}]

Public == {"COACH", "PLAYER", "PARENT", "SPECTATOR"}
DELEGABLE == [role \in Roles |->
  CASE role = "SUPER_ADMIN" -> Roles
    [] role = "FEDERATION_ADMIN" -> Roles \ {"SUPER_ADMIN", "FEDERATION_ADMIN"}
    [] role = "REGION_ADMIN" -> Public \cup {"CLUB_ADMIN", "ARBITER"}
    [] role = "CLUB_ADMIN" -> Public
    [] OTHER -> {}]

CanDelegate(own, role) == \E mine \in own : role \in DELEGABLE[mine]

CanGrant(own, role, scopeType, scopeId) ==
  /\ CanDelegate(own, role)
  /\ scopeType \in ALLOWED_SCOPES[role]
  /\ (scopeType = Null) <=> (scopeId = Null)

IsLast(role, scopeType, count) == role = "SUPER_ADMIN" /\ scopeType = Null /\ count <= 1

CanRevoke(own, role, scopeType, count) ==
  CanDelegate(own, role) /\ ~IsLast(role, scopeType, count)

CanChangeStatus(actor, user, isGlobalSuperAdmin, status, count) ==
  \/ status = "ACTIVE"
  \/ actor # user /\ ~(isGlobalSuperAdmin /\ count <= 1)

-----------------------------------------------------------------------------
(* Properties. *)

\* The three answers of the layer agree, for every user, assignments and resource:
\* what the service allows on a resource, the guard did not refuse before it was
\* known; columns may be written exactly if an update may; and a resource that
\* names no owner and no unit is changed by nobody whose every assignment is narrow
\* (hasCapability, can, writableFields, "unknown is not covered").
AccessIsSound(user, assignments, resource) ==
  /\ \A action \in CRUD :
       Can(user, assignments, action, resource) => HasCapability(assignments, action, resource.type)
  /\ Can(user, assignments, "update", resource) <=> WritableFields(user, assignments, resource) # {}
  /\ (\A u \in Units : resource.units[u] = Null) /\ resource.owner = Null =>
       \A action \in CRUD \ {"read"} :
         Can(user, assignments, action, resource) => \E a \in assignments : a.scope.kind = "global"

=============================================================================
