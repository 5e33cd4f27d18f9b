------------------------------ MODULE Sessions ------------------------------
(***************************************************************************)
(* The account of one person (modules/identity: auth, token, mfa): its     *)
(* password and status, the links sent to it, its second factor, and the   *)
(* refresh tokens that keep its browsers signed in.                        *)
(*                                                                         *)
(* Passwords are numbered as they are chosen and backup codes as they are  *)
(* given out.  A token is a row of the table; all the tokens that descend  *)
(* from one sign-in are a family, named by the first of them.  A rotation  *)
(* is a SERIALIZABLE transaction: its snapshot and its commit are two      *)
(* steps and it aborts if a row it writes was written in between.  Every   *)
(* other UPDATE is READ COMMITTED: it finds its rows in one step and       *)
(* writes them in the next, and a row inserted in between escapes it.      *)
(* Rate limits are in LoginLimits, roles in RoleAdmin; access tokens live  *)
(* fifteen minutes whatever happens and are left out.                      *)
(***************************************************************************)
EXTENDS Integers, Sequences, FiniteSets

CONSTANTS
  Requests,     \* slots for requests in flight
  AppCodes,     \* the codes an authenticator application shows
  Null,
  MaxTokens,    \* bound: no further token is issued
  MaxPasswords, \* bound: no further password is chosen
  MaxLinks,     \* bound: no further link is sent
  MaxCodes      \* bound: no further backup codes are given out

VARIABLES
  account,   \* the User row
  tokens,    \* the RefreshToken rows
  links,     \* the emailverify and pwdreset keys in Redis
  pending,   \* the totp:pending key in Redis
  spent,     \* the totp:used keys in Redis
  passwords, \* passwords chosen so far
  sent,      \* links sent so far
  given,     \* backup codes given out so far
  uses,      \* history: how often each link set a password
  redeemed,  \* history: how often each backup code was accepted
  ended,     \* history: families that were signed out
  reused,    \* history: families of which a used token came back
  smooth,    \* history: one request at a time so far, and none died half-way
  pc, loc

redis   == <<links, pending, spent>>
counts  == <<passwords, sent, given>>
history == <<uses, redeemed, ended, reused>>
vars    == <<account, tokens, redis, counts, history, smooth, pc, loc>>

Barred == {"SUSPENDED", "BANNED"}
Blank == [kind |-> "none", row |-> Null, typed |-> 0, code |-> Null, link |-> 0,
          token |-> 0, seen |-> Null, rows |-> {}, status |-> Null]

Goto(r, label, l) ==
  /\ pc' = [pc EXCEPT ![r] = label]
  /\ loc' = [loc EXCEPT ![r] = l]

Reply(r) == Goto(r, "idle", Blank)

Begin(r, label, l) ==
  /\ pc[r] = "idle"
  /\ Goto(r, label, l)
  /\ smooth' = (smooth /\ \A q \in Requests : pc[q] = "idle")

Local == UNCHANGED <<account, tokens, redis, counts, history>>

Token(family, under) ==
  [family |-> family, used |-> FALSE, revoked |-> FALSE, expired |-> FALSE, under |-> under]

Nobody == [status |-> "NONE", password |-> 0, outdated |-> TRUE, totp |-> FALSE, codes |-> {}]
\* An account whose address is confirmed, and which may have a second factor.
Member(codes) == [status |-> "ACTIVE", password |-> 1, outdated |-> FALSE,
                  totp |-> codes # {}, codes |-> codes]

\* The program may be met with the address unknown, or with an account signed in.
Init ==
  /\ \/ account = Nobody /\ tokens = <<>> /\ passwords = 0 /\ given = 0
     \/ account = Member({}) /\ tokens = <<Token(1, 1)>> /\ passwords = 1 /\ given = 0
     \/ account = Member({1, 2}) /\ tokens = <<Token(1, 1)>> /\ passwords = 1 /\ given = 2
  /\ links = {} /\ pending = FALSE /\ spent = {}
  /\ sent = 0
  /\ uses = [l \in 1..MaxLinks |-> 0]
  /\ redeemed = [c \in 1..MaxCodes |-> 0]
  /\ ended = {} /\ reused = {} /\ smooth = TRUE
  /\ pc = [r \in Requests |-> "idle"]
  /\ loc = [r \in Requests |-> Blank]

-----------------------------------------------------------------------------
(* register, and the token pair every sign-in ends with *)

BeginRegister(r) ==
  /\ account.status = "NONE" \* an address in use is refused at once
  /\ Begin(r, "create", [Blank EXCEPT !.kind = "register"])
  /\ Local

\* users.email is unique: of two registrations one fails.
CreateUser(r) ==
  /\ pc[r] = "create"
  /\ IF account.status # "NONE"
     THEN Reply(r) /\ UNCHANGED <<account, passwords>>
     ELSE /\ passwords' = passwords + 1
          /\ account' = [account EXCEPT !.status = "PENDING_VERIFICATION", !.password = passwords',
                                        !.outdated = FALSE]
          /\ Goto(r, "invite", [loc[r] EXCEPT !.typed = passwords'])
  /\ UNCHANGED <<tokens, redis, sent, given, history, smooth>>

SendVerification(r) ==
  /\ pc[r] = "invite" /\ sent < MaxLinks
  /\ sent' = sent + 1
  /\ links' = links \cup {[id |-> sent', for |-> "verify"]}
  /\ Goto(r, "issue", loc[r])
  /\ UNCHANGED <<account, tokens, pending, spent, passwords, given, history, smooth>>

IssueNewFamily(r) ==
  /\ pc[r] = "issue" /\ Len(tokens) < MaxTokens
  /\ tokens' = Append(tokens, Token(Len(tokens) + 1, loc[r].typed))
  /\ Reply(r)
  /\ UNCHANGED <<account, redis, counts, history, smooth>>

-----------------------------------------------------------------------------
(* login *)

BackupCodes == 1..given

BeginLogin(r) ==
  /\ account.status # "NONE"
  /\ \E typed \in 1..passwords, code \in AppCodes \cup BackupCodes \cup {Null} :
       Begin(r, "verify", [Blank EXCEPT !.kind = "login", !.row = account, !.typed = typed,
                                        !.code = code])
  /\ Local

\* The row was read before the hash was computed.
VerifyPassword(r) ==
  LET l == loc[r] IN
  /\ pc[r] = "verify"
  /\ CASE l.typed # l.row.password \/ l.row.status \in Barred -> Reply(r)
       [] l.row.totp /\ l.code = Null -> Reply(r)
       [] OTHER -> Goto(r, IF l.row.totp THEN "code" ELSE "rehash", l)
  /\ Local /\ UNCHANGED smooth

AfterCode(r) == Goto(r, IF loc[r].kind = "login" THEN "rehash" ELSE "disable", loc[r])

\* SET NX: a code of the application is accepted once.
VerifyAppCode(r) ==
  /\ pc[r] = "code" /\ loc[r].code \in AppCodes
  /\ IF loc[r].code \in spent
     THEN Reply(r) /\ UNCHANGED spent
     ELSE AfterCode(r) /\ spent' = spent \cup {loc[r].code}
  /\ UNCHANGED <<account, tokens, links, pending, counts, history, smooth>>

\* The code is struck off the list that was read with the row.
CodesLeft(row, code) == row.codes \ {code}

VerifyBackupCode(r) ==
  LET l == loc[r] IN
  /\ pc[r] = "code" /\ l.code \notin AppCodes
  /\ IF l.code \notin l.row.codes
     THEN Reply(r) /\ UNCHANGED <<account, redeemed>>
     ELSE /\ account' = [account EXCEPT !.codes = CodesLeft(l.row, l.code)]
          /\ redeemed' = [redeemed EXCEPT ![l.code] = @ + 1]
          /\ AfterCode(r)
  /\ UNCHANGED <<tokens, redis, counts, uses, ended, reused, smooth>>

\* The hash of what was typed, if the parameters have been raised since.
Rehash(r) ==
  LET l == loc[r] IN
  /\ pc[r] = "rehash"
  /\ account' = IF l.row.outdated THEN [account EXCEPT !.password = l.typed, !.outdated = FALSE]
                ELSE account
  /\ Goto(r, "issue", l)
  /\ UNCHANGED <<tokens, redis, counts, history, smooth>>

-----------------------------------------------------------------------------
(* rotate *)

\* A browser sends the token of its cookie, which may be one it has used already.
BeginRotate(r) ==
  /\ \E t \in DOMAIN tokens :
       Begin(r, "rotate", [Blank EXCEPT !.kind = "refresh", !.token = t, !.seen = tokens])
  /\ Local

LiveIn(rows, family) == {t \in DOMAIN rows : rows[t].family = family /\ ~rows[t].revoked}

Revoked(rows, which) ==
  [t \in DOMAIN rows |-> IF t \in which THEN [rows[t] EXCEPT !.revoked = TRUE] ELSE rows[t]]

Used(rows, t) ==
  [rows EXCEPT ![t].used = TRUE, ![t].revoked = TRUE]

\* Compare-and-set, and the successor in the same family.
Successor(rows, t) == Append(Used(rows, t), Token(rows[t].family, rows[t].under))

\* No row that was live in the snapshot has been written since.
Untouched(which) == \A t \in which : ~tokens[t].revoked

NothingOnReuse(rows, found) == rows
\* The rows the snapshot has of the family.  The error is raised after the commit,
\* or this would be rolled back.
RevokedOnReuse(rows, found) == Revoked(rows, found)

Rotate(r) ==
  LET l == loc[r]
      row == l.seen[l.token]
      family == row.family
      found == LiveIn(l.seen, family)
  IN
  /\ pc[r] = "rotate"
  /\ Reply(r)
  /\ \/ /\ row.used \/ row.revoked
        /\ Untouched(found)
        /\ tokens' = RevokedOnReuse(tokens, found)
        /\ reused' = reused \cup {family}
     \/ /\ ~row.used /\ ~row.revoked /\ ~row.expired
        /\ Untouched({l.token})
        /\ Len(tokens) < MaxTokens
        /\ tokens' = Successor(tokens, l.token)
        /\ UNCHANGED reused
     \/ /\ ~row.used /\ ~row.revoked /\ row.expired
        /\ UNCHANGED <<tokens, reused>>
     \/ \* could not serialize access
        /\ ~Untouched(found)
        /\ UNCHANGED <<tokens, reused>>
  /\ UNCHANGED <<account, redis, counts, uses, redeemed, ended, smooth>>

-----------------------------------------------------------------------------
(* Revocation, by family or of the whole account. *)

BeginLogout(r) ==
  /\ \E t \in DOMAIN tokens :
       Begin(r, "scan", [Blank EXCEPT !.kind = "logout", !.token = tokens[t].family])
  /\ Local

BeginLogoutAll(r) ==
  /\ account.status # "NONE"
  /\ Begin(r, "scan", [Blank EXCEPT !.kind = "logoutAll"])
  /\ Local

\* setStatus of an official: the status and the tokens in one transaction.
BeginSetStatus(r) ==
  /\ account.status # "NONE"
  /\ \E s \in Barred \cup {"ACTIVE"} :
       Begin(r, "scan", [Blank EXCEPT !.kind = "status", !.status = s])
  /\ Local

\* The rows an UPDATE finds.
Concerned(l) ==
  CASE l.kind = "logout" -> LiveIn(tokens, l.token)
    [] l.kind = "status" /\ l.status = "ACTIVE" -> {}
    [] OTHER -> {t \in DOMAIN tokens : ~tokens[t].revoked}

RevokeScan(r) ==
  /\ pc[r] = "scan"
  /\ Goto(r, "revoke", [loc[r] EXCEPT !.rows = Concerned(loc[r])])
  /\ Local /\ UNCHANGED smooth

Families == {tokens[t].family : t \in DOMAIN tokens}

RevokeApply(r) ==
  LET l == loc[r] IN
  /\ pc[r] = "revoke"
  /\ tokens' = Revoked(tokens, l.rows)
  /\ account' = IF l.kind = "status" THEN [account EXCEPT !.status = l.status] ELSE account
  /\ ended' = CASE l.kind = "logout" -> ended \cup {l.token}
                [] l.kind = "logoutAll" -> ended \cup Families
                [] OTHER -> ended
  /\ Reply(r)
  /\ UNCHANGED <<redis, counts, uses, redeemed, reused, smooth>>

-----------------------------------------------------------------------------
(* Passwords and links. *)

BeginChange(r) ==
  /\ account.status # "NONE"
  /\ \E typed \in 1..passwords :
       Begin(r, "check", [Blank EXCEPT !.kind = "change", !.row = account, !.typed = typed])
  /\ Local

CheckCurrent(r) ==
  /\ pc[r] = "check"
  /\ IF loc[r].typed = loc[r].row.password THEN Goto(r, "write", loc[r]) ELSE Reply(r)
  /\ Local /\ UNCHANGED smooth

\* requestPasswordReset, which always answers the same.
RequestReset(r) ==
  /\ pc[r] = "idle" /\ account.status # "NONE" /\ sent < MaxLinks
  /\ sent' = sent + 1
  /\ links' = links \cup {[id |-> sent', for |-> "reset"]}
  /\ UNCHANGED <<account, tokens, pending, spent, passwords, given, history, smooth, pc, loc>>

\* GETDEL
LinksWithout(k) == links \ {k}

BeginReset(r) ==
  /\ \E k \in {x \in links : x.for = "reset"} :
       /\ Begin(r, "write", [Blank EXCEPT !.kind = "reset", !.link = k.id])
       /\ links' = LinksWithout(k)
  /\ UNCHANGED <<account, tokens, pending, spent, counts, history>>

WritePassword(r) ==
  LET l == loc[r] IN
  /\ pc[r] = "write" /\ passwords < MaxPasswords
  /\ passwords' = passwords + 1
  /\ account' = [account EXCEPT !.password = passwords', !.outdated = FALSE]
  /\ uses' = IF l.kind = "reset" THEN [uses EXCEPT ![l.link] = @ + 1] ELSE uses
  /\ Goto(r, "scan", l)
  /\ UNCHANGED <<tokens, redis, sent, given, redeemed, ended, reused, smooth>>

\* verifyEmail: GET, DEL, then the row.
BeginVerify(r) ==
  /\ \E k \in {x \in links : x.for = "verify"} :
       Begin(r, "unlink", [Blank EXCEPT !.kind = "verify", !.link = k.id])
  /\ Local

Unlink(r) ==
  /\ pc[r] = "unlink"
  /\ links' = {k \in links : k.id # loc[r].link}
  /\ Goto(r, "mark", loc[r])
  /\ UNCHANGED <<account, tokens, pending, spent, counts, history, smooth>>

MarkEmailVerified(r) ==
  /\ pc[r] = "mark"
  /\ account' = [account EXCEPT !.status = "ACTIVE"]
  /\ Reply(r)
  /\ UNCHANGED <<tokens, redis, counts, history, smooth>>

-----------------------------------------------------------------------------
(* The second factor. *)

Enroll(r) ==
  /\ pc[r] = "idle" /\ account.status # "NONE"
  /\ pending' = TRUE
  /\ UNCHANGED <<account, tokens, links, spent, counts, history, smooth, pc, loc>>

BeginActivate(r) ==
  /\ pending
  /\ Begin(r, "enable", [Blank EXCEPT !.kind = "activate"])
  /\ Local

\* Two codes stand for the ten.
EnableTotp(r) ==
  /\ pc[r] = "enable" /\ given + 2 <= MaxCodes
  /\ given' = given + 2
  /\ account' = [account EXCEPT !.totp = TRUE, !.codes = {given + 1, given + 2}]
  /\ Goto(r, "settle", loc[r])
  /\ UNCHANGED <<tokens, redis, passwords, sent, history, smooth>>

DropPending(r) ==
  /\ pc[r] = "settle"
  /\ pending' = FALSE
  /\ Reply(r)
  /\ UNCHANGED <<account, tokens, links, spent, counts, history, smooth>>

BeginDisable(r) ==
  /\ account.totp
  /\ \E code \in AppCodes \cup BackupCodes :
       Begin(r, "code", [Blank EXCEPT !.kind = "disable", !.row = account, !.code = code])
  /\ Local

DisableTotp(r) ==
  /\ pc[r] = "disable"
  /\ account' = [account EXCEPT !.totp = FALSE, !.codes = {}]
  /\ Reply(r)
  /\ UNCHANGED <<tokens, redis, counts, history, smooth>>

-----------------------------------------------------------------------------

\* Thirty days pass over a token; the hash parameters are raised.
Expire(t) ==
  /\ ~tokens[t].expired
  /\ tokens' = [tokens EXCEPT ![t].expired = TRUE]
  /\ UNCHANGED <<account, redis, counts, history, smooth, pc, loc>>

RaiseParameters ==
  /\ account.status # "NONE" /\ ~account.outdated
  /\ account' = [account EXCEPT !.outdated = TRUE]
  /\ UNCHANGED <<tokens, redis, counts, history, smooth, pc, loc>>

\* The process dies, or an await throws.
Crash(r) ==
  /\ pc[r] # "idle"
  /\ Reply(r)
  /\ smooth' = FALSE
  /\ Local

\* What a request may be, in three groups, and what goes on with one that began.
TokenRequest(r) == BeginRotate(r) \/ BeginLogout(r) \/ BeginLogoutAll(r) \/ BeginSetStatus(r)
AccountRequest(r) ==
  \/ BeginRegister(r) \/ BeginLogin(r) \/ BeginChange(r)
  \/ RequestReset(r) \/ BeginReset(r) \/ BeginVerify(r)
FactorRequest(r) == Enroll(r) \/ BeginActivate(r) \/ BeginDisable(r)

Continue(r) ==
  \/ CreateUser(r) \/ SendVerification(r) \/ IssueNewFamily(r)
  \/ VerifyPassword(r) \/ VerifyAppCode(r) \/ VerifyBackupCode(r) \/ Rehash(r)
  \/ Rotate(r) \/ RevokeScan(r) \/ RevokeApply(r)
  \/ CheckCurrent(r) \/ WritePassword(r) \/ Unlink(r) \/ MarkEmailVerified(r)
  \/ EnableTotp(r) \/ DropPending(r) \/ DisableTotp(r)
  \/ Crash(r)

Step(r) == TokenRequest(r) \/ AccountRequest(r) \/ FactorRequest(r) \/ Continue(r)

Next ==
  \/ \E r \in Requests : Step(r)
  \/ \E t \in DOMAIN tokens : Expire(t)
  \/ RaiseParameters

Spec == Init /\ [][Next]_vars

-----------------------------------------------------------------------------
(* Properties. *)

Kinds == {"none", "register", "login", "refresh", "logout", "logoutAll", "status",
          "change", "reset", "verify", "activate", "disable"}
Labels == {"idle", "create", "invite", "issue", "verify", "code", "rehash", "rotate", "scan",
           "revoke", "check", "write", "unlink", "mark", "enable", "settle", "disable"}
Statuses == {"NONE", "PENDING_VERIFICATION", "ACTIVE"} \cup Barred

AccountRow == [status : Statuses, password : Nat, outdated : BOOLEAN, totp : BOOLEAN,
               codes : SUBSET Nat]
TokenRow == [family : Nat, used : BOOLEAN, revoked : BOOLEAN, expired : BOOLEAN, under : Nat]
Locals == [kind : Kinds, row : AccountRow \cup {Null}, typed : Nat,
           code : AppCodes \cup Nat \cup {Null}, link : Nat, token : Nat,
           seen : Seq(TokenRow) \cup {Null}, rows : SUBSET Nat, status : Statuses \cup {Null}]

TypeOK ==
  /\ account \in AccountRow
  /\ tokens \in Seq(TokenRow)
  /\ \A t \in DOMAIN tokens :
       /\ tokens[t].family \in 1..t
       /\ tokens[t].used => tokens[t].revoked
  /\ links \subseteq [id : 1..sent, for : {"verify", "reset"}]
  /\ pending \in BOOLEAN /\ spent \subseteq AppCodes
  /\ {passwords, sent, given} \subseteq Nat
  /\ uses \in [1..MaxLinks -> Nat] /\ redeemed \in [1..MaxCodes -> Nat]
  /\ ended \cup reused \subseteq 1..Len(tokens)
  /\ smooth \in BOOLEAN
  /\ pc \in [Requests -> Labels] /\ loc \in [Requests -> Locals]

Live(t) == ~tokens[t].revoked /\ ~tokens[t].expired

\* Two tabs that refresh at once, a refresh against a logout: a family never has
\* two tokens that work (rotate).
OneLiveToken ==
  \A t, u \in DOMAIN tokens : Live(t) /\ Live(u) /\ tokens[t].family = tokens[u].family => t = u

\* Once a used token has come back no token of its family works, whatever else
\* ran at the time (rotate; the transaction must commit, then fail).
ReuseEndsFamily == \A t \in DOMAIN tokens : Live(t) => tokens[t].family \notin reused

\* A link sets one password, whoever follows it twice (resetPassword); one
\* request at a time, a backup code is accepted once, and only with the second
\* factor on.
OnceOnly ==
  /\ \A l \in DOMAIN uses : uses[l] <= 1
  /\ smooth => \A c \in DOMAIN redeemed : redeemed[c] <= 1
  /\ smooth => (account.codes # {} => account.totp)

\* One request at a time, and none dies: between requests no session has
\* outlived its logout, the password it began with or a suspension, and the
\* password is the one chosen last.
SessionsEnd ==
  smooth /\ (\A r \in Requests : pc[r] = "idle") =>
    /\ account.password = passwords
    /\ \A t \in DOMAIN tokens : Live(t) =>
         /\ tokens[t].family \notin ended
         /\ tokens[t].under = account.password
         /\ account.status \notin Barred

\* What a signed-in person counts on.
SessionsAreSound == OneLiveToken /\ ReuseEndsFamily /\ OnceOnly /\ SessionsEnd

\* A family that was logged out has no live token, and a backup code is accepted
\* once, whatever else runs.  They do not hold: PeopleDivergences.
LogoutIsFinal == \A t \in DOMAIN tokens : Live(t) => tokens[t].family \notin ended
CodesWorkOnce == \A c \in DOMAIN redeemed : redeemed[c] <= 1

\* The password is the one chosen last.  It does not hold: PeopleDivergences.
LastPasswordCounts == account.password = passwords
=============================================================================
