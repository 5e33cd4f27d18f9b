---------------------------- MODULE Sessions_proofs ----------------------------
(***************************************************************************)
(* What a signed-in person counts on, for any number of requests, tokens,  *)
(* passwords, links and codes.  The invariant has three parts.  The tokens *)
(* of a family and what the snapshots of open rotations still know of      *)
(* them; who holds a link that sets a password; and, as long as requests   *)
(* come one at a time, what the one request under way has settled.         *)
(***************************************************************************)
EXTENDS Sessions, SequenceTheorems, TLAPS

\* A family has one token that is not revoked, be it expired or not.
Unrevoked ==
  \A t, u \in DOMAIN tokens :
    ~tokens[t].revoked /\ ~tokens[u].revoked /\ tokens[t].family = tokens[u].family => t = u

\* None where a used one came back.
NoneReused == \A t \in DOMAIN tokens : ~tokens[t].revoked => tokens[t].family \notin reused

\* The snapshot of a rotation that is open: tokens were added to it and revoked since, and
\* a token that was added to a family it knows took the place of one that lived in it.
SnapshotOK(r) ==
  pc[r] = "rotate" =>
    LET seen == loc[r].seen IN
    /\ seen \in Seq(TokenRow)
    /\ loc[r].token \in 1..Len(seen)
    /\ Len(seen) <= Len(tokens)
    /\ \A t \in 1..Len(seen) :
         /\ seen[t].family = tokens[t].family /\ seen[t].under = tokens[t].under
         /\ seen[t].revoked => tokens[t].revoked
    /\ \A t \in 1..Len(tokens) :
         t > Len(seen) /\ tokens[t].family <= Len(seen) =>
           \E u \in LiveIn(seen, tokens[t].family) : tokens[u].revoked

TokensInv == Unrevoked /\ NoneReused /\ \A r \in Requests : SnapshotOK(r)

-----------------------------------------------------------------------------
(* The rows of tokens. *)

LEMMA DomainIsLength == ASSUME NEW rows \in Seq(TokenRow) PROVE DOMAIN rows = 1..Len(rows) /\ Len(rows) \in Nat
  OBVIOUS

LEMMA TokenIsRow ==
  ASSUME NEW f \in Nat, NEW u \in Nat
  PROVE  /\ Token(f, u) \in TokenRow
         /\ Token(f, u).family = f /\ Token(f, u).under = u
         /\ ~Token(f, u).used /\ ~Token(f, u).revoked /\ ~Token(f, u).expired
  BY DEF Token, TokenRow

\* A row revoked: nothing else of it changes.
LEMMA RevokedRow ==
  ASSUME NEW x \in TokenRow
  PROVE  LET y == [x EXCEPT !.revoked = TRUE] IN
         /\ y \in TokenRow
         /\ y.family = x.family /\ y.under = x.under /\ y.used = x.used /\ y.expired = x.expired
         /\ y.revoked
  BY DEF TokenRow

LEMMA RevokedRows ==
  ASSUME NEW rows \in Seq(TokenRow), NEW which
  PROVE  LET new == Revoked(rows, which) IN
         /\ new \in Seq(TokenRow) /\ Len(new) = Len(rows)
         /\ \A t \in 1..Len(rows) :
              /\ new[t].family = rows[t].family /\ new[t].under = rows[t].under
              /\ new[t].used = rows[t].used /\ new[t].expired = rows[t].expired
              /\ new[t].revoked <=> rows[t].revoked \/ t \in which
<1> DEFINE new == Revoked(rows, which)
<1>1. DOMAIN rows = 1..Len(rows) /\ Len(rows) \in Nat /\ \A t \in 1..Len(rows) : rows[t] \in TokenRow
  OBVIOUS
<1>2. new = [t \in 1..Len(rows) |-> IF t \in which THEN [rows[t] EXCEPT !.revoked = TRUE] ELSE rows[t]]
  BY <1>1 DEF Revoked
<1> HIDE DEF new
<1>3. \A t \in 1..Len(rows) : new[t] = IF t \in which THEN [rows[t] EXCEPT !.revoked = TRUE] ELSE rows[t]
  BY <1>2
<1>4. ASSUME NEW t \in 1..Len(rows)
      PROVE  /\ new[t] \in TokenRow
             /\ new[t].family = rows[t].family /\ new[t].under = rows[t].under
             /\ new[t].used = rows[t].used /\ new[t].expired = rows[t].expired
             /\ new[t].revoked <=> rows[t].revoked \/ t \in which
  <2>1. CASE t \in which
    BY <1>1, <1>3, <2>1, RevokedRow
  <2>2. CASE t \notin which
    BY <1>1, <1>3, <2>2
  <2> QED BY <2>1, <2>2
<1>5. new \in [1..Len(rows) -> TokenRow]
  BY <1>2, <1>4
<1>6. new \in Seq(TokenRow) /\ Len(new) = Len(rows)
  BY <1>1, <1>5, SeqDef, LenProperties
<1> QED BY <1>4, <1>6 DEF new

\* A rotation: the token is used up, and its successor is of the same family.
LEMMA SuccessorRows ==
  ASSUME NEW rows \in Seq(TokenRow), NEW t \in 1..Len(rows)
  PROVE  LET new == Successor(rows, t) IN
         /\ new \in Seq(TokenRow) /\ Len(new) = Len(rows) + 1
         /\ \A u \in 1..Len(rows) :
              /\ new[u].family = rows[u].family /\ new[u].under = rows[u].under
              /\ new[u].revoked <=> rows[u].revoked \/ u = t
              /\ new[u].used <=> rows[u].used \/ u = t
         /\ new[Len(rows) + 1] = Token(rows[t].family, rows[t].under)
<1> DEFINE used == Used(rows, t)
           next == Token(rows[t].family, rows[t].under)
<1>1. \A u \in 1..Len(rows) : rows[u] \in TokenRow
  OBVIOUS
<1>2. next \in TokenRow
  BY <1>1, TokenIsRow DEF TokenRow
<1>3. used = [rows EXCEPT ![t] = [rows[t] EXCEPT !.used = TRUE, !.revoked = TRUE]]
  BY DEF Used
<1>4. LET y == [rows[t] EXCEPT !.used = TRUE, !.revoked = TRUE] IN
      /\ y \in TokenRow /\ y.family = rows[t].family /\ y.under = rows[t].under
      /\ y.used /\ y.revoked
  BY <1>1 DEF TokenRow
<1>5. /\ used \in Seq(TokenRow) /\ Len(used) = Len(rows)
      /\ \A u \in 1..Len(rows) :
           used[u] = IF u = t THEN [rows[t] EXCEPT !.used = TRUE, !.revoked = TRUE] ELSE rows[u]
  BY <1>3, <1>4
<1>6. Successor(rows, t) = Append(used, next)
  BY DEF Successor
<1> HIDE DEF used, next
<1>7. /\ Append(used, next) \in Seq(TokenRow) /\ Len(Append(used, next)) = Len(rows) + 1
      /\ Append(used, next)[Len(rows) + 1] = next
      /\ \A u \in 1..Len(rows) : Append(used, next)[u] = used[u]
  BY <1>2, <1>5
<1>8. ASSUME NEW u \in 1..Len(rows)
      PROVE  /\ used[u].family = rows[u].family /\ used[u].under = rows[u].under
             /\ used[u].revoked <=> rows[u].revoked \/ u = t
             /\ used[u].used <=> rows[u].used \/ u = t
  <2>1. CASE u = t
    BY <1>4, <1>5, <2>1
  <2>2. CASE u # t
    BY <1>5, <2>2
  <2> QED BY <2>1, <2>2
<1> QED BY <1>6, <1>7, <1>8 DEF next

\* A new family, named by its first token.
LEMMA NewFamilyRows ==
  ASSUME NEW rows \in Seq(TokenRow), NEW under \in Nat
  PROVE  LET new == Append(rows, Token(Len(rows) + 1, under)) IN
         /\ new \in Seq(TokenRow) /\ Len(new) = Len(rows) + 1
         /\ \A u \in 1..Len(rows) : new[u] = rows[u]
         /\ new[Len(rows) + 1] = Token(Len(rows) + 1, under)
<1>1. Token(Len(rows) + 1, under) \in TokenRow
  BY TokenIsRow
<1> QED BY <1>1

-----------------------------------------------------------------------------
(* Type correctness. *)

ControlOK == pc \in [Requests -> Labels] /\ loc \in [Requests -> Locals]

\* The tokens, as rows: every family is named by its first token, and who was used was
\* revoked.
RowsOK(rows) ==
  /\ rows \in Seq(TokenRow)
  /\ \A t \in 1..Len(rows) : rows[t].family \in 1..t /\ (rows[t].used => rows[t].revoked)

DataOK ==
  /\ account \in AccountRow
  /\ RowsOK(tokens)
  /\ links \subseteq [id : 1..sent, for : {"verify", "reset"}]
  /\ pending \in BOOLEAN /\ spent \subseteq AppCodes
  /\ passwords \in Nat /\ sent \in Nat /\ given \in Nat
  /\ uses \in [1..MaxLinks -> Nat] /\ redeemed \in [1..MaxCodes -> Nat]
  /\ ended \subseteq 1..Len(tokens) /\ reused \subseteq 1..Len(tokens)
  /\ smooth \in BOOLEAN

LEMMA TypeParts == TypeOK <=> DataOK /\ ControlOK
  BY DomainIsLength DEF TypeOK, DataOK, ControlOK, RowsOK

LEMMA BlankOK == Blank \in Locals /\ "idle" \in Labels
  BY DEF Blank, Locals, Kinds, Labels

LEMMA GotoControl ==
  ASSUME ControlOK, NEW r \in Requests, NEW label \in Labels, NEW l \in Locals,
         Goto(r, label, l)
  PROVE  ControlOK'
  BY DEF ControlOK, Goto

LEMMA ReplyControl ==
  ASSUME ControlOK, NEW r \in Requests, Reply(r)
  PROVE  ControlOK'
  BY BlankOK, GotoControl DEF Reply

\* Every step of a request goes to a label, with locals.
LEMMA RequestsStart ==
  ASSUME DataOK, NEW r \in Requests,
         TokenRequest(r) \/ AccountRequest(r) \/ FactorRequest(r), ControlOK
  PROVE  ControlOK'
<1> USE DEF Begin
<1>1. /\ Blank \in Locals
      /\ tokens \in Seq(TokenRow) /\ \A t \in 1..Len(tokens) : tokens[t].family \in Nat
      /\ DOMAIN tokens = 1..Len(tokens) /\ Len(tokens) \in Nat
      /\ account \in AccountRow
      /\ \A k \in links : k.id \in Nat
  BY BlankOK, DomainIsLength DEF DataOK, RowsOK
<1>2. CASE BeginRotate(r)
  <2>1. PICK t \in DOMAIN tokens :
          Goto(r, "rotate", [Blank EXCEPT !.kind = "refresh", !.token = t, !.seen = tokens])
    BY <1>2 DEF BeginRotate
  <2>2. t \in Nat
    BY <1>1
  <2>3. [Blank EXCEPT !.kind = "refresh", !.token = t, !.seen = tokens] \in Locals
    BY <1>1, <2>2 DEF Locals, Blank, Kinds
  <2> QED BY <2>1, <2>3, GotoControl DEF Labels
<1>3. CASE BeginLogout(r)
  <2>1. PICK t \in DOMAIN tokens :
          Goto(r, "scan", [Blank EXCEPT !.kind = "logout", !.token = tokens[t].family])
    BY <1>3 DEF BeginLogout
  <2>2. tokens[t].family \in Nat
    BY <1>1
  <2>3. [Blank EXCEPT !.kind = "logout", !.token = tokens[t].family] \in Locals
    BY <2>2 DEF Locals, Blank, Kinds
  <2> QED BY <2>1, <2>3, GotoControl DEF Labels
<1>4. CASE BeginLogoutAll(r)
  <2>1. [Blank EXCEPT !.kind = "logoutAll"] \in Locals
    BY DEF Locals, Blank, Kinds
  <2> QED BY <1>4, <2>1, GotoControl DEF BeginLogoutAll, Labels
<1>5. CASE BeginSetStatus(r)
  <2>1. PICK s \in Barred \cup {"ACTIVE"} :
          Goto(r, "scan", [Blank EXCEPT !.kind = "status", !.status = s])
    BY <1>5 DEF BeginSetStatus
  <2>2. [Blank EXCEPT !.kind = "status", !.status = s] \in Locals
    BY DEF Locals, Blank, Kinds, Statuses, Barred
  <2> QED BY <2>1, <2>2, GotoControl DEF Labels
<1>6. CASE BeginRegister(r)
  <2>1. [Blank EXCEPT !.kind = "register"] \in Locals
    BY DEF Locals, Blank, Kinds
  <2> QED BY <1>6, <2>1, GotoControl DEF BeginRegister, Labels
<1>7. CASE BeginLogin(r)
  <2>1. PICK typed \in 1..passwords, code \in AppCodes \cup BackupCodes \cup {Null} :
          Goto(r, "verify", [Blank EXCEPT !.kind = "login", !.row = account, !.typed = typed,
                                          !.code = code])
    BY <1>7 DEF BeginLogin
  <2>2. typed \in Nat /\ code \in AppCodes \cup Nat \cup {Null}
    BY DEF DataOK, BackupCodes
  <2>3. [Blank EXCEPT !.kind = "login", !.row = account, !.typed = typed, !.code = code] \in Locals
    BY <1>1, <2>2 DEF Locals, Blank, Kinds
  <2> QED BY <2>1, <2>3, GotoControl DEF Labels
<1>8. CASE BeginChange(r)
  <2>1. PICK typed \in 1..passwords :
          Goto(r, "check", [Blank EXCEPT !.kind = "change", !.row = account, !.typed = typed])
    BY <1>8 DEF BeginChange
  <2>2. typed \in Nat
    BY DEF DataOK
  <2>3. [Blank EXCEPT !.kind = "change", !.row = account, !.typed = typed] \in Locals
    BY <1>1, <2>2 DEF Locals, Blank, Kinds
  <2> QED BY <2>1, <2>3, GotoControl DEF Labels
<1>9. CASE RequestReset(r) \/ Enroll(r)
  BY <1>9 DEF RequestReset, Enroll, ControlOK
<1>10. CASE BeginReset(r)
  <2>1. PICK k \in links : Goto(r, "write", [Blank EXCEPT !.kind = "reset", !.link = k.id])
    BY <1>10 DEF BeginReset
  <2>2. [Blank EXCEPT !.kind = "reset", !.link = k.id] \in Locals
    BY <1>1 DEF Locals, Blank, Kinds
  <2> QED BY <2>1, <2>2, GotoControl DEF Labels
<1>11. CASE BeginVerify(r)
  <2>1. PICK k \in links : Goto(r, "unlink", [Blank EXCEPT !.kind = "verify", !.link = k.id])
    BY <1>11 DEF BeginVerify
  <2>2. [Blank EXCEPT !.kind = "verify", !.link = k.id] \in Locals
    BY <1>1 DEF Locals, Blank, Kinds
  <2> QED BY <2>1, <2>2, GotoControl DEF Labels
<1>12. CASE BeginActivate(r)
  <2>1. [Blank EXCEPT !.kind = "activate"] \in Locals
    BY DEF Locals, Blank, Kinds
  <2> QED BY <1>12, <2>1, GotoControl DEF BeginActivate, Labels
<1>13. CASE BeginDisable(r)
  <2>1. PICK code \in AppCodes \cup BackupCodes :
          Goto(r, "code", [Blank EXCEPT !.kind = "disable", !.row = account, !.code = code])
    BY <1>13 DEF BeginDisable
  <2>2. code \in AppCodes \cup Nat \cup {Null}
    BY DEF DataOK, BackupCodes
  <2>3. [Blank EXCEPT !.kind = "disable", !.row = account, !.code = code] \in Locals
    BY <1>1, <2>2 DEF Locals, Blank, Kinds
  <2> QED BY <2>1, <2>3, GotoControl DEF Labels
<1> QED
  BY <1>2, <1>3, <1>4, <1>5, <1>6, <1>7, <1>8, <1>9, <1>10, <1>11, <1>12, <1>13
     DEF TokenRequest, AccountRequest, FactorRequest

LEMMA RequestsContinue ==
  ASSUME DataOK, ControlOK, NEW r \in Requests, Continue(r)
  PROVE  ControlOK'
<1>1. /\ loc[r] \in Locals /\ Len(tokens) \in Nat /\ DOMAIN tokens = 1..Len(tokens)
      /\ passwords + 1 \in Nat
  BY DomainIsLength DEF ControlOK, DataOK, RowsOK
<1>2. CASE CreateUser(r)
  <2>1. [loc[r] EXCEPT !.typed = passwords + 1] \in Locals
    BY <1>1 DEF Locals
  <2>2. Reply(r) \/ Goto(r, "invite", [loc[r] EXCEPT !.typed = passwords + 1])
    BY <1>2 DEF CreateUser
  <2> QED BY <2>1, <2>2, GotoControl, ReplyControl DEF Labels
<1>3. CASE RevokeScan(r)
  <2>1. Concerned(loc[r]) \subseteq Nat
    BY <1>1 DEF Concerned, LiveIn
  <2>2. [loc[r] EXCEPT !.rows = Concerned(loc[r])] \in Locals
    BY <1>1, <2>1 DEF Locals
  <2> QED BY <1>3, <2>2, GotoControl DEF RevokeScan, Labels
<1>4. CASE VerifyAppCode(r) \/ VerifyBackupCode(r)
  <2>1. Reply(r) \/ AfterCode(r)
    BY <1>4 DEF VerifyAppCode, VerifyBackupCode
  <2> QED BY <1>1, <2>1, GotoControl, ReplyControl DEF AfterCode, Labels
<1>5. CASE VerifyPassword(r)
  <2>1. Reply(r) \/ \E label \in {"code", "rehash"} : Goto(r, label, loc[r])
    BY <1>5 DEF VerifyPassword
  <2> QED BY <1>1, <2>1, GotoControl, ReplyControl DEF Labels
<1>6. CASE SendVerification(r) \/ Rehash(r)
  BY <1>1, <1>6, GotoControl DEF SendVerification, Rehash, Labels
<1>7. CASE WritePassword(r) \/ Unlink(r) \/ EnableTotp(r)
  BY <1>1, <1>7, GotoControl DEF WritePassword, Unlink, EnableTotp, Labels
<1>8. CASE CheckCurrent(r)
  BY <1>1, <1>8, GotoControl, ReplyControl DEF CheckCurrent, Labels
<1>9. CASE \/ IssueNewFamily(r) \/ Rotate(r) \/ RevokeApply(r) \/ MarkEmailVerified(r)
           \/ DropPending(r) \/ DisableTotp(r) \/ Crash(r)
  BY <1>9, ReplyControl
     DEF IssueNewFamily, Rotate, RevokeApply, MarkEmailVerified, DropPending, DisableTotp, Crash
<1> QED BY <1>2, <1>3, <1>4, <1>5, <1>6, <1>7, <1>8, <1>9 DEF Continue

LEMMA NextControl ==
  ASSUME DataOK, ControlOK, Next PROVE ControlOK'
<1>1. ASSUME NEW r \in Requests, Step(r) PROVE ControlOK'
  BY <1>1, RequestsStart, RequestsContinue DEF Step
<1>2. CASE (\E t \in DOMAIN tokens : Expire(t)) \/ RaiseParameters
  BY <1>2 DEF Expire, RaiseParameters, ControlOK
<1> QED BY <1>1, <1>2 DEF Next

-----------------------------------------------------------------------------
(* What a step does to the tokens. *)

\* A rotation commits: its token, live in its snapshot, has not been written since.
Rotated(r) ==
  /\ pc[r] = "rotate" /\ reused' = reused
  /\ ~loc[r].seen[loc[r].token].revoked
  /\ Untouched({loc[r].token})
  /\ tokens' = Successor(tokens, loc[r].token)

\* One that was shown a token used or revoked: so has none that the snapshot has live.
Avenged(r) ==
  LET seen == loc[r].seen
      family == seen[loc[r].token].family
  IN
  /\ pc[r] = "rotate" /\ reused' = reused \cup {family}
  /\ Untouched(LiveIn(seen, family))
  /\ tokens' = Revoked(tokens, LiveIn(seen, family))

Opened == reused' = reused /\ \E under \in Nat : tokens' = Append(tokens, Token(Len(tokens) + 1, under))
Closed == reused' = reused /\ \E which : tokens' = Revoked(tokens, which)

LEMMA TokenSteps ==
  ASSUME DataOK, ControlOK, Next
  PROVE  \/ UNCHANGED <<tokens, reused>>
         \/ Opened \/ Closed
         \/ \E r \in Requests : Rotated(r) \/ Avenged(r)
         \/ \E t \in DOMAIN tokens : Expire(t)
<1> USE DEF Local, history
<1>1. CASE \E r \in Requests : TokenRequest(r) \/ AccountRequest(r) \/ FactorRequest(r)
  BY <1>1 DEF TokenRequest, AccountRequest, FactorRequest, BeginRotate, BeginLogout, BeginLogoutAll,
     BeginSetStatus, BeginRegister, BeginLogin, BeginChange, RequestReset, BeginReset, BeginVerify,
     Enroll, BeginActivate, BeginDisable
<1>2. ASSUME NEW r \in Requests,
             \/ CreateUser(r) \/ SendVerification(r) \/ VerifyPassword(r) \/ VerifyAppCode(r)
             \/ VerifyBackupCode(r) \/ Rehash(r) \/ RevokeScan(r) \/ CheckCurrent(r)
             \/ WritePassword(r) \/ Unlink(r) \/ MarkEmailVerified(r)
             \/ EnableTotp(r) \/ DropPending(r) \/ DisableTotp(r) \/ Crash(r)
      PROVE  UNCHANGED <<tokens, reused>>
  BY <1>2 DEF CreateUser, SendVerification, VerifyPassword, VerifyAppCode, VerifyBackupCode, Rehash,
     RevokeScan, CheckCurrent, WritePassword, Unlink, MarkEmailVerified, EnableTotp, DropPending,
     DisableTotp, Crash
<1>3. ASSUME NEW r \in Requests, IssueNewFamily(r) PROVE Opened
  <2>1. loc[r].typed \in Nat
    BY DEF ControlOK, Locals
  <2> QED BY <1>3, <2>1 DEF IssueNewFamily, Opened
<1>4. ASSUME NEW r \in Requests, RevokeApply(r) PROVE Closed
  BY <1>4 DEF RevokeApply, Closed
<1>5. ASSUME NEW r \in Requests, Rotate(r)
      PROVE  UNCHANGED <<tokens, reused>> \/ Rotated(r) \/ Avenged(r)
  BY <1>5 DEF Rotate, Rotated, Avenged, RevokedOnReuse
<1>6. CASE RaiseParameters
  BY <1>6 DEF RaiseParameters
<1> QED
  BY <1>1, <1>2, <1>3, <1>4, <1>5, <1>6 DEF Next, Step, Continue

LEMMA ExpiredRows ==
  ASSUME NEW rows \in Seq(TokenRow), NEW t \in 1..Len(rows)
  PROVE  LET new == [rows EXCEPT ![t].expired = TRUE] IN
         /\ new \in Seq(TokenRow) /\ Len(new) = Len(rows)
         /\ \A u \in 1..Len(rows) :
              /\ new[u].family = rows[u].family /\ new[u].under = rows[u].under
              /\ new[u].used = rows[u].used /\ new[u].revoked = rows[u].revoked
<1> DEFINE y == [rows[t] EXCEPT !.expired = TRUE]
<1>1. \A u \in 1..Len(rows) : rows[u] \in TokenRow
  OBVIOUS
<1>2. y \in TokenRow /\ y.family = rows[t].family /\ y.under = rows[t].under
      /\ y.used = rows[t].used /\ y.revoked = rows[t].revoked
  BY <1>1 DEF TokenRow
<1> HIDE DEF y
<1>3. /\ [rows EXCEPT ![t] = y] \in Seq(TokenRow) /\ Len([rows EXCEPT ![t] = y]) = Len(rows)
      /\ \A u \in 1..Len(rows) : [rows EXCEPT ![t] = y][u] = IF u = t THEN y ELSE rows[u]
  BY <1>2
<1>4. ASSUME NEW u \in 1..Len(rows)
      PROVE  LET new == [rows EXCEPT ![t] = y] IN
             /\ new[u].family = rows[u].family /\ new[u].under = rows[u].under
             /\ new[u].used = rows[u].used /\ new[u].revoked = rows[u].revoked
  <2>1. CASE u = t
    BY <1>2, <1>3, <2>1
  <2>2. CASE u # t
    BY <1>3, <2>2
  <2> QED BY <2>1, <2>2
<1>5. [rows EXCEPT ![t].expired = TRUE] = [rows EXCEPT ![t] = y]
  BY DEF y
<1> QED BY <1>3, <1>4, <1>5

\* Whatever a step does, tokens are only added, and none comes back to life.
Grown ==
  /\ Len(tokens) \in Nat /\ Len(tokens') \in Nat /\ Len(tokens) <= Len(tokens')
  /\ \A t \in 1..Len(tokens) :
       /\ tokens'[t].family = tokens[t].family /\ tokens'[t].under = tokens[t].under
       /\ tokens[t].revoked => tokens'[t].revoked

\* The token of an open rotation is a row of the table too.
LEMMA SnapshotKnows ==
  ASSUME DataOK, NEW r \in Requests, SnapshotOK(r), pc[r] = "rotate"
  PROVE  LET seen == loc[r].seen
             t == loc[r].token
         IN /\ t \in 1..Len(tokens) /\ t \in 1..Len(seen) /\ Len(seen) \in Nat
            /\ seen[t].family = tokens[t].family /\ seen[t].under = tokens[t].under
            /\ tokens[t].family \in 1..t
            /\ DOMAIN seen = 1..Len(seen)
  BY DomainIsLength DEF SnapshotOK, DataOK, RowsOK

LEMMA RowsStep ==
  ASSUME DataOK, ControlOK, \A r \in Requests : SnapshotOK(r), Next
  PROVE  RowsOK(tokens') /\ Grown /\ reused' \subseteq 1..Len(tokens')
<1>1. /\ tokens \in Seq(TokenRow) /\ Len(tokens) \in Nat /\ DOMAIN tokens = 1..Len(tokens)
      /\ reused \subseteq 1..Len(tokens)
      /\ \A t \in 1..Len(tokens) : /\ tokens[t] \in TokenRow
                                   /\ tokens[t].family \in 1..t
                                   /\ tokens[t].used => tokens[t].revoked
  BY DomainIsLength DEF DataOK, RowsOK
<1>2. CASE UNCHANGED <<tokens, reused>>
  BY <1>1, <1>2 DEF RowsOK, Grown
<1>3. CASE Opened
  <2>1. PICK under \in Nat : tokens' = Append(tokens, Token(Len(tokens) + 1, under))
    BY <1>3 DEF Opened
  <2>2. /\ tokens' \in Seq(TokenRow) /\ Len(tokens') = Len(tokens) + 1
        /\ \A u \in 1..Len(tokens) : tokens'[u] = tokens[u]
        /\ tokens'[Len(tokens) + 1] = Token(Len(tokens) + 1, under)
    BY <1>1, <2>1, NewFamilyRows
  <2>3. Token(Len(tokens) + 1, under).family = Len(tokens) + 1 /\ ~Token(Len(tokens) + 1, under).used
    BY <1>1, TokenIsRow
  <2> QED BY <1>1, <1>3, <2>2, <2>3 DEF Opened, RowsOK, Grown
<1>4. ASSUME NEW which, tokens' = Revoked(tokens, which)
      PROVE  RowsOK(tokens') /\ Grown /\ Len(tokens') = Len(tokens)
  <2>1. /\ tokens' \in Seq(TokenRow) /\ Len(tokens') = Len(tokens)
        /\ \A t \in 1..Len(tokens) :
             /\ tokens'[t].family = tokens[t].family /\ tokens'[t].under = tokens[t].under
             /\ tokens'[t].used = tokens[t].used
             /\ tokens'[t].revoked <=> tokens[t].revoked \/ t \in which
    BY <1>1, <1>4, RevokedRows
  <2> QED BY <1>1, <2>1 DEF RowsOK, Grown
<1>5. CASE Closed
  BY <1>1, <1>4, <1>5 DEF Closed
<1>6. ASSUME NEW r \in Requests, Avenged(r)
      PROVE  RowsOK(tokens') /\ Grown /\ reused' \subseteq 1..Len(tokens')
  <2>1. loc[r].seen[loc[r].token].family \in 1..Len(tokens)
    BY <1>1, <1>6, SnapshotKnows DEF Avenged
  <2> QED BY <1>1, <1>4, <1>6, <2>1 DEF Avenged
<1>7. ASSUME NEW r \in Requests, Rotated(r)
      PROVE  RowsOK(tokens') /\ Grown /\ reused' \subseteq 1..Len(tokens')
  <2> DEFINE t == loc[r].token
  <2>1. t \in 1..Len(tokens)
    BY <1>7, SnapshotKnows DEF Rotated
  <2>2. /\ tokens' \in Seq(TokenRow) /\ Len(tokens') = Len(tokens) + 1
        /\ \A u \in 1..Len(tokens) :
             /\ tokens'[u].family = tokens[u].family /\ tokens'[u].under = tokens[u].under
             /\ tokens'[u].revoked <=> tokens[u].revoked \/ u = t
             /\ tokens'[u].used <=> tokens[u].used \/ u = t
        /\ tokens'[Len(tokens) + 1] = Token(tokens[t].family, tokens[t].under)
    <3>1. tokens' = Successor(tokens, t)
      BY <1>7 DEF Rotated
    <3> HIDE DEF t
    <3> QED BY <1>1, <2>1, <3>1, SuccessorRows
  <2>3. /\ Token(tokens[t].family, tokens[t].under).family = tokens[t].family
        /\ ~Token(tokens[t].family, tokens[t].under).used
    <3>1. tokens[t].family \in Nat /\ tokens[t].under \in Nat
      BY <1>1, <2>1 DEF TokenRow
    <3> QED BY <3>1, TokenIsRow
  <2>4. tokens[t].family \in 1..(Len(tokens) + 1)
    BY <1>1, <2>1
  <2> HIDE DEF t
  <2>5. RowsOK(tokens')
    <3>1. ASSUME NEW u \in 1..Len(tokens')
          PROVE  tokens'[u].family \in 1..u /\ (tokens'[u].used => tokens'[u].revoked)
      <4>1. CASE u = Len(tokens) + 1
        BY <2>2, <2>3, <2>4, <4>1
      <4>2. CASE u # Len(tokens) + 1
        <5>1. u \in 1..Len(tokens)
          BY <1>1, <2>2, <4>2
        <5> QED BY <1>1, <2>2, <5>1
      <4> QED BY <4>1, <4>2
    <3> QED BY <2>2, <3>1 DEF RowsOK
  <2> QED BY <1>1, <1>7, <2>2, <2>5 DEF Rotated, Grown
<1>8. CASE \E t \in DOMAIN tokens : Expire(t)
  <2>1. PICK t \in 1..Len(tokens) : Expire(t)
    BY <1>1, <1>8
  <2>2. /\ tokens' \in Seq(TokenRow) /\ Len(tokens') = Len(tokens)
        /\ \A u \in 1..Len(tokens) :
             /\ tokens'[u].family = tokens[u].family /\ tokens'[u].under = tokens[u].under
             /\ tokens'[u].used = tokens[u].used /\ tokens'[u].revoked = tokens[u].revoked
    <3>1. tokens' = [tokens EXCEPT ![t].expired = TRUE]
      BY <2>1 DEF Expire
    <3> QED BY <1>1, <3>1, ExpiredRows, Zenon
  <2>3. RowsOK(tokens') /\ Grown
    BY <1>1, <2>2 DEF RowsOK, Grown
  <2> QED BY <1>1, <2>1, <2>2, <2>3 DEF Expire, history
<1> QED BY <1>2, <1>3, <1>5, <1>6, <1>7, <1>8, TokenSteps

-----------------------------------------------------------------------------
(* A family has one token that works, and none once a used one came back. *)

\* What a rotation that commits knows: its token is the living one of its family.
LEMMA RotatesTheLiving ==
  ASSUME DataOK, NEW r \in Requests, SnapshotOK(r), Rotated(r)
  PROVE  LET t == loc[r].token IN
         /\ t \in 1..Len(tokens) /\ ~tokens[t].revoked
         /\ tokens[t].family \in 1..Len(tokens)
         /\ tokens' \in Seq(TokenRow) /\ Len(tokens') = Len(tokens) + 1
         /\ \A u \in 1..Len(tokens) :
              /\ tokens'[u].family = tokens[u].family /\ tokens'[u].under = tokens[u].under
              /\ tokens'[u].revoked <=> tokens[u].revoked \/ u = t
         /\ tokens'[Len(tokens) + 1].family = tokens[t].family
         /\ ~tokens'[Len(tokens) + 1].revoked
         /\ tokens'[Len(tokens) + 1].under = tokens[t].under
<1> DEFINE t == loc[r].token
<1>1. /\ tokens \in Seq(TokenRow) /\ Len(tokens) \in Nat
      /\ \A u \in 1..Len(tokens) : tokens[u] \in TokenRow
  BY DEF DataOK, RowsOK
<1>2. t \in 1..Len(tokens) /\ tokens[t].family \in 1..t
  BY SnapshotKnows DEF Rotated
<1>3. tokens' = Successor(tokens, t) /\ ~tokens[t].revoked
  BY DEF Rotated, Untouched
<1> HIDE DEF t
<1>4. /\ tokens' \in Seq(TokenRow) /\ Len(tokens') = Len(tokens) + 1
      /\ \A u \in 1..Len(tokens) :
           /\ tokens'[u].family = tokens[u].family /\ tokens'[u].under = tokens[u].under
           /\ tokens'[u].revoked <=> tokens[u].revoked \/ u = t
      /\ tokens'[Len(tokens) + 1] = Token(tokens[t].family, tokens[t].under)
  BY <1>1, <1>2, <1>3, SuccessorRows
<1>5. LET y == Token(tokens[t].family, tokens[t].under) IN
      y.family = tokens[t].family /\ ~y.revoked /\ y.under = tokens[t].under
  <2>1. tokens[t].family \in Nat /\ tokens[t].under \in Nat
    BY <1>1, <1>2 DEF TokenRow
  <2> QED BY <2>1, TokenIsRow
<1>6. tokens[t].family \in 1..Len(tokens)
  BY <1>1, <1>2
<1> QED BY <1>2, <1>3, <1>4, <1>5, <1>6 DEF t

\* What a rotation that finds a token used comes upon: every token of the family that is
\* not revoked by now is in its snapshot, so it dies with the others.
LEMMA AvengesThemAll ==
  ASSUME DataOK, NEW r \in Requests, SnapshotOK(r), Avenged(r)
  PROVE  LET family == loc[r].seen[loc[r].token].family IN
         \A t \in 1..Len(tokens) :
           tokens[t].family = family /\ ~tokens[t].revoked => t \in LiveIn(loc[r].seen, family)
<1> DEFINE seen == loc[r].seen
           family == seen[loc[r].token].family
<1>1. /\ Len(seen) \in Nat /\ Len(tokens) \in Nat /\ DOMAIN seen = 1..Len(seen)
      /\ family \in 1..Len(seen)
  <2>1. /\ loc[r].token \in 1..Len(seen) /\ Len(seen) \in Nat /\ DOMAIN seen = 1..Len(seen)
        /\ family \in 1..loc[r].token
    BY SnapshotKnows DEF Avenged
  <2> QED BY <2>1 DEF DataOK, RowsOK
<1>2. \A u \in LiveIn(seen, family) : ~tokens[u].revoked
  BY DEF Avenged, Untouched
<1>3. /\ \A t \in 1..Len(seen) : seen[t].family = tokens[t].family /\ (seen[t].revoked => tokens[t].revoked)
      /\ \A t \in 1..Len(tokens) :
           t > Len(seen) /\ tokens[t].family <= Len(seen) =>
             \E u \in LiveIn(seen, tokens[t].family) : tokens[u].revoked
  BY DEF SnapshotOK, Avenged
<1> SUFFICES ASSUME NEW t \in 1..Len(tokens), tokens[t].family = family, ~tokens[t].revoked
             PROVE  t \in LiveIn(seen, family)
  OBVIOUS
<1>4. t <= Len(seen)
  <2>1. SUFFICES ASSUME t > Len(seen) PROVE FALSE
    BY <1>1
  <2>2. \E u \in LiveIn(seen, family) : tokens[u].revoked
    BY <1>1, <1>3, <2>1
  <2> QED BY <1>2, <2>2
<1>5. seen[t].family = family /\ ~seen[t].revoked /\ t \in DOMAIN seen
  BY <1>1, <1>3, <1>4
<1> QED BY <1>5 DEF LiveIn

\* The snapshot of a rotation stays what it was: begun in this step, or kept from before.
LEMMA RotateStays ==
  ASSUME DataOK, ControlOK, Next, NEW s \in Requests, pc'[s] = "rotate"
  PROVE  \/ pc[s] = "rotate" /\ loc'[s] = loc[s]
         \/ /\ tokens' = tokens /\ loc'[s].seen = tokens /\ loc'[s].token \in DOMAIN tokens
<1> USE DEF Begin, Goto, ControlOK
<1>0. pc'[s] # "idle"
  OBVIOUS
<1>1. ASSUME NEW r \in Requests, NEW label, NEW l, Goto(r, label, l), label # "rotate"
      PROVE  pc[s] = "rotate" /\ loc'[s] = loc[s]
  BY <1>1
<1>2. ASSUME NEW r \in Requests, Reply(r)
      PROVE  pc[s] = "rotate" /\ loc'[s] = loc[s]
  BY <1>2 DEF Reply
<1>3. ASSUME NEW r \in Requests, BeginRotate(r)
      PROVE  \/ pc[s] = "rotate" /\ loc'[s] = loc[s]
             \/ tokens' = tokens /\ loc'[s].seen = tokens /\ loc'[s].token \in DOMAIN tokens
  <2>1. PICK t \in DOMAIN tokens :
          Goto(r, "rotate", [Blank EXCEPT !.kind = "refresh", !.token = t, !.seen = tokens])
    BY <1>3 DEF BeginRotate
  <2>2. tokens' = tokens
    BY <1>3 DEF BeginRotate, Local
  <2>3. CASE s = r
    BY <2>1, <2>2, <2>3 DEF Blank
  <2>4. CASE s # r
    BY <2>1, <2>4
  <2> QED BY <2>3, <2>4
<1> HIDE DEF Goto
<1>4. ASSUME NEW r \in Requests, TokenRequest(r), ~BeginRotate(r)
      PROVE  pc[s] = "rotate" /\ loc'[s] = loc[s]
  BY <1>1, <1>4 DEF TokenRequest, BeginLogout, BeginLogoutAll, BeginSetStatus
<1>5. ASSUME NEW r \in Requests, AccountRequest(r)
      PROVE  pc[s] = "rotate" /\ loc'[s] = loc[s]
  BY <1>1, <1>5 DEF AccountRequest, BeginRegister, BeginLogin, BeginChange, RequestReset, BeginReset, BeginVerify
<1>6. ASSUME NEW r \in Requests, FactorRequest(r)
      PROVE  pc[s] = "rotate" /\ loc'[s] = loc[s]
  BY <1>1, <1>6 DEF FactorRequest, Enroll, BeginActivate, BeginDisable
<1>7. ASSUME NEW r \in Requests, CreateUser(r) \/ SendVerification(r) \/ IssueNewFamily(r)
             \/ VerifyPassword(r) \/ VerifyAppCode(r) \/ VerifyBackupCode(r) \/ Rehash(r)
      PROVE  pc[s] = "rotate" /\ loc'[s] = loc[s]
  <2>1. Reply(r) \/ \E label \in {"invite", "issue", "code", "rehash", "disable"}, l \in {loc[r], [loc[r] EXCEPT !.typed = passwords']} : Goto(r, label, l)
    BY <1>7 DEF CreateUser, SendVerification, IssueNewFamily, VerifyPassword, VerifyAppCode,
                VerifyBackupCode, AfterCode, Rehash
  <2> QED BY <1>1, <1>2, <2>1
<1>8. ASSUME NEW r \in Requests,
             Rotate(r) \/ RevokeScan(r) \/ RevokeApply(r) \/ CheckCurrent(r) \/ WritePassword(r)
             \/ Unlink(r) \/ MarkEmailVerified(r) \/ EnableTotp(r) \/ DropPending(r)
             \/ DisableTotp(r) \/ Crash(r)
      PROVE  pc[s] = "rotate" /\ loc'[s] = loc[s]
  <2>1. Reply(r) \/ \E label \in {"revoke", "write", "scan", "mark", "settle"}, l \in {loc[r], [loc[r] EXCEPT !.rows = Concerned(loc[r])]} : Goto(r, label, l)
    BY <1>8 DEF Rotate, RevokeScan, RevokeApply, CheckCurrent, WritePassword, Unlink,
                MarkEmailVerified, EnableTotp, DropPending, DisableTotp, Crash
  <2> QED BY <1>1, <1>2, <2>1
<1>9. ASSUME (\E t \in DOMAIN tokens : Expire(t)) \/ RaiseParameters
      PROVE  pc[s] = "rotate" /\ loc'[s] = loc[s]
  BY <1>9 DEF Expire, RaiseParameters
<1> QED BY <1>3, <1>4, <1>5, <1>6, <1>7, <1>8, <1>9 DEF Next, Step, Continue

\* Snapshots stay behind: tokens were only added, and only revoked.
LEMMA SnapshotsStay ==
  ASSUME DataOK, ControlOK, TokensInv, Next, NEW s \in Requests
  PROVE  SnapshotOK(s)'
<1> SUFFICES ASSUME pc'[s] = "rotate" PROVE SnapshotOK(s)'
  BY DEF SnapshotOK
<1>1. RowsOK(tokens') /\ Grown
  BY RowsStep DEF TokensInv
<1>2. /\ tokens \in Seq(TokenRow) /\ Len(tokens) \in Nat /\ DOMAIN tokens = 1..Len(tokens)
      /\ \A t \in 1..Len(tokens) : tokens[t].family \in 1..t
  BY DomainIsLength DEF DataOK, RowsOK
<1>3. CASE tokens' = tokens /\ loc'[s].seen = tokens /\ loc'[s].token \in DOMAIN tokens
  BY <1>2, <1>3 DEF SnapshotOK
<1>4. CASE pc[s] = "rotate" /\ loc'[s] = loc[s]
  <2> DEFINE seen == loc[s].seen
  <2>1. /\ seen \in Seq(TokenRow) /\ Len(seen) \in Nat /\ DOMAIN seen = 1..Len(seen)
        /\ loc[s].token \in 1..Len(seen) /\ Len(seen) <= Len(tokens)
        /\ \A t \in 1..Len(seen) :
             /\ seen[t].family = tokens[t].family /\ seen[t].under = tokens[t].under
             /\ seen[t].revoked => tokens[t].revoked
        /\ \A t \in 1..Len(tokens) :
             t > Len(seen) /\ tokens[t].family <= Len(seen) =>
               \E u \in LiveIn(seen, tokens[t].family) : tokens[u].revoked
    BY <1>4, DomainIsLength DEF TokensInv, SnapshotOK
  <2>2. /\ Len(seen) <= Len(tokens')
        /\ \A t \in 1..Len(seen) :
             /\ seen[t].family = tokens'[t].family /\ seen[t].under = tokens'[t].under
             /\ seen[t].revoked => tokens'[t].revoked
    BY <1>1, <1>2, <2>1 DEF Grown
  <2>3. \A f : \A u \in LiveIn(seen, f) : u \in 1..Len(tokens) /\ (tokens[u].revoked => tokens'[u].revoked)
    BY <1>1, <1>2, <2>1 DEF LiveIn, Grown
  <2>4. ASSUME NEW t \in 1..Len(tokens'), t > Len(seen), tokens'[t].family <= Len(seen)
        PROVE  \E u \in LiveIn(seen, tokens'[t].family) : tokens'[u].revoked
    <3>1. CASE t \in 1..Len(tokens)
      <4>1. tokens'[t].family = tokens[t].family
        BY <1>1, <3>1 DEF Grown
      <4> QED BY <2>1, <2>3, <2>4, <3>1, <4>1
    <3>2. CASE t \notin 1..Len(tokens)
      <4>1. Len(tokens') > Len(tokens)
        BY <1>1, <1>2, <3>2 DEF Grown
      <4>2. CASE Opened
        <5>1. PICK under \in Nat : tokens' = Append(tokens, Token(Len(tokens) + 1, under))
          BY <4>2 DEF Opened
        <5>2. Len(tokens') = Len(tokens) + 1 /\ tokens'[Len(tokens) + 1] = Token(Len(tokens) + 1, under)
          BY <1>2, <5>1, NewFamilyRows
        <5>3. Token(Len(tokens) + 1, under).family = Len(tokens) + 1
          BY <1>2, TokenIsRow
        <5>4. t = Len(tokens) + 1
          BY <1>2, <3>2, <5>2
        <5> QED BY <1>2, <2>1, <2>4, <5>2, <5>3, <5>4
      <4>3. ASSUME NEW r \in Requests, Rotated(r)
            PROVE  \E u \in LiveIn(seen, tokens'[t].family) : tokens'[u].revoked
        <5> DEFINE z == loc[r].token
        <5>1. /\ z \in 1..Len(tokens) /\ ~tokens[z].revoked
              /\ Len(tokens') = Len(tokens) + 1
              /\ \A u \in 1..Len(tokens) : tokens'[u].revoked <=> tokens[u].revoked \/ u = z
              /\ tokens'[Len(tokens) + 1].family = tokens[z].family
          BY <4>3, RotatesTheLiving DEF TokensInv
        <5>2. t = Len(tokens) + 1 /\ tokens'[t].family = tokens[z].family
          BY <1>2, <3>2, <5>1
        <5> HIDE DEF z
        <5>3. CASE z <= Len(seen)
          <6>1. z \in DOMAIN seen /\ seen[z].family = tokens[z].family /\ ~seen[z].revoked
            BY <2>1, <5>1, <5>3
          <6>2. z \in LiveIn(seen, tokens'[t].family) /\ tokens'[z].revoked
            BY <5>1, <5>2, <6>1 DEF LiveIn
          <6> QED BY <6>2
        <5>4. CASE z > Len(seen)
          <6>1. \E u \in LiveIn(seen, tokens[z].family) : tokens[u].revoked
            BY <2>1, <2>4, <5>1, <5>2, <5>4
          <6> QED BY <2>3, <5>2, <6>1
        <5> QED BY <1>2, <2>1, <5>1, <5>3, <5>4
      <4>4. CASE UNCHANGED <<tokens, reused>>
        BY <1>2, <4>1, <4>4
      <4>5. ASSUME NEW which, tokens' = Revoked(tokens, which) PROVE FALSE
        <5>1. Len(tokens') = Len(tokens)
          BY <1>2, <4>5, RevokedRows
        <5> QED BY <1>2, <4>1, <5>1
      <4>6. ASSUME NEW x \in DOMAIN tokens, Expire(x) PROVE FALSE
        <5>1. tokens' = [tokens EXCEPT ![x].expired = TRUE]
          BY <4>6 DEF Expire
        <5>2. Len(tokens') = Len(tokens)
          BY <1>2, <5>1, ExpiredRows
        <5> QED BY <1>2, <4>1, <5>2
      <4> QED BY <4>2, <4>3, <4>4, <4>5, <4>6, TokenSteps DEF Closed, Avenged
    <3> QED BY <3>1, <3>2
  <2> QED BY <1>4, <2>1, <2>2, <2>4 DEF SnapshotOK
<1> QED BY <1>3, <1>4, RotateStays

LEMMA FamiliesStay ==
  ASSUME DataOK, ControlOK, TokensInv, Next
  PROVE  Unrevoked' /\ NoneReused'
<1>1. /\ tokens \in Seq(TokenRow) /\ Len(tokens) \in Nat /\ DOMAIN tokens = 1..Len(tokens)
      /\ reused \subseteq 1..Len(tokens)
      /\ \A t \in 1..Len(tokens) : tokens[t].family \in 1..t
  BY DomainIsLength DEF DataOK, RowsOK
<1>2. DOMAIN tokens' = 1..Len(tokens') /\ Len(tokens') \in Nat
  <2>1. tokens' \in Seq(TokenRow)
    BY RowsStep DEF TokensInv, RowsOK
  <2> QED BY <2>1, DomainIsLength
<1>3. /\ \A t, u \in 1..Len(tokens) :
           ~tokens[t].revoked /\ ~tokens[u].revoked /\ tokens[t].family = tokens[u].family => t = u
      /\ \A t \in 1..Len(tokens) : ~tokens[t].revoked => tokens[t].family \notin reused
  BY <1>1 DEF TokensInv, Unrevoked, NoneReused
<1>4. ASSUME Len(tokens') = Len(tokens),
             \A t \in 1..Len(tokens) : /\ tokens'[t].family = tokens[t].family
                                       /\ tokens[t].revoked => tokens'[t].revoked
      PROVE  /\ Unrevoked'
             /\ reused' = reused => NoneReused'
  BY <1>1, <1>2, <1>3, <1>4 DEF Unrevoked, NoneReused
<1>5. Grown
  BY RowsStep DEF TokensInv
<1>6. CASE UNCHANGED <<tokens, reused>>
  BY <1>4, <1>5, <1>6 DEF Grown
<1>7. CASE Opened
  <2>1. PICK under \in Nat : tokens' = Append(tokens, Token(Len(tokens) + 1, under))
    BY <1>7 DEF Opened
  <2>2. /\ Len(tokens') = Len(tokens) + 1
        /\ \A u \in 1..Len(tokens) : tokens'[u] = tokens[u]
        /\ tokens'[Len(tokens) + 1].family = Len(tokens) + 1
    <3>1. Token(Len(tokens) + 1, under).family = Len(tokens) + 1
      BY <1>1, TokenIsRow
    <3> QED BY <1>1, <2>1, <3>1, NewFamilyRows, Zenon
  <2>3. \A t \in 1..Len(tokens') : t \in 1..Len(tokens) \/ t = Len(tokens) + 1
    BY <1>1, <2>2
  <2>4. \A t \in 1..Len(tokens) : tokens[t].family # Len(tokens) + 1
    BY <1>1
  <2>5. Unrevoked'
    BY <1>2, <1>3, <2>2, <2>3, <2>4 DEF Unrevoked
  <2>6. Len(tokens) + 1 \notin reused /\ reused' = reused
    BY <1>1, <1>7 DEF Opened
  <2>7. NoneReused'
    BY <1>2, <1>3, <2>2, <2>3, <2>6 DEF NoneReused
  <2> QED BY <2>5, <2>7
<1>8. CASE Closed
  <2>1. PICK which : tokens' = Revoked(tokens, which)
    BY <1>8 DEF Closed
  <2>2. Len(tokens') = Len(tokens)
    BY <1>1, <2>1, RevokedRows
  <2> QED BY <1>4, <1>5, <1>8, <2>2 DEF Closed, Grown
<1>9. CASE \E t \in DOMAIN tokens : Expire(t)
  <2>1. PICK t \in 1..Len(tokens) : Expire(t)
    BY <1>1, <1>9
  <2>2. tokens' = [tokens EXCEPT ![t].expired = TRUE] /\ reused' = reused
    BY <2>1 DEF Expire, history
  <2>3. Len(tokens') = Len(tokens)
    BY <1>1, <2>2, ExpiredRows
  <2> QED BY <1>4, <1>5, <2>2, <2>3 DEF Grown
<1>10. ASSUME NEW r \in Requests, Avenged(r)
       PROVE  Unrevoked' /\ NoneReused'
  <2> DEFINE family == loc[r].seen[loc[r].token].family
             found == LiveIn(loc[r].seen, family)
  <2>1. tokens' = Revoked(tokens, found) /\ reused' = reused \cup {family}
    BY <1>10 DEF Avenged
  <2>2. \A t \in 1..Len(tokens) : tokens[t].family = family /\ ~tokens[t].revoked => t \in found
    BY <1>10, AvengesThemAll DEF TokensInv
  <2> HIDE DEF family, found
  <2>3. /\ Len(tokens') = Len(tokens)
        /\ \A t \in 1..Len(tokens) :
             /\ tokens'[t].family = tokens[t].family
             /\ tokens'[t].revoked <=> tokens[t].revoked \/ t \in found
    BY <1>1, <2>1, RevokedRows
  <2>4. Unrevoked'
    BY <1>4, <1>5, <2>3 DEF Grown
  <2>5. NoneReused'
    BY <1>2, <1>3, <2>1, <2>2, <2>3 DEF NoneReused
  <2> QED BY <2>4, <2>5
<1>11. ASSUME NEW r \in Requests, Rotated(r)
       PROVE  Unrevoked' /\ NoneReused'
  <2> DEFINE z == loc[r].token
             n == Len(tokens) + 1
  <2>1. /\ z \in 1..Len(tokens) /\ ~tokens[z].revoked
        /\ Len(tokens') = n
        /\ \A u \in 1..Len(tokens) :
             /\ tokens'[u].family = tokens[u].family
             /\ tokens'[u].revoked <=> tokens[u].revoked \/ u = z
        /\ tokens'[n].family = tokens[z].family /\ ~tokens'[n].revoked
    BY <1>11, RotatesTheLiving DEF TokensInv
  <2>2. reused' = reused
    BY <1>11 DEF Rotated
  <2> HIDE DEF z
  <2>3. \A t \in 1..Len(tokens') : t \in 1..Len(tokens) \/ t = n
    <3>1. Len(tokens') = Len(tokens) + 1
      BY <2>1
    <3> QED BY <1>1, <3>1
  <2>4. \A t \in 1..Len(tokens) : ~tokens'[t].revoked => tokens'[t].family # tokens[z].family
    BY <1>3, <2>1
  <2>5. Unrevoked'
    BY <1>2, <1>3, <2>1, <2>3, <2>4 DEF Unrevoked
  <2>6. NoneReused'
    BY <1>2, <1>3, <2>1, <2>2, <2>3 DEF NoneReused
  <2> QED BY <2>5, <2>6
<1> QED BY <1>6, <1>7, <1>8, <1>9, <1>10, <1>11, TokenSteps

LEMMA NextTokens ==
  ASSUME DataOK, ControlOK, TokensInv, Next PROVE TokensInv'
  BY SnapshotsStay, FamiliesStay DEF TokensInv

-----------------------------------------------------------------------------
(* Which request may be where. *)

\* Of a request stopped at `label' with the locals l, in a table of n tokens.
KindAt(label, l, n) ==
  /\ label \in {"verify", "rehash"} => l.kind = "login"
  /\ label = "code" => l.kind \in {"login", "disable"}
  /\ label = "check" => l.kind = "change"
  /\ label = "write" => l.kind \in {"change", "reset"}
  /\ label \in {"scan", "revoke"} =>
       /\ l.kind \in {"logout", "logoutAll", "status", "change", "reset"}
       /\ l.kind = "logout" => l.token \in 1..n
       /\ l.kind = "status" => l.status \in Barred \cup {"ACTIVE"}
  /\ label \in {"verify", "code", "rehash", "check"} => l.row \in AccountRow

KindsOK == \A r \in Requests : KindAt(pc[r], loc[r], Len(tokens))

\* A step of one request to a label where it may be; the table has n tokens by then.
LEMMA GotoKind ==
  ASSUME ControlOK, NEW r \in Requests, NEW label, NEW l, Goto(r, label, l),
         NEW n \in Nat, NEW m \in Nat, n <= m,
         \A s \in Requests : KindAt(pc[s], loc[s], n),
         KindAt(label, l, m)
  PROVE  \A s \in Requests : KindAt(pc'[s], loc'[s], m)
<1> TAKE s \in Requests
<1>1. CASE s = r
  BY <1>1 DEF ControlOK, Goto
<1>2. CASE s # r
  <2>1. pc'[s] = pc[s] /\ loc'[s] = loc[s] /\ KindAt(pc[s], loc[s], n)
    BY <1>2 DEF ControlOK, Goto
  <2>2. 1..n \subseteq 1..m
    OBVIOUS
  <2> QED BY <2>1, <2>2 DEF KindAt
<1> QED BY <1>1, <1>2

LEMMA NextKinds ==
  ASSUME DataOK, ControlOK, TokensInv, KindsOK, Next
  PROVE  KindsOK'
<1> DEFINE n == Len(tokens)
           m == Len(tokens')
<1>1. /\ n \in Nat /\ m \in Nat /\ n <= m
      /\ DOMAIN tokens = 1..n
      /\ \A t \in 1..n : tokens[t].family \in 1..n
      /\ account \in AccountRow
  BY RowsStep, DomainIsLength DEF TokensInv, Grown, DataOK, RowsOK
<1>2. \A s \in Requests : KindAt(pc[s], loc[s], n) /\ loc[s] \in Locals
  BY DEF KindsOK, ControlOK
<1> SUFFICES \A s \in Requests : KindAt(pc'[s], loc'[s], m)
  BY DEF KindsOK
<1> USE DEF Begin
<1>3. ASSUME NEW r \in Requests, NEW label, NEW l, Goto(r, label, l), KindAt(label, l, m)
      PROVE  \A s \in Requests : KindAt(pc'[s], loc'[s], m)
  <2> HIDE DEF n, m
  <2> QED BY <1>1, <1>2, <1>3, GotoKind
<1>4. ASSUME UNCHANGED <<pc, loc>>
      PROVE  \A s \in Requests : KindAt(pc'[s], loc'[s], m)
  <2>1. 1..n \subseteq 1..m
    BY <1>1
  <2> QED BY <1>2, <1>4, <2>1 DEF KindAt
<1>5. ASSUME NEW r \in Requests, Reply(r)
      PROVE  \A s \in Requests : KindAt(pc'[s], loc'[s], m)
  <2>1. KindAt("idle", Blank, m)
    BY DEF KindAt
  <2> QED BY <1>3, <1>5, <2>1 DEF Reply
<1>6. ASSUME NEW r \in Requests, TokenRequest(r)
      PROVE  \A s \in Requests : KindAt(pc'[s], loc'[s], m)
  <2>1. CASE BeginRotate(r)
    <3>1. PICK t \in DOMAIN tokens :
            Goto(r, "rotate", [Blank EXCEPT !.kind = "refresh", !.token = t, !.seen = tokens])
      BY <2>1 DEF BeginRotate
    <3>2. KindAt("rotate", [Blank EXCEPT !.kind = "refresh", !.token = t, !.seen = tokens], m)
      BY DEF KindAt
    <3> QED BY <1>3, <3>1, <3>2
  <2>2. CASE BeginLogout(r)
    <3>1. PICK t \in DOMAIN tokens :
            Goto(r, "scan", [Blank EXCEPT !.kind = "logout", !.token = tokens[t].family])
      BY <2>2 DEF BeginLogout
    <3>2. tokens[t].family \in 1..m
      BY <1>1
    <3>3. KindAt("scan", [Blank EXCEPT !.kind = "logout", !.token = tokens[t].family], m)
      BY <3>2 DEF KindAt, Blank
    <3> QED BY <1>3, <3>1, <3>3
  <2>3. CASE BeginLogoutAll(r)
    <3>1. KindAt("scan", [Blank EXCEPT !.kind = "logoutAll"], m)
      BY DEF KindAt, Blank
    <3> QED BY <1>3, <2>3, <3>1 DEF BeginLogoutAll
  <2>4. CASE BeginSetStatus(r)
    <3>1. \A x \in Barred \cup {"ACTIVE"} :
            KindAt("scan", [Blank EXCEPT !.kind = "status", !.status = x], m)
      BY DEF KindAt, Blank
    <3> QED BY <1>3, <2>4, <3>1 DEF BeginSetStatus
  <2> QED BY <1>6, <2>1, <2>2, <2>3, <2>4 DEF TokenRequest
<1>7. ASSUME NEW r \in Requests, AccountRequest(r)
      PROVE  \A s \in Requests : KindAt(pc'[s], loc'[s], m)
  <2>1. CASE BeginRegister(r)
    <3>1. KindAt("create", [Blank EXCEPT !.kind = "register"], m)
      BY DEF KindAt
    <3> QED BY <1>3, <2>1, <3>1 DEF BeginRegister
  <2>2. CASE BeginLogin(r)
    <3>1. \A x, y : KindAt("verify", [Blank EXCEPT !.kind = "login", !.row = account, !.typed = x, !.code = y], m)
      BY <1>1 DEF KindAt, Blank
    <3> QED BY <1>3, <2>2, <3>1 DEF BeginLogin
  <2>3. CASE BeginChange(r)
    <3>1. \A x : KindAt("check", [Blank EXCEPT !.kind = "change", !.row = account, !.typed = x], m)
      BY <1>1 DEF KindAt, Blank
    <3> QED BY <1>3, <2>3, <3>1 DEF BeginChange
  <2>4. CASE RequestReset(r)
    BY <1>4, <2>4 DEF RequestReset
  <2>5. CASE BeginReset(r)
    <3>1. \A x : KindAt("write", [Blank EXCEPT !.kind = "reset", !.link = x], m)
      BY DEF KindAt, Blank
    <3> QED BY <1>3, <2>5, <3>1 DEF BeginReset
  <2>6. CASE BeginVerify(r)
    <3>1. \A x : KindAt("unlink", [Blank EXCEPT !.kind = "verify", !.link = x], m)
      BY DEF KindAt
    <3> QED BY <1>3, <2>6, <3>1 DEF BeginVerify
  <2> QED BY <1>7, <2>1, <2>2, <2>3, <2>4, <2>5, <2>6 DEF AccountRequest
<1>8. ASSUME NEW r \in Requests, FactorRequest(r)
      PROVE  \A s \in Requests : KindAt(pc'[s], loc'[s], m)
  <2>1. CASE Enroll(r)
    BY <1>4, <2>1 DEF Enroll
  <2>2. CASE BeginActivate(r)
    <3>1. KindAt("enable", [Blank EXCEPT !.kind = "activate"], m)
      BY DEF KindAt
    <3> QED BY <1>3, <2>2, <3>1 DEF BeginActivate
  <2>3. CASE BeginDisable(r)
    <3>1. \A x : KindAt("code", [Blank EXCEPT !.kind = "disable", !.row = account, !.code = x], m)
      BY <1>1 DEF KindAt, Blank
    <3> QED BY <1>3, <2>3, <3>1 DEF BeginDisable
  <2> QED BY <1>8, <2>1, <2>2, <2>3 DEF FactorRequest
<1>9. ASSUME NEW r \in Requests, Continue(r)
      PROVE  \A s \in Requests : KindAt(pc'[s], loc'[s], m)
  <2>0. KindAt(pc[r], loc[r], n) /\ loc[r] \in Locals
    BY <1>2
  <2>1. CASE CreateUser(r) \/ SendVerification(r)
    <3>1. \A l : KindAt("invite", l, m) /\ KindAt("issue", l, m)
      BY DEF KindAt
    <3> QED BY <1>3, <1>5, <2>1, <3>1 DEF CreateUser, SendVerification
  <2>2. CASE VerifyPassword(r)
    <3>1. pc[r] = "verify" => KindAt("code", loc[r], m) /\ KindAt("rehash", loc[r], m)
      BY <2>0 DEF KindAt
    <3> QED BY <1>3, <1>5, <2>2, <3>1 DEF VerifyPassword
  <2>3. CASE VerifyAppCode(r) \/ VerifyBackupCode(r)
    <3>1. AfterCode(r) \/ Reply(r)
      BY <2>3 DEF VerifyAppCode, VerifyBackupCode
    <3>2. pc[r] = "code" => KindAt(IF loc[r].kind = "login" THEN "rehash" ELSE "disable", loc[r], m)
      BY <2>0 DEF KindAt
    <3> QED BY <1>3, <1>5, <2>3, <3>1, <3>2 DEF AfterCode, VerifyAppCode, VerifyBackupCode
  <2>4. CASE Rehash(r)
    <3>1. KindAt("issue", loc[r], m)
      BY DEF KindAt
    <3> QED BY <1>3, <2>4, <3>1 DEF Rehash
  <2>5. CASE RevokeScan(r)
    <3>1. pc[r] = "scan"
      BY <2>5 DEF RevokeScan
    <3>2. 1..n \subseteq 1..m
      BY <1>1
    <3>3. KindAt("revoke", [loc[r] EXCEPT !.rows = Concerned(loc[r])], m)
      BY <2>0, <3>1, <3>2 DEF KindAt, Locals
    <3> QED BY <1>3, <2>5, <3>3 DEF RevokeScan
  <2>6. CASE CheckCurrent(r)
    <3>1. pc[r] = "check" => KindAt("write", loc[r], m)
      BY <2>0 DEF KindAt
    <3> QED BY <1>3, <1>5, <2>6, <3>1 DEF CheckCurrent
  <2>7. CASE WritePassword(r)
    <3>1. pc[r] = "write" => KindAt("scan", loc[r], m)
      BY <2>0 DEF KindAt
    <3> QED BY <1>3, <2>7, <3>1 DEF WritePassword
  <2>8. CASE Unlink(r) \/ EnableTotp(r)
    <3>1. \A l : KindAt("mark", l, m) /\ KindAt("settle", l, m)
      BY DEF KindAt
    <3> QED BY <1>3, <2>8, <3>1 DEF Unlink, EnableTotp
  <2>9. CASE \/ IssueNewFamily(r) \/ Rotate(r) \/ RevokeApply(r) \/ MarkEmailVerified(r)
             \/ DropPending(r) \/ DisableTotp(r) \/ Crash(r)
    BY <1>5, <2>9
       DEF IssueNewFamily, Rotate, RevokeApply, MarkEmailVerified, DropPending, DisableTotp, Crash
  <2> QED BY <1>9, <2>1, <2>2, <2>3, <2>4, <2>5, <2>6, <2>7, <2>8, <2>9 DEF Continue
<1>10. CASE (\E t \in DOMAIN tokens : Expire(t)) \/ RaiseParameters
  BY <1>4, <1>10 DEF Expire, RaiseParameters
<1> QED BY <1>6, <1>7, <1>8, <1>9, <1>10 DEF Next, Step

\* The rows of the account and of the links, the counts and the history.
LEMMA NextData ==
  ASSUME DataOK, ControlOK, TokensInv, KindsOK, Next
  PROVE  DataOK'
<1>1. /\ RowsOK(tokens') /\ reused' \subseteq 1..Len(tokens')
      /\ Len(tokens) \in Nat /\ Len(tokens') \in Nat /\ Len(tokens) <= Len(tokens')
      /\ DOMAIN tokens = 1..Len(tokens)
      /\ 1..Len(tokens) \subseteq 1..Len(tokens')
  BY RowsStep, DomainIsLength DEF TokensInv, Grown, DataOK, RowsOK
<1>2. /\ account \in AccountRow /\ passwords \in Nat /\ sent \in Nat /\ given \in Nat
      /\ links \subseteq [id : 1..sent, for : {"verify", "reset"}]
      /\ pending \in BOOLEAN /\ spent \subseteq AppCodes /\ smooth \in BOOLEAN
      /\ uses \in [1..MaxLinks -> Nat] /\ redeemed \in [1..MaxCodes -> Nat]
      /\ ended \subseteq 1..Len(tokens)
      /\ \A s \in Requests : loc[s] \in Locals
  BY DEF DataOK, ControlOK
<1>3. SUFFICES /\ account' \in AccountRow /\ passwords' \in Nat /\ sent' \in Nat /\ given' \in Nat
               /\ links' \subseteq [id : 1..sent', for : {"verify", "reset"}]
               /\ pending' \in BOOLEAN /\ spent' \subseteq AppCodes /\ smooth' \in BOOLEAN
               /\ uses' \in [1..MaxLinks -> Nat] /\ redeemed' \in [1..MaxCodes -> Nat]
               /\ ended' \subseteq 1..Len(tokens')
  BY <1>1 DEF DataOK
<1> USE DEF Begin, Local, redis, counts, history
<1>4. CASE \E r \in Requests : TokenRequest(r) \/ FactorRequest(r)
  <2> PICK r \in Requests : TokenRequest(r) \/ FactorRequest(r)
    BY <1>4
  <2>1. /\ UNCHANGED <<account, passwords, sent, given, links, spent, uses, redeemed, ended>>
        /\ pending' \in BOOLEAN /\ smooth' \in BOOLEAN
    BY <1>2 DEF TokenRequest, BeginRotate, BeginLogout, BeginLogoutAll, BeginSetStatus, FactorRequest,
       Enroll, BeginActivate, BeginDisable
  <2> QED BY <1>1, <1>2, <2>1
<1>5. CASE \E r \in Requests : AccountRequest(r)
  <2> PICK r \in Requests : AccountRequest(r)
    BY <1>5
  <2>1. /\ UNCHANGED <<account, passwords, given, pending, spent, uses, redeemed, ended>>
        /\ smooth' \in BOOLEAN
    BY <1>2 DEF AccountRequest, BeginRegister, BeginLogin, BeginChange, RequestReset, BeginReset, BeginVerify
  <2>2. /\ sent' \in Nat /\ links' \subseteq [id : 1..sent', for : {"verify", "reset"}]
    <3>1. CASE RequestReset(r)
      BY <1>2, <3>1 DEF RequestReset
    <3>2. CASE BeginReset(r)
      BY <1>2, <3>2 DEF BeginReset, LinksWithout
    <3>3. CASE BeginRegister(r) \/ BeginLogin(r) \/ BeginChange(r) \/ BeginVerify(r)
      BY <1>2, <3>3 DEF BeginRegister, BeginLogin, BeginChange, BeginVerify
    <3> QED BY <3>1, <3>2, <3>3 DEF AccountRequest
  <2> QED BY <1>1, <1>2, <2>1, <2>2
<1>6. ASSUME NEW r \in Requests, Continue(r)
      PROVE  account' \in AccountRow /\ passwords' \in Nat /\ given' \in Nat
  <2>1. loc[r] \in Locals /\ passwords + 1 \in Nat /\ given + 2 \in Nat
    BY <1>2
  <2>2. CASE CreateUser(r) \/ WritePassword(r)
    <3>1. [account EXCEPT !.password = passwords + 1, !.outdated = FALSE] \in AccountRow
      BY <1>2, <2>1 DEF AccountRow
    <3>2. [account EXCEPT !.status = "PENDING_VERIFICATION", !.password = passwords + 1,
                          !.outdated = FALSE] \in AccountRow
      BY <1>2, <2>1 DEF AccountRow, Statuses
    <3> QED BY <1>2, <2>1, <2>2, <3>1, <3>2 DEF CreateUser, WritePassword
  <2>3. CASE VerifyBackupCode(r)
    <3>1. pc[r] = "code"
      BY <2>3 DEF VerifyBackupCode
    <3>2. CASE UNCHANGED account
      BY <1>2, <2>3, <3>2 DEF VerifyBackupCode
    <3>3. CASE account' = [account EXCEPT !.codes = CodesLeft(loc[r].row, loc[r].code)]
      <4>1. loc[r].row \in AccountRow
        BY <3>1 DEF KindsOK, KindAt
      <4>2. CodesLeft(loc[r].row, loc[r].code) \subseteq Nat
        BY <4>1 DEF CodesLeft, AccountRow
      <4>3. account' \in AccountRow
        BY <1>2, <3>3, <4>2 DEF AccountRow
      <4> QED BY <1>2, <2>3, <4>3 DEF VerifyBackupCode
    <3> QED BY <2>3, <3>2, <3>3 DEF VerifyBackupCode
  <2>4. CASE Rehash(r)
    <3>1. [account EXCEPT !.password = loc[r].typed, !.outdated = FALSE] \in AccountRow
      BY <1>2, <2>1 DEF AccountRow, Locals
    <3> QED BY <1>2, <2>4, <3>1 DEF Rehash
  <2>5. CASE RevokeApply(r)
    <3>1. pc[r] = "revoke"
      BY <2>5 DEF RevokeApply
    <3>2. loc[r].kind = "status" => loc[r].status \in Statuses
      BY <3>1 DEF KindsOK, KindAt, Statuses
    <3>3. loc[r].kind = "status" => [account EXCEPT !.status = loc[r].status] \in AccountRow
      BY <1>2, <3>2 DEF AccountRow
    <3> QED BY <1>2, <2>5, <3>3 DEF RevokeApply
  <2>6. CASE MarkEmailVerified(r)
    <3>1. [account EXCEPT !.status = "ACTIVE"] \in AccountRow
      BY <1>2 DEF AccountRow, Statuses
    <3> QED BY <1>2, <2>6, <3>1 DEF MarkEmailVerified
  <2>7. CASE EnableTotp(r)
    <3>1. {given + 1, given + 2} \subseteq Nat
      BY <1>2
    <3>2. [account EXCEPT !.totp = TRUE, !.codes = {given + 1, given + 2}] \in AccountRow
      BY <1>2, <3>1 DEF AccountRow
    <3> QED BY <1>2, <2>1, <2>7, <3>2 DEF EnableTotp
  <2>8. CASE DisableTotp(r)
    <3>1. [account EXCEPT !.totp = FALSE, !.codes = {}] \in AccountRow
      BY <1>2 DEF AccountRow
    <3> QED BY <1>2, <2>8, <3>1 DEF DisableTotp
  <2>9. CASE \/ SendVerification(r) \/ IssueNewFamily(r) \/ VerifyPassword(r) \/ VerifyAppCode(r)
             \/ Rotate(r) \/ RevokeScan(r) \/ CheckCurrent(r) \/ Unlink(r) \/ DropPending(r) \/ Crash(r)
    BY <1>2, <2>9
       DEF SendVerification, IssueNewFamily, VerifyPassword, VerifyAppCode, Rotate, RevokeScan,
           CheckCurrent, Unlink, DropPending, Crash
  <2> QED BY <1>6, <2>2, <2>3, <2>4, <2>5, <2>6, <2>7, <2>8, <2>9 DEF Continue
<1>7. ASSUME NEW r \in Requests, Continue(r)
      PROVE  /\ sent' \in Nat /\ links' \subseteq [id : 1..sent', for : {"verify", "reset"}]
             /\ pending' \in BOOLEAN /\ spent' \subseteq AppCodes /\ smooth' \in BOOLEAN
  <2>1. CASE SendVerification(r)
    BY <1>2, <2>1 DEF SendVerification
  <2>2. CASE Unlink(r)
    BY <1>2, <2>2 DEF Unlink
  <2>3. CASE VerifyAppCode(r)
    BY <1>2, <2>3 DEF VerifyAppCode
  <2>4. CASE \/ CreateUser(r) \/ IssueNewFamily(r) \/ VerifyPassword(r) \/ VerifyBackupCode(r)
             \/ Rehash(r) \/ Rotate(r) \/ RevokeScan(r) \/ RevokeApply(r) \/ CheckCurrent(r)
             \/ WritePassword(r) \/ MarkEmailVerified(r) \/ EnableTotp(r) \/ DropPending(r)
             \/ DisableTotp(r) \/ Crash(r)
    <3>1. UNCHANGED <<sent, links, spent>> /\ pending' \in BOOLEAN /\ smooth' \in BOOLEAN
      BY <1>2, <2>4
         DEF CreateUser, IssueNewFamily, VerifyPassword, VerifyBackupCode, Rehash, Rotate,
             RevokeScan, RevokeApply, CheckCurrent, WritePassword, MarkEmailVerified, EnableTotp,
             DropPending, DisableTotp, Crash
    <3> QED BY <1>2, <3>1
  <2> QED BY <1>7, <2>1, <2>2, <2>3, <2>4 DEF Continue
<1>8. ASSUME NEW r \in Requests, Continue(r)
      PROVE  /\ uses' \in [1..MaxLinks -> Nat] /\ redeemed' \in [1..MaxCodes -> Nat]
             /\ ended' \subseteq 1..Len(tokens')
  <2>1. CASE WritePassword(r)
    <3>1. UNCHANGED <<redeemed, ended>>
      BY <2>1 DEF WritePassword
    <3>2. uses' \in [1..MaxLinks -> Nat]
      <4>1. uses' = uses \/ uses' = [uses EXCEPT ![loc[r].link] = uses[loc[r].link] + 1]
        BY <2>1 DEF WritePassword
      <4>2. \A k \in 1..MaxLinks : uses[k] + 1 \in Nat
        BY <1>2
      <4> QED BY <1>2, <4>1, <4>2
    <3> QED BY <1>1, <1>2, <3>1, <3>2
  <2>2. CASE VerifyBackupCode(r)
    BY <1>1, <1>2, <2>2 DEF VerifyBackupCode
  <2>3. CASE RevokeApply(r)
    <3>1. pc[r] = "revoke"
      BY <2>3 DEF RevokeApply
    <3>2. loc[r].kind = "logout" => loc[r].token \in 1..Len(tokens)
      BY <3>1 DEF KindsOK, KindAt
    <3>3. Families \subseteq 1..Len(tokens)
      BY <1>1 DEF Families, DataOK, RowsOK
    <3>4. ended' \subseteq 1..Len(tokens)
      BY <1>2, <2>3, <3>2, <3>3 DEF RevokeApply
    <3> QED BY <1>1, <1>2, <2>3, <3>4 DEF RevokeApply
  <2>4. CASE \/ CreateUser(r) \/ SendVerification(r) \/ IssueNewFamily(r) \/ VerifyPassword(r)
             \/ VerifyAppCode(r) \/ Rehash(r) \/ Rotate(r) \/ RevokeScan(r) \/ CheckCurrent(r)
             \/ Unlink(r) \/ MarkEmailVerified(r) \/ EnableTotp(r) \/ DropPending(r)
             \/ DisableTotp(r) \/ Crash(r)
    <3>1. UNCHANGED <<uses, redeemed, ended>>
      BY <2>4
         DEF CreateUser, SendVerification, IssueNewFamily, VerifyPassword, VerifyAppCode, Rehash,
             Rotate, RevokeScan, CheckCurrent, Unlink, MarkEmailVerified, EnableTotp, DropPending,
             DisableTotp, Crash
    <3> QED BY <1>1, <1>2, <3>1
  <2> QED BY <1>8, <2>1, <2>2, <2>3, <2>4 DEF Continue
<1>9. CASE (\E t \in DOMAIN tokens : Expire(t)) \/ RaiseParameters
  <2>1. [account EXCEPT !.outdated = TRUE] \in AccountRow
    BY <1>2 DEF AccountRow
  <2>2. /\ account' \in AccountRow
        /\ UNCHANGED <<passwords, sent, given, links, pending, spent, uses, redeemed, ended, smooth>>
    BY <1>2, <1>9, <2>1 DEF Expire, RaiseParameters
  <2> QED BY <1>1, <1>2, <2>2
<1> QED BY <1>4, <1>5, <1>6, <1>7, <1>8, <1>9 DEF Next, Step

-----------------------------------------------------------------------------
(* The links that set a password. *)

\* A request stopped at `label' with the locals l took link k and is about to use it.
Holder(label, l, k) == label = "write" /\ l.kind = "reset" /\ l.link = k

Unspent(k) == k \in 1..MaxLinks => uses[k] = 0

\* A link that was not used is in Redis or in the hands of one request, and not in both.
LinksInv ==
  /\ \A k, m \in links : k.id = m.id => k = m
  /\ \A k \in 1..MaxLinks : uses[k] <= 1 /\ (k > sent => uses[k] = 0)
  /\ \A k \in links : k.for = "reset" =>
       Unspent(k.id) /\ \A r \in Requests : ~Holder(pc[r], loc[r], k.id)
  /\ \A r \in Requests : \A k \in Nat : Holder(pc[r], loc[r], k) =>
       /\ k \in 1..sent /\ Unspent(k)
       /\ \A q \in Requests : Holder(pc[q], loc[q], k) => q = r

NoNewHolder ==
  \A r \in Requests : \A k \in Nat : Holder(pc'[r], loc'[r], k) => Holder(pc[r], loc[r], k)

\* Only resetPassword takes a link, and it takes it out of Redis.
LEMMA GotoHolder ==
  ASSUME ControlOK, NEW r \in Requests, NEW label, NEW l, Goto(r, label, l),
         label = "write" => l.kind # "reset"
  PROVE  NoNewHolder
  BY DEF ControlOK, Goto, NoNewHolder, Holder

LEMMA ReplyHolder ==
  ASSUME ControlOK, NEW r \in Requests, Reply(r)
  PROVE  NoNewHolder
  BY GotoHolder DEF Reply

LEMMA HoldersStay ==
  ASSUME DataOK, ControlOK, KindsOK, Next
  PROVE  NoNewHolder \/ \E r \in Requests : BeginReset(r)
<1> USE DEF Begin
<1>1. ASSUME UNCHANGED <<pc, loc>> PROVE NoNewHolder
  BY <1>1 DEF NoNewHolder
<1>2. ASSUME NEW r \in Requests, TokenRequest(r) \/ AccountRequest(r) \/ FactorRequest(r),
             ~BeginReset(r)
      PROVE  NoNewHolder
  <2>1. \/ UNCHANGED <<pc, loc>>
        \/ \E label \in Labels \ {"write"} : \E l : Goto(r, label, l)
    BY <1>2
       DEF TokenRequest, BeginRotate, BeginLogout, BeginLogoutAll, BeginSetStatus, AccountRequest,
           BeginRegister, BeginLogin, BeginChange, RequestReset, BeginVerify, FactorRequest,
           Enroll, BeginActivate, BeginDisable, Labels
  <2> QED BY <1>1, <2>1, GotoHolder
<1>3. ASSUME NEW r \in Requests, Continue(r)
      PROVE  NoNewHolder
  <2>1. CASE CheckCurrent(r)
    <3>1. loc[r].kind = "change"
      BY <2>1 DEF CheckCurrent, KindsOK, KindAt
    <3> QED BY <2>1, <3>1, GotoHolder, ReplyHolder DEF CheckCurrent
  <2>2. CASE ~CheckCurrent(r)
    <3>1. Reply(r) \/ \E label \in Labels \ {"write"} : \E l : Goto(r, label, l)
      BY <1>3, <2>2
         DEF Continue, CreateUser, SendVerification, IssueNewFamily, VerifyPassword, VerifyAppCode,
             VerifyBackupCode, AfterCode, Rehash, Rotate, RevokeScan, RevokeApply, WritePassword,
             Unlink, MarkEmailVerified, EnableTotp, DropPending, DisableTotp, Crash, Labels
    <3> QED BY <3>1, GotoHolder, ReplyHolder
  <2> QED BY <2>1, <2>2
<1>4. CASE (\E t \in DOMAIN tokens : Expire(t)) \/ RaiseParameters
  BY <1>1, <1>4 DEF Expire, RaiseParameters
<1> QED BY <1>2, <1>3, <1>4 DEF Next, Step

LEMMA NextLinks ==
  ASSUME DataOK, ControlOK, KindsOK, LinksInv, Next
  PROVE  LinksInv'
<1>1. /\ sent \in Nat /\ links \subseteq [id : 1..sent, for : {"verify", "reset"}]
      /\ uses \in [1..MaxLinks -> Nat]
      /\ \A s \in Requests : loc[s] \in Locals
  BY DEF DataOK, ControlOK
<1>2. CASE \E r \in Requests : BeginReset(r)
  <2>1. PICK r \in Requests, k \in links :
          /\ k.for = "reset" /\ links' = links \ {k}
          /\ Goto(r, "write", [Blank EXCEPT !.kind = "reset", !.link = k.id])
          /\ UNCHANGED <<sent, uses>>
    BY <1>2 DEF BeginReset, Begin, LinksWithout, counts, history
  <2>2. k.id \in 1..sent
    BY <1>1
  <2>3. \A q \in Requests : \A j \in Nat : Holder(pc'[q], loc'[q], j) <=>
          (q = r /\ j = k.id) \/ (q # r /\ Holder(pc[q], loc[q], j))
    BY <2>1 DEF Goto, ControlOK, Holder, Blank
  <2>4. k.id \in Nat /\ \A q \in Requests : ~Holder(pc[q], loc[q], k.id)
    BY <1>1, <2>1, <2>2 DEF LinksInv
  <2>5. \A j \in Nat : Unspent(j)' <=> Unspent(j)
    BY <2>1 DEF Unspent
  <2>6. \A m \in links' : m \in links /\ m.id # k.id /\ m.id \in Nat
    BY <1>1, <2>1 DEF LinksInv
  <2>7. Unspent(k.id)
    BY <2>1 DEF LinksInv
  <2>8. \A m \in links' : m.for = "reset" =>
          Unspent(m.id)' /\ \A q \in Requests : ~Holder(pc'[q], loc'[q], m.id)
    BY <2>3, <2>5, <2>6 DEF LinksInv
  <2>9. \A q \in Requests : \A j \in Nat : Holder(pc'[q], loc'[q], j) =>
          /\ j \in 1..sent' /\ Unspent(j)'
          /\ \A p \in Requests : Holder(pc'[p], loc'[p], j) => p = q
    BY <2>1, <2>2, <2>3, <2>4, <2>5, <2>7 DEF LinksInv
  <2> QED BY <2>1, <2>6, <2>8, <2>9 DEF LinksInv
<1>3. ASSUME NoNewHolder, links' \subseteq links, UNCHANGED <<sent, uses>>
      PROVE  LinksInv'
  BY <1>1, <1>3 DEF LinksInv, NoNewHolder, Unspent
<1>4. ASSUME NoNewHolder, UNCHANGED uses, sent' = sent + 1,
             NEW for \in {"verify", "reset"}, links' = links \cup {[id |-> sent', for |-> for]}
      PROVE  LinksInv'
  <2> DEFINE new == [id |-> sent + 1, for |-> for]
  <2>1. sent + 1 \in Nat /\ Unspent(sent + 1) /\ new.id = sent + 1
    BY <1>1 DEF LinksInv, Unspent
  <2>2. \A q \in Requests : ~Holder(pc[q], loc[q], sent + 1)
    BY <1>1, <2>1 DEF LinksInv
  <2>3. \A k \in links : k.id # sent + 1 /\ k.id \in Nat
    BY <1>1
  <2>4. links' = links \cup {new}
    BY <1>4
  <2> HIDE DEF new
  <2>5. \A j \in Nat : Unspent(j)' <=> Unspent(j)
    BY <1>4 DEF Unspent
  <2>6. \A k, m \in links' : k.id = m.id => k = m
    BY <2>1, <2>3, <2>4 DEF LinksInv
  <2>7. \A k \in links' : k.for = "reset" =>
          Unspent(k.id)' /\ \A q \in Requests : ~Holder(pc'[q], loc'[q], k.id)
    BY <1>4, <2>1, <2>2, <2>3, <2>4, <2>5 DEF LinksInv, NoNewHolder
  <2>8. \A k \in 1..MaxLinks : uses'[k] <= 1 /\ (k > sent' => uses'[k] = 0)
    BY <1>1, <1>4 DEF LinksInv
  <2>9. \A q \in Requests : \A j \in Nat : Holder(pc'[q], loc'[q], j) =>
          /\ j \in 1..sent' /\ Unspent(j)'
          /\ \A p \in Requests : Holder(pc'[p], loc'[p], j) => p = q
    BY <1>1, <1>4, <2>5 DEF LinksInv, NoNewHolder
  <2> QED BY <2>6, <2>7, <2>8, <2>9 DEF LinksInv
<1>5. ASSUME NoNewHolder, NEW r \in Requests, WritePassword(r)
      PROVE  LinksInv'
  <2>1. /\ pc[r] = "write" /\ UNCHANGED <<links, sent>>
        /\ uses' = IF loc[r].kind = "reset" THEN [uses EXCEPT ![loc[r].link] = @ + 1] ELSE uses
        /\ pc' = [pc EXCEPT ![r] = "scan"]
    BY <1>5 DEF WritePassword, Goto, redis
  <2>2. CASE loc[r].kind # "reset"
    BY <1>3, <1>5, <2>1, <2>2
  <2>3. CASE loc[r].kind = "reset"
    <3> DEFINE k == loc[r].link
    <3>1. k \in Nat /\ Holder(pc[r], loc[r], k)
      BY <1>1, <2>1, <2>3 DEF Holder, Locals
    <3>2. /\ k \in 1..sent /\ Unspent(k)
          /\ \A q \in Requests : Holder(pc[q], loc[q], k) => q = r
          /\ \A m \in links : m.for = "reset" => m.id # k
      BY <3>1 DEF LinksInv
    <3>3. ~Holder(pc'[r], loc'[r], k)
      BY <2>1 DEF ControlOK, Holder
    <3>4. uses' = [uses EXCEPT ![k] = uses[k] + 1]
      BY <2>1, <2>3
    <3> HIDE DEF k
    <3>5. \A j \in 1..MaxLinks : uses'[j] = IF j = k THEN 1 ELSE uses[j]
      BY <1>1, <3>2, <3>4 DEF Unspent
    <3>6. \A j \in Nat : j # k /\ Unspent(j) => Unspent(j)'
      BY <3>5 DEF Unspent
    <3>7. \A q \in Requests : ~Holder(pc'[q], loc'[q], k)
      BY <1>5, <3>1, <3>2, <3>3 DEF NoNewHolder
    <3>8. \A m \in links : m.id \in Nat
      BY <1>1
    <3>9. \A j \in 1..MaxLinks : uses'[j] <= 1 /\ (j > sent' => uses'[j] = 0)
      BY <1>1, <2>1, <3>2, <3>5 DEF LinksInv
    <3>10. \A m \in links' : m.for = "reset" =>
             Unspent(m.id)' /\ \A q \in Requests : ~Holder(pc'[q], loc'[q], m.id)
      BY <1>5, <2>1, <3>2, <3>6, <3>8 DEF LinksInv, NoNewHolder
    <3>11. \A q \in Requests : \A j \in Nat : Holder(pc'[q], loc'[q], j) =>
             /\ j \in 1..sent' /\ Unspent(j)'
             /\ \A p \in Requests : Holder(pc'[p], loc'[p], j) => p = q
      BY <1>5, <2>1, <3>6, <3>7 DEF LinksInv, NoNewHolder
    <3>12. \A m, j \in links' : m.id = j.id => m = j
      BY <2>1 DEF LinksInv
    <3> QED BY <3>9, <3>10, <3>11, <3>12 DEF LinksInv
  <2> QED BY <2>2, <2>3
<1>6. CASE NoNewHolder
  <2> USE DEF Begin, Local, redis, counts, history
  <2>1. ASSUME NEW r \in Requests, SendVerification(r) \/ RequestReset(r)
        PROVE  LinksInv'
    BY <1>4, <1>6, <2>1 DEF SendVerification, RequestReset
  <2>2. ASSUME NEW r \in Requests, Step(r),
               ~SendVerification(r), ~RequestReset(r), ~WritePassword(r), ~BeginReset(r)
        PROVE  UNCHANGED <<sent, uses>> /\ links' \subseteq links
    <3>1. CASE TokenRequest(r) \/ FactorRequest(r)
      BY <3>1 DEF TokenRequest, BeginRotate, BeginLogout, BeginLogoutAll, BeginSetStatus,
                  FactorRequest, Enroll, BeginActivate, BeginDisable
    <3>2. CASE AccountRequest(r)
      BY <2>2, <3>2 DEF AccountRequest, BeginRegister, BeginLogin, BeginChange, BeginVerify
    <3>3. CASE Continue(r)
      BY <2>2, <3>3
         DEF Continue, CreateUser, IssueNewFamily, VerifyPassword, VerifyAppCode, VerifyBackupCode,
             Rehash, Rotate, RevokeScan, RevokeApply, CheckCurrent, Unlink, MarkEmailVerified,
             EnableTotp, DropPending, DisableTotp, Crash
    <3> QED BY <2>2, <3>1, <3>2, <3>3 DEF Step
  <2>3. CASE (\E t \in DOMAIN tokens : Expire(t)) \/ RaiseParameters
    BY <1>3, <1>6, <2>3 DEF Expire, RaiseParameters
  <2> QED BY <1>2, <1>3, <1>5, <1>6, <2>1, <2>2, <2>3 DEF Next
<1> QED BY <1>2, <1>6, HoldersStay

-----------------------------------------------------------------------------
(* One request at a time, none of which dies. *)

\* There is nobody's session yet, if there is no account.
Unborn == account.status = "NONE" => Len(tokens) = 0

\* No session is left that was signed out, nor any of an account that is barred.
Current ==
  \A t \in 1..Len(tokens) : ~tokens[t].revoked =>
    tokens[t].family \notin ended /\ account.status \notin Barred

\* A new password is in force, and older sessions may still be open ...
Written == account.password = passwords /\ Current /\ Unborn

\* ... and they no longer are.
Settled ==
  Written /\ \A t \in 1..Len(tokens) : ~tokens[t].revoked => tokens[t].under = account.password

Same(x, y) ==
  x.password = y.password /\ x.status = y.status /\ x.totp = y.totp /\ x.codes = y.codes

\* What the one request under way, stopped at `label' with the locals l, can count on.
Sound(label, l) ==
  /\ IF label \in {"scan", "revoke"} /\ l.kind \in {"change", "reset"} THEN Written ELSE Settled
  /\ label \in {"verify", "code"} => Same(l.row, account)
  /\ label = "verify" => account.status # "NONE"
  /\ label = "code" => account.totp
  /\ label \in {"rehash", "issue", "invite"} \/ (label = "code" /\ l.kind = "login") =>
       l.typed = account.password /\ account.status \notin Barred \cup {"NONE"}
  /\ label = "revoke" => l.rows = Concerned(l)

\* A backup code was accepted once, and is then off the list.
CodesSound ==
  /\ \A c \in 1..MaxCodes :
       /\ redeemed[c] <= 1
       /\ c > given \/ c \in account.codes => redeemed[c] = 0
  /\ account.codes \subseteq 1..given
  /\ account.codes # {} => account.totp

Alone(r) == \A q \in Requests : q # r => pc[q] = "idle"
Calm == \A q \in Requests : pc[q] = "idle"

SmoothInv ==
  smooth =>
    /\ CodesSound
    /\ Calm => Settled
    /\ \A r \in Requests : pc[r] # "idle" => Alone(r) /\ Sound(pc[r], loc[r])

LEMMA GotoSmooth ==
  ASSUME ControlOK, NEW r \in Requests, NEW label, NEW l, Goto(r, label, l), Alone(r),
         smooth' => CodesSound' /\ Sound(label, l)'
  PROVE  SmoothInv'
<1> SUFFICES ASSUME smooth' PROVE SmoothInv'
  BY DEF SmoothInv
<1>1. /\ pc' = [pc EXCEPT ![r] = label] /\ loc' = [loc EXCEPT ![r] = l]
      /\ pc'[r] = label /\ loc'[r] = l
      /\ \A q \in Requests : q # r => pc'[q] = "idle"
  BY DEF ControlOK, Goto, Alone
<1>2. Sound(pc[r], loc[r])'
  BY <1>1 DEF Sound, Concerned, LiveIn
<1>3. Calm' => Settled'
  <2>1. Calm' => label = "idle"
    BY <1>1 DEF Calm
  <2> QED BY <2>1 DEF Sound
<1>4. ASSUME NEW q \in Requests, pc'[q] # "idle"
      PROVE  Alone(q)' /\ Sound(pc[q], loc[q])'
  <2>1. q = r
    BY <1>1, <1>4
  <2> QED BY <1>1, <1>2, <2>1 DEF Alone
<1> QED BY <1>3, <1>4 DEF SmoothInv

\* What the account, the tokens and the sessions that ended do not notice.
LEMMA QuietStep ==
  ASSUME UNCHANGED <<tokens, ended, passwords>>,
         account'.password = account.password, account'.status = account.status
  PROVE  /\ Settled' <=> Settled
         /\ Written' <=> Written
  BY DEF Settled, Written, Current, Unborn

LEMMA SoundStays ==
  ASSUME UNCHANGED <<account, tokens, ended, passwords>>, NEW label, NEW l
  PROVE  Sound(label, l)' <=> Sound(label, l)
<1>1. Concerned(l)' = Concerned(l)
  BY DEF Concerned, LiveIn
<1> QED BY <1>1, QuietStep DEF Sound

\* A request that starts finds all requests idle.
LEMMA SmoothStart ==
  ASSUME DataOK, ControlOK, SmoothInv, NEW r \in Requests,
         TokenRequest(r) \/ AccountRequest(r) \/ FactorRequest(r)
  PROVE  SmoothInv'
<1> USE DEF Local, redis, counts, history
<1>1. UNCHANGED <<account, tokens, ended, passwords, given, redeemed>>
  BY DEF TokenRequest, BeginRotate, BeginLogout, BeginLogoutAll, BeginSetStatus,
         AccountRequest, BeginRegister, BeginLogin, BeginChange, RequestReset, BeginReset, BeginVerify,
         FactorRequest, Enroll, BeginActivate, BeginDisable
<1>2. CASE RequestReset(r) \/ Enroll(r)
  <2>1. UNCHANGED <<pc, loc, smooth>>
    BY <1>2 DEF RequestReset, Enroll
  <2>2. (Settled' <=> Settled) /\ (CodesSound' <=> CodesSound) /\ (Calm' <=> Calm)
    BY <1>1, <2>1, QuietStep DEF CodesSound, Calm
  <2>3. \A q \in Requests : Alone(q)' <=> Alone(q)
    BY <2>1 DEF Alone
  <2>4. ASSUME NEW q \in Requests PROVE Sound(pc[q], loc[q])' <=> Sound(pc[q], loc[q])
    <3>1. Concerned(loc[q])' = Concerned(loc[q])
      BY <1>1, <2>1 DEF Concerned, LiveIn
    <3> QED BY <1>1, <2>1, <3>1, QuietStep DEF Sound
  <2> QED BY <2>1, <2>2, <2>3, <2>4 DEF SmoothInv
<1>3. ASSUME NEW label, NEW l, Begin(r, label, l), Settled => Sound(label, l)
      PROVE  SmoothInv'
  <2>1. smooth' => smooth /\ Calm
    BY <1>3 DEF Begin, Calm
  <2>2. CASE smooth'
    <3>1. Settled /\ CodesSound /\ Alone(r)
      BY <2>1, <2>2 DEF SmoothInv, Calm, Alone
    <3>2. Sound(label, l)' /\ CodesSound'
      BY <1>1, <1>3, <3>1, SoundStays DEF CodesSound
    <3> QED BY <1>3, <3>1, <3>2, GotoSmooth DEF Begin
  <2> QED BY <2>2 DEF SmoothInv
<1>4. CASE BeginRotate(r)
  <2>1. PICK t \in DOMAIN tokens :
          Begin(r, "rotate", [Blank EXCEPT !.kind = "refresh", !.token = t, !.seen = tokens])
    BY <1>4 DEF BeginRotate
  <2>2. Settled => Sound("rotate", [Blank EXCEPT !.kind = "refresh", !.token = t, !.seen = tokens])
    BY DEF Sound
  <2> QED BY <1>3, <2>1, <2>2
<1>5. CASE BeginLogout(r)
  <2>1. PICK t \in DOMAIN tokens :
          Begin(r, "scan", [Blank EXCEPT !.kind = "logout", !.token = tokens[t].family])
    BY <1>5 DEF BeginLogout
  <2>2. Settled => Sound("scan", [Blank EXCEPT !.kind = "logout", !.token = tokens[t].family])
    BY DEF Sound, Blank
  <2> QED BY <1>3, <2>1, <2>2
<1>6. CASE BeginLogoutAll(r)
  <2>1. Settled => Sound("scan", [Blank EXCEPT !.kind = "logoutAll"])
    BY DEF Sound, Blank
  <2> QED BY <1>3, <1>6, <2>1 DEF BeginLogoutAll
<1>7. CASE BeginSetStatus(r)
  <2>1. \A s : Settled => Sound("scan", [Blank EXCEPT !.kind = "status", !.status = s])
    BY DEF Sound, Blank
  <2> QED BY <1>3, <1>7, <2>1 DEF BeginSetStatus
<1>8. CASE BeginRegister(r)
  <2>1. Settled => Sound("create", [Blank EXCEPT !.kind = "register"])
    BY DEF Sound
  <2> QED BY <1>3, <1>8, <2>1 DEF BeginRegister
<1>9. CASE BeginLogin(r)
  <2>1. PICK typed \in 1..passwords, code \in AppCodes \cup BackupCodes \cup {Null} :
          Begin(r, "verify", [Blank EXCEPT !.kind = "login", !.row = account, !.typed = typed,
                                           !.code = code])
    BY <1>9 DEF BeginLogin
  <2>2. account.status # "NONE"
    BY <1>9 DEF BeginLogin
  <2>3. Settled => Sound("verify", [Blank EXCEPT !.kind = "login", !.row = account, !.typed = typed,
                                                 !.code = code])
    BY <2>2 DEF Sound, Blank, Same
  <2> QED BY <1>3, <2>1, <2>3
<1>10. CASE BeginChange(r)
  <2>1. PICK typed \in 1..passwords :
          Begin(r, "check", [Blank EXCEPT !.kind = "change", !.row = account, !.typed = typed])
    BY <1>10 DEF BeginChange
  <2>2. Settled => Sound("check", [Blank EXCEPT !.kind = "change", !.row = account, !.typed = typed])
    BY DEF Sound
  <2> QED BY <1>3, <2>1, <2>2
<1>11. CASE BeginReset(r)
  <2>1. \A k : Settled => Sound("write", [Blank EXCEPT !.kind = "reset", !.link = k])
    BY DEF Sound
  <2> QED BY <1>3, <1>11, <2>1 DEF BeginReset
<1>12. CASE BeginVerify(r)
  <2>1. \A k : Settled => Sound("unlink", [Blank EXCEPT !.kind = "verify", !.link = k])
    BY DEF Sound
  <2> QED BY <1>3, <1>12, <2>1 DEF BeginVerify
<1>13. CASE BeginActivate(r)
  <2>1. Settled => Sound("enable", [Blank EXCEPT !.kind = "activate"])
    BY DEF Sound
  <2> QED BY <1>3, <1>13, <2>1 DEF BeginActivate
<1>14. CASE BeginDisable(r)
  <2>1. PICK code \in AppCodes \cup BackupCodes :
          Begin(r, "code", [Blank EXCEPT !.kind = "disable", !.row = account, !.code = code])
    BY <1>14 DEF BeginDisable
  <2>2. account.totp
    BY <1>14 DEF BeginDisable
  <2>3. Settled => Sound("code", [Blank EXCEPT !.kind = "disable", !.row = account, !.code = code])
    BY <2>2 DEF Sound, Blank, Same
  <2> QED BY <1>3, <2>1, <2>3
<1> QED
  BY <1>2, <1>4, <1>5, <1>6, <1>7, <1>8, <1>9, <1>10, <1>11, <1>12, <1>13, <1>14
     DEF TokenRequest, AccountRequest, FactorRequest

\* Sessions are opened for one who proved the password, and closed.
LEMMA SessionsStep ==
  ASSUME DataOK, ControlOK, TokensInv, KindsOK, NEW r \in Requests, NEW l, l = loc[r],
         IssueNewFamily(r) \/ Rotate(r) \/ RevokeApply(r),
         Sound(pc[r], l)
  PROVE  Settled'
<1> USE DEF redis, counts, history
<1>1. /\ tokens \in Seq(TokenRow) /\ Len(tokens) \in Nat /\ DOMAIN tokens = 1..Len(tokens)
      /\ ended \subseteq 1..Len(tokens) /\ SnapshotOK(r)
      /\ \A t \in 1..Len(tokens) : tokens[t].family \in 1..t
      /\ l \in Locals
  BY DomainIsLength DEF DataOK, ControlOK, RowsOK, TokensInv
<1>2. CASE IssueNewFamily(r)
  <2>1. /\ tokens' = Append(tokens, Token(Len(tokens) + 1, l.typed))
        /\ UNCHANGED <<account, passwords, ended>>
        /\ l.typed = account.password /\ account.status \notin Barred \cup {"NONE"}
        /\ Settled
    BY <1>2 DEF IssueNewFamily, Sound
  <2>2. l.typed \in Nat
    BY <1>1 DEF Locals
  <2>3. /\ Len(tokens') = Len(tokens) + 1
        /\ \A u \in 1..Len(tokens) : tokens'[u] = tokens[u]
        /\ tokens'[Len(tokens) + 1] = Token(Len(tokens) + 1, l.typed)
    BY <1>1, <2>1, <2>2, NewFamilyRows
  <2>4. LET x == Token(Len(tokens) + 1, l.typed) IN
        x.family = Len(tokens) + 1 /\ x.under = account.password
    BY <2>1 DEF Token
  <2>5. Len(tokens) + 1 \notin ended
    BY <1>1
  <2>6. \A t \in 1..Len(tokens') : t \in 1..Len(tokens) \/ t = Len(tokens) + 1
    BY <1>1, <2>3
  <2>7. ASSUME NEW t \in 1..Len(tokens'), ~tokens'[t].revoked
        PROVE  tokens'[t].family \notin ended /\ tokens'[t].under = account.password
    <3>1. CASE t \in 1..Len(tokens)
      BY <2>1, <2>3, <2>7, <3>1 DEF Settled, Written, Current
    <3>2. CASE t = Len(tokens) + 1
      BY <2>3, <2>4, <2>5, <3>2
    <3> QED BY <2>6, <3>1, <3>2
  <2> QED BY <2>1, <2>7 DEF Settled, Written, Current, Unborn
<1>3. CASE Rotate(r)
  <2>1. UNCHANGED <<account, passwords, ended>> /\ Settled
    BY <1>3 DEF Rotate, Sound
  <2>2. CASE UNCHANGED tokens
    BY <2>1, <2>2, QuietStep
  <2>3. CASE Rotated(r)
    <3> DEFINE k == l.token
    <3>1. k \in 1..Len(tokens) /\ ~tokens[k].revoked
      BY <1>1, <2>3, RotatesTheLiving
    <3>2. /\ Len(tokens') = Len(tokens) + 1
          /\ \A u \in 1..Len(tokens) :
               /\ tokens'[u].family = tokens[u].family /\ tokens'[u].under = tokens[u].under
               /\ tokens'[u].revoked <=> tokens[u].revoked \/ u = k
          /\ tokens'[Len(tokens) + 1].family = tokens[k].family
          /\ tokens'[Len(tokens) + 1].under = tokens[k].under
      BY <1>1, <2>3, RotatesTheLiving
    <3> HIDE DEF k
    <3>4. \A t \in 1..Len(tokens') : t \in 1..Len(tokens) \/ t = Len(tokens) + 1
      BY <1>1, <3>2
    <3>5. ASSUME NEW t \in 1..Len(tokens'), ~tokens'[t].revoked
          PROVE  /\ tokens'[t].family \notin ended /\ tokens'[t].under = account.password
                 /\ account.status \notin Barred
      <4>1. CASE t \in 1..Len(tokens)
        BY <2>1, <3>2, <3>5, <4>1 DEF Settled, Written, Current
      <4>2. CASE t = Len(tokens) + 1
        BY <2>1, <3>1, <3>2, <4>2 DEF Settled, Written, Current
      <4> QED BY <3>4, <4>1, <4>2
    <3>6. account.status # "NONE"
      BY <1>1, <2>1, <3>1 DEF Settled, Written, Unborn
    <3> QED BY <2>1, <3>5, <3>6 DEF Settled, Written, Current, Unborn
  <2>4. CASE \E which : tokens' = Revoked(tokens, which)
    <3>1. PICK which : tokens' = Revoked(tokens, which)
      BY <2>4
    <3>2. /\ Len(tokens') = Len(tokens)
          /\ \A t \in 1..Len(tokens) :
               /\ tokens'[t].family = tokens[t].family /\ tokens'[t].under = tokens[t].under
               /\ tokens'[t].revoked <=> tokens[t].revoked \/ t \in which
      BY <1>1, <3>1, RevokedRows
    <3> QED BY <2>1, <3>2 DEF Settled, Written, Current, Unborn
  <2> QED BY <1>3, <2>2, <2>3, <2>4 DEF Rotate, Rotated, RevokedOnReuse
<1>4. CASE RevokeApply(r)
  <2>1. /\ pc[r] = "revoke" /\ passwords' = passwords
        /\ tokens' = Revoked(tokens, l.rows) /\ l.rows = Concerned(l)
        /\ account' = IF l.kind = "status" THEN [account EXCEPT !.status = l.status] ELSE account
        /\ ended' = CASE l.kind = "logout" -> ended \cup {l.token}
                      [] l.kind = "logoutAll" -> ended \cup Families
                      [] OTHER -> ended
    BY <1>4 DEF RevokeApply, Sound
  <2>2. KindAt("revoke", l, Len(tokens))
    BY <2>1 DEF KindsOK
  <2>3. /\ Len(tokens') = Len(tokens)
        /\ \A t \in 1..Len(tokens) :
             /\ tokens'[t].family = tokens[t].family /\ tokens'[t].under = tokens[t].under
             /\ tokens'[t].revoked <=> tokens[t].revoked \/ t \in l.rows
    BY <1>1, <2>1, RevokedRows
  <2>4. CASE l.kind = "logout"
    <3>1. \A t \in 1..Len(tokens) : ~tokens'[t].revoked => ~tokens[t].revoked /\ tokens[t].family # l.token
      BY <1>1, <2>1, <2>3, <2>4 DEF Concerned, LiveIn
    <3>2. Settled /\ UNCHANGED account /\ ended' = ended \cup {l.token}
      BY <2>1, <2>4 DEF Sound
    <3>3. ASSUME NEW t \in 1..Len(tokens), ~tokens'[t].revoked
          PROVE  /\ tokens'[t].family \notin ended' /\ tokens'[t].under = account.password
                 /\ account.status \notin Barred
      BY <2>3, <3>1, <3>2, <3>3 DEF Settled, Written, Current
    <3>4. Current' /\ \A t \in 1..Len(tokens') : ~tokens'[t].revoked => tokens'[t].under = account'.password
      BY <2>3, <3>2, <3>3 DEF Current
    <3>5. account'.password = passwords' /\ Unborn'
      BY <2>1, <2>3, <3>2 DEF Settled, Written, Unborn
    <3> QED BY <3>4, <3>5 DEF Settled, Written
  <2>5. CASE l.kind = "status" /\ l.status = "ACTIVE"
    <3>1. /\ Settled /\ UNCHANGED ended
          /\ account'.password = account.password /\ account'.status = "ACTIVE"
      BY <2>1, <2>5 DEF Sound, DataOK, AccountRow
    <3>2. "ACTIVE" \notin Barred /\ "ACTIVE" # "NONE"
      BY DEF Barred
    <3> QED BY <2>1, <2>3, <3>1, <3>2 DEF Settled, Written, Current, Unborn
  <2>6. CASE l.kind # "logout" /\ ~(l.kind = "status" /\ l.status = "ACTIVE")
    <3>1. l.rows = {t \in DOMAIN tokens : ~tokens[t].revoked}
      BY <2>1, <2>6 DEF Concerned
    <3>2. \A t \in 1..Len(tokens) : tokens'[t].revoked
      BY <1>1, <2>3, <3>1
    <3>3. Written /\ account'.password = account.password
      BY <2>1 DEF Sound, Settled, DataOK, AccountRow
    <3>4. account'.status = "NONE" => account.status = "NONE"
      BY <2>1, <2>2 DEF KindAt, Barred, DataOK, AccountRow
    <3> QED BY <2>1, <2>3, <3>2, <3>3, <3>4 DEF Settled, Written, Current, Unborn
  <2> QED BY <2>4, <2>5, <2>6
<1> QED BY <1>2, <1>3, <1>4

LEMMA SmoothContinue ==
  ASSUME DataOK, ControlOK, TokensInv, KindsOK, SmoothInv, NEW r \in Requests, Continue(r)
  PROVE  SmoothInv'
<1> SUFFICES ASSUME smooth' PROVE SmoothInv'
  BY DEF SmoothInv
<1> USE DEF Local, redis, counts, history
<1>1. ~Crash(r) /\ smooth /\ pc[r] # "idle"
  BY DEF Continue, CreateUser, SendVerification, IssueNewFamily, VerifyPassword, VerifyAppCode,
     VerifyBackupCode, Rehash, Rotate, RevokeScan, RevokeApply, CheckCurrent, WritePassword,
     Unlink, MarkEmailVerified, EnableTotp, DropPending, DisableTotp, Crash
<1>2. PICK l : l = loc[r]
  OBVIOUS
<1>3. Alone(r) /\ Sound(pc[r], l) /\ CodesSound
  BY <1>1, <1>2 DEF SmoothInv
<1>4. /\ l \in Locals /\ KindAt(pc[r], l, Len(tokens))
      /\ account \in AccountRow /\ passwords + 1 \in Nat /\ given \in Nat
      /\ redeemed \in [1..MaxCodes -> Nat]
  BY <1>2 DEF ControlOK, KindsOK, DataOK
\* The request is answered.
<1>5. ASSUME Reply(r), Settled', CodesSound' PROVE SmoothInv'
  <2>1. Sound("idle", Blank)'
    BY <1>5 DEF Sound
  <2> QED BY <1>3, <1>5, <2>1, GotoSmooth DEF Reply
\* It goes on.
<1>6. ASSUME NEW label, NEW m, Goto(r, label, m), Sound(label, m)', CodesSound' PROVE SmoothInv'
  BY <1>3, <1>6, GotoSmooth
\* The codes, where nothing of them is touched.
<1>7. ASSUME account'.codes = account.codes, account'.totp = account.totp, UNCHANGED <<given, redeemed>>
      PROVE  CodesSound'
  BY <1>3, <1>7 DEF CodesSound
<1>8. CASE CreateUser(r)
  <2>1. pc[r] = "create" /\ Settled
    BY <1>3, <1>8 DEF CreateUser, Sound
  <2>2. CASE account.status # "NONE"
    <3>1. Reply(r) /\ UNCHANGED <<account, passwords, tokens, ended, given, redeemed>>
      BY <1>8, <2>2 DEF CreateUser
    <3> QED BY <1>5, <1>7, <2>1, <3>1, QuietStep
  <2>3. CASE account.status = "NONE"
    <3>1. PICK m : m = [l EXCEPT !.typed = passwords + 1]
      OBVIOUS
    <3>2. /\ Goto(r, "invite", m) /\ passwords' = passwords + 1
          /\ account' = [account EXCEPT !.status = "PENDING_VERIFICATION", !.password = passwords + 1,
                                        !.outdated = FALSE]
          /\ UNCHANGED <<tokens, ended, given, redeemed>>
      BY <1>2, <1>8, <2>3, <3>1 DEF CreateUser
    <3>3. /\ account'.password = passwords' /\ account'.status = "PENDING_VERIFICATION"
          /\ account'.codes = account.codes /\ account'.totp = account.totp
          /\ m.typed = passwords'
      BY <1>4, <3>1, <3>2 DEF AccountRow, Locals
    <3>4. Len(tokens') = 0
      BY <2>1, <2>3, <3>2 DEF Settled, Written, Unborn
    <3>5. Settled'
      BY <3>3, <3>4 DEF Settled, Written, Current, Unborn
    <3>6. Sound("invite", m)'
      BY <3>3, <3>5 DEF Sound, Barred
    <3> QED BY <1>6, <1>7, <3>2, <3>3, <3>6
  <2> QED BY <2>2, <2>3
<1>9. CASE SendVerification(r)
  <2>1. /\ pc[r] = "invite" /\ Goto(r, "issue", l)
        /\ UNCHANGED <<account, tokens, passwords, ended, given, redeemed>>
    BY <1>2, <1>9 DEF SendVerification
  <2>2. Sound("issue", l)
    BY <1>3, <2>1 DEF Sound
  <2> QED BY <1>6, <1>7, <2>1, <2>2, SoundStays
<1>10. CASE IssueNewFamily(r) \/ Rotate(r) \/ RevokeApply(r)
  <2>1. Settled'
    BY <1>2, <1>3, <1>10, SessionsStep
  <2>2. /\ Reply(r) /\ UNCHANGED <<given, redeemed>>
        /\ account' = account \/ account' = [account EXCEPT !.status = l.status]
    BY <1>2, <1>10 DEF IssueNewFamily, Rotate, RevokeApply
  <2>3. account'.codes = account.codes /\ account'.totp = account.totp
    BY <1>4, <2>2 DEF AccountRow
  <2> QED BY <1>5, <1>7, <2>1, <2>2, <2>3
<1>11. CASE VerifyPassword(r)
  <2>1. /\ pc[r] = "verify" /\ UNCHANGED <<account, tokens, passwords, ended, given, redeemed>>
        /\ \/ Reply(r)
           \/ /\ l.typed = l.row.password /\ l.row.status \notin Barred
              /\ Goto(r, IF l.row.totp THEN "code" ELSE "rehash", l)
    BY <1>2, <1>11 DEF VerifyPassword
  <2>2. Settled /\ Same(l.row, account) /\ account.status # "NONE"
    BY <1>3, <2>1 DEF Sound
  <2>3. CASE Reply(r)
    BY <1>5, <1>7, <2>1, <2>2, <2>3, QuietStep
  <2>4. CASE ~Reply(r)
    <3>1. l.typed = account.password /\ account.status \notin Barred \cup {"NONE"}
      BY <2>1, <2>2, <2>4 DEF Same
    <3>2. IF l.row.totp THEN Sound("code", l) ELSE Sound("rehash", l)
      BY <2>2, <3>1 DEF Sound, Same
    <3>3. Sound(IF l.row.totp THEN "code" ELSE "rehash", l)'
      BY <2>1, <3>2, SoundStays
    <3> QED BY <1>6, <1>7, <2>1, <2>4, <3>3
  <2> QED BY <2>3, <2>4
<1>12. CASE VerifyAppCode(r) \/ VerifyBackupCode(r)
  <2>1. /\ pc[r] = "code" /\ (Reply(r) \/ AfterCode(r))
        /\ UNCHANGED <<tokens, passwords, ended, given>>
    BY <1>12 DEF VerifyAppCode, VerifyBackupCode
  <2>2. /\ Settled /\ Same(l.row, account) /\ account.totp
        /\ l.kind = "login" => l.typed = account.password /\ account.status \notin Barred \cup {"NONE"}
    BY <1>3, <2>1 DEF Sound
  <2>3. /\ account'.password = account.password /\ account'.status = account.status
        /\ CodesSound'
    <3>1. CASE UNCHANGED <<account, redeemed>>
      BY <1>7, <2>1, <3>1
    <3>2. CASE ~UNCHANGED <<account, redeemed>>
      <4>1. /\ l.code \in account.codes
            /\ account' = [account EXCEPT !.codes = account.codes \ {l.code}]
            /\ redeemed' = [redeemed EXCEPT ![l.code] = redeemed[l.code] + 1]
        BY <1>2, <1>12, <2>2, <3>2 DEF VerifyAppCode, VerifyBackupCode, CodesLeft, Same
      <4>2. /\ account'.password = account.password /\ account'.status = account.status
            /\ account'.totp = account.totp /\ account'.codes = account.codes \ {l.code}
        BY <1>4, <4>1 DEF AccountRow
      <4>3. l.code \in 1..given
        BY <1>3, <4>1 DEF CodesSound
      <4>4. ASSUME NEW c \in 1..MaxCodes
            PROVE  /\ redeemed'[c] <= 1
                   /\ c > given' \/ c \in account'.codes => redeemed'[c] = 0
        <5>1. CASE c = l.code
          <6>1. redeemed[c] = 0 /\ redeemed'[c] = redeemed[c] + 1
            BY <1>3, <1>4, <4>1, <5>1 DEF CodesSound
          <6>2. ~(c > given) /\ c \notin account'.codes
            BY <1>4, <4>2, <4>3, <5>1
          <6> QED BY <2>1, <6>1, <6>2
        <5>2. CASE c # l.code
          <6>1. redeemed'[c] = redeemed[c]
            BY <1>4, <4>1, <5>2
          <6> QED BY <1>3, <2>1, <4>2, <6>1 DEF CodesSound
        <5> QED BY <5>1, <5>2
      <4>5. account'.codes \subseteq 1..given' /\ account'.totp
        BY <1>3, <2>1, <2>2, <4>2 DEF CodesSound
      <4> QED BY <4>2, <4>4, <4>5 DEF CodesSound
    <3> QED BY <3>1, <3>2
  <2>4. Settled'
    BY <2>1, <2>2, <2>3, QuietStep
  <2>5. CASE Reply(r)
    BY <1>5, <2>3, <2>4, <2>5
  <2>6. CASE AfterCode(r)
    <3>1. PICK label : label = IF l.kind = "login" THEN "rehash" ELSE "disable"
      OBVIOUS
    <3>2. Sound(label, l)'
      BY <2>2, <2>3, <2>4, <3>1 DEF Sound
    <3>3. Goto(r, label, l)
      BY <1>2, <2>6, <3>1 DEF AfterCode
    <3> QED BY <1>6, <2>3, <3>2, <3>3
  <2> QED BY <2>1, <2>5, <2>6
<1>13. CASE Rehash(r)
  <2>1. /\ pc[r] = "rehash" /\ Goto(r, "issue", l)
        /\ account' = IF l.row.outdated THEN [account EXCEPT !.password = l.typed, !.outdated = FALSE]
                      ELSE account
        /\ UNCHANGED <<tokens, passwords, ended, given, redeemed>>
    BY <1>2, <1>13 DEF Rehash
  <2>2. Settled /\ l.typed = account.password /\ account.status \notin Barred \cup {"NONE"}
    BY <1>3, <2>1 DEF Sound
  <2>3. /\ account'.password = account.password /\ account'.status = account.status
        /\ account'.codes = account.codes /\ account'.totp = account.totp
    BY <1>4, <2>1, <2>2 DEF AccountRow
  <2>4. Sound("issue", l)'
    BY <2>1, <2>2, <2>3, QuietStep DEF Sound
  <2> QED BY <1>6, <1>7, <2>1, <2>3, <2>4
<1>14. CASE RevokeScan(r)
  <2>1. PICK m : m = [l EXCEPT !.rows = Concerned(l)]
    OBVIOUS
  <2>2. /\ pc[r] = "scan" /\ Goto(r, "revoke", m)
        /\ UNCHANGED <<account, tokens, passwords, ended, given, redeemed>>
    BY <1>2, <1>14, <2>1 DEF RevokeScan
  <2>3. /\ m.kind = l.kind /\ m.token = l.token /\ m.status = l.status
        /\ m.rows = Concerned(l)
    BY <1>4, <2>1 DEF Locals
  <2>4. Concerned(m) = Concerned(l)
    BY <2>3 DEF Concerned
  <2>5. Sound("revoke", m)
    BY <1>3, <2>2, <2>3, <2>4 DEF Sound
  <2> QED BY <1>6, <1>7, <2>2, <2>5, SoundStays
<1>15. CASE CheckCurrent(r)
  <2>1. /\ pc[r] = "check" /\ (Reply(r) \/ Goto(r, "write", l))
        /\ UNCHANGED <<account, tokens, passwords, ended, given, redeemed>>
    BY <1>2, <1>15 DEF CheckCurrent
  <2>2. Sound("write", l) /\ Settled
    BY <1>3, <2>1 DEF Sound
  <2> QED BY <1>5, <1>6, <1>7, <2>1, <2>2, SoundStays, QuietStep
<1>16. CASE WritePassword(r)
  <2>1. /\ pc[r] = "write" /\ Goto(r, "scan", l) /\ passwords' = passwords + 1
        /\ account' = [account EXCEPT !.password = passwords + 1, !.outdated = FALSE]
        /\ UNCHANGED <<tokens, ended, given, redeemed>>
    BY <1>2, <1>16 DEF WritePassword
  <2>2. Settled /\ l.kind \in {"change", "reset"}
    BY <1>3, <1>4, <2>1 DEF Sound, KindAt
  <2>3. /\ account'.password = passwords' /\ account'.status = account.status
        /\ account'.codes = account.codes /\ account'.totp = account.totp
    BY <1>4, <2>1 DEF AccountRow
  <2>4. Written'
    BY <2>1, <2>2, <2>3 DEF Settled, Written, Current, Unborn
  <2>5. Sound("scan", l)'
    BY <2>2, <2>4 DEF Sound
  <2> QED BY <1>6, <1>7, <2>1, <2>3, <2>5
<1>17. CASE Unlink(r)
  <2>1. /\ pc[r] = "unlink" /\ Goto(r, "mark", l)
        /\ UNCHANGED <<account, tokens, passwords, ended, given, redeemed>>
    BY <1>2, <1>17 DEF Unlink
  <2>2. Sound("mark", l)
    BY <1>3, <2>1 DEF Sound
  <2> QED BY <1>6, <1>7, <2>1, <2>2, SoundStays
<1>18. CASE MarkEmailVerified(r)
  <2>1. /\ pc[r] = "mark" /\ Reply(r) /\ account' = [account EXCEPT !.status = "ACTIVE"]
        /\ UNCHANGED <<tokens, passwords, ended, given, redeemed>>
    BY <1>18 DEF MarkEmailVerified
  <2>2. /\ account'.password = account.password /\ account'.status = "ACTIVE"
        /\ account'.codes = account.codes /\ account'.totp = account.totp
    BY <1>4, <2>1 DEF AccountRow
  <2>3. Settled
    BY <1>3, <2>1 DEF Sound
  <2>4. Settled'
    BY <2>1, <2>2, <2>3 DEF Settled, Written, Current, Unborn, Barred
  <2> QED BY <1>5, <1>7, <2>1, <2>2, <2>4
<1>19. CASE EnableTotp(r)
  <2>1. /\ pc[r] = "enable" /\ Goto(r, "settle", l) /\ given' = given + 2
        /\ account' = [account EXCEPT !.totp = TRUE, !.codes = {given + 1, given + 2}]
        /\ UNCHANGED <<tokens, passwords, ended, redeemed>>
    BY <1>2, <1>19 DEF EnableTotp
  <2>2. /\ account'.password = account.password /\ account'.status = account.status
        /\ account'.codes = {given + 1, given + 2} /\ account'.totp
    BY <1>4, <2>1 DEF AccountRow
  <2>3. CodesSound'
    BY <1>3, <1>4, <2>1, <2>2 DEF CodesSound
  <2>4. Settled
    BY <1>3, <2>1 DEF Sound
  <2>5. Sound("settle", l)'
    BY <2>1, <2>2, <2>4, QuietStep DEF Sound
  <2> QED BY <1>6, <2>1, <2>3, <2>5
<1>20. CASE DropPending(r)
  <2>1. /\ pc[r] = "settle" /\ Reply(r)
        /\ UNCHANGED <<account, tokens, passwords, ended, given, redeemed>>
    BY <1>20 DEF DropPending
  <2>2. Settled
    BY <1>3, <2>1 DEF Sound
  <2> QED BY <1>5, <1>7, <2>1, <2>2, QuietStep
<1>21. CASE DisableTotp(r)
  <2>1. /\ pc[r] = "disable" /\ Reply(r) /\ account' = [account EXCEPT !.totp = FALSE, !.codes = {}]
        /\ UNCHANGED <<tokens, passwords, ended, given, redeemed>>
    BY <1>21 DEF DisableTotp
  <2>2. /\ account'.password = account.password /\ account'.status = account.status
        /\ account'.codes = {}
    BY <1>4, <2>1 DEF AccountRow
  <2>3. CodesSound'
    BY <1>3, <2>1, <2>2 DEF CodesSound
  <2>4. Settled
    BY <1>3, <2>1 DEF Sound
  <2> QED BY <1>5, <2>1, <2>2, <2>3, <2>4, QuietStep
<1> QED
  BY <1>1, <1>8, <1>9, <1>10, <1>11, <1>12, <1>13, <1>14, <1>15, <1>16, <1>17, <1>18, <1>19,
     <1>20, <1>21 DEF Continue

LEMMA SmoothElse ==
  ASSUME DataOK, ControlOK, SmoothInv, (\E t \in DOMAIN tokens : Expire(t)) \/ RaiseParameters
  PROVE  SmoothInv'
<1> USE DEF counts, history
<1>1. /\ tokens \in Seq(TokenRow) /\ DOMAIN tokens = 1..Len(tokens) /\ account \in AccountRow
  BY DomainIsLength DEF DataOK, RowsOK
<1>2. /\ UNCHANGED <<passwords, ended, given, redeemed, smooth, pc, loc>>
      /\ account' = account \/ account' = [account EXCEPT !.outdated = TRUE]
  BY DEF Expire, RaiseParameters
<1>3. /\ account'.password = account.password /\ account'.status = account.status
      /\ account'.totp = account.totp /\ account'.codes = account.codes
  BY <1>1, <1>2 DEF AccountRow
<1>4. /\ Len(tokens') = Len(tokens) /\ DOMAIN tokens' = DOMAIN tokens
      /\ \A u \in 1..Len(tokens) :
           /\ tokens'[u].family = tokens[u].family /\ tokens'[u].under = tokens[u].under
           /\ tokens'[u].revoked = tokens[u].revoked
  <2>1. CASE RaiseParameters
    BY <2>1 DEF RaiseParameters
  <2>2. CASE \E t \in DOMAIN tokens : Expire(t)
    <3>1. PICK t \in 1..Len(tokens) : tokens' = [tokens EXCEPT ![t].expired = TRUE]
      BY <1>1, <2>2 DEF Expire
    <3>2. /\ tokens' \in Seq(TokenRow) /\ Len(tokens') = Len(tokens)
          /\ \A u \in 1..Len(tokens) :
               /\ tokens'[u].family = tokens[u].family /\ tokens'[u].under = tokens[u].under
               /\ tokens'[u].revoked = tokens[u].revoked
      BY <1>1, <3>1, ExpiredRows
    <3> QED BY <1>1, <3>2, DomainIsLength
  <2> QED BY <2>1, <2>2
<1>5. (Settled' <=> Settled) /\ (Written' <=> Written)
  BY <1>2, <1>3, <1>4 DEF Settled, Written, Current, Unborn
<1>6. CodesSound' <=> CodesSound
  BY <1>2, <1>3 DEF CodesSound
<1>7. ASSUME NEW r \in Requests PROVE Sound(pc[r], loc[r]) => Sound(pc[r], loc[r])'
  <2>1. pc'[r] = pc[r] /\ loc'[r] = loc[r]
    BY <1>2
  <2>2. /\ LiveIn(tokens', loc[r].token) = LiveIn(tokens, loc[r].token)
        /\ {t \in DOMAIN tokens' : ~tokens'[t].revoked} = {t \in DOMAIN tokens : ~tokens[t].revoked}
    BY <1>1, <1>4 DEF LiveIn
  <2>3. Concerned(loc[r])' = Concerned(loc[r])
    BY <2>1, <2>2 DEF Concerned
  <2>4. Same(loc[r].row, account) => Same(loc[r].row, account)'
    BY <1>3, <2>1 DEF Same
  <2> QED BY <1>3, <1>5, <2>1, <2>3, <2>4 DEF Sound
<1>8. /\ Calm' <=> Calm
      /\ \A r \in Requests : Alone(r)' <=> Alone(r)
  BY <1>2 DEF Calm, Alone
<1> QED BY <1>2, <1>5, <1>6, <1>7, <1>8 DEF SmoothInv

LEMMA NextSmooth ==
  ASSUME DataOK, ControlOK, TokensInv, KindsOK, SmoothInv, Next PROVE SmoothInv'
<1>1. ASSUME NEW r \in Requests, Step(r) PROVE SmoothInv'
  BY <1>1, SmoothStart, SmoothContinue DEF Step
<1> QED BY <1>1, SmoothElse DEF Next

-----------------------------------------------------------------------------
(* The theorems. *)

IInv == DataOK /\ ControlOK /\ TokensInv /\ KindsOK /\ LinksInv /\ SmoothInv

LEMMA InitInv == Init => IInv
<1> SUFFICES ASSUME Init PROVE IInv
  OBVIOUS
<1> DEFINE first == Token(1, 1)
<1>1. \/ account = Nobody /\ tokens = <<>> /\ passwords = 0 /\ given = 0
      \/ account = Member({}) /\ tokens = <<first>> /\ passwords = 1 /\ given = 0
      \/ account = Member({1, 2}) /\ tokens = <<first>> /\ passwords = 1 /\ given = 2
  BY DEF Init
<1>2. /\ links = {} /\ pending = FALSE /\ spent = {} /\ sent = 0 /\ ended = {} /\ reused = {}
      /\ uses = [l \in 1..MaxLinks |-> 0] /\ redeemed = [c \in 1..MaxCodes |-> 0] /\ smooth = TRUE
      /\ pc = [r \in Requests |-> "idle"] /\ loc = [r \in Requests |-> Blank]
  BY DEF Init
<1>3. /\ first \in TokenRow /\ first.family = 1 /\ first.under = 1
      /\ ~first.used /\ ~first.revoked
  BY TokenIsRow
<1>4. /\ Nobody \in AccountRow /\ Nobody.status = "NONE" /\ Nobody.password = 0 /\ Nobody.codes = {}
      /\ \A codes \in SUBSET Nat :
           /\ Member(codes) \in AccountRow /\ Member(codes).status = "ACTIVE"
           /\ Member(codes).password = 1 /\ Member(codes).codes = codes
           /\ Member(codes).totp = (codes # {})
  BY DEF Nobody, Member, AccountRow, Statuses
<1>5. /\ Blank \in Locals /\ "idle" \in Labels
      /\ \A r \in Requests : pc[r] = "idle" /\ loc[r] = Blank
  BY <1>2, BlankOK
<1> HIDE DEF first
<1>6. /\ tokens \in Seq(TokenRow) /\ Len(tokens) \in {0, 1} /\ DOMAIN tokens = 1..Len(tokens)
      /\ \A t \in 1..Len(tokens) : t = 1 /\ tokens[t] = first
      /\ account.status = "NONE" => Len(tokens) = 0
  <2>1. CASE tokens = <<>>
    BY <2>1
  <2>2. CASE tokens = <<first>>
    <3>1. account = Member({}) \/ account = Member({1, 2})
      BY <1>1, <2>2
    <3>2. account.status = "ACTIVE"
      BY <1>4, <3>1
    <3> QED BY <1>3, <2>2, <3>2
  <2> QED BY <1>1, <2>1, <2>2
<1>7. DataOK
  <2>1. account \in AccountRow /\ passwords \in Nat /\ given \in Nat
    BY <1>1, <1>4
  <2>2. uses \in [1..MaxLinks -> Nat] /\ redeemed \in [1..MaxCodes -> Nat]
    BY <1>2
  <2>3. RowsOK(tokens)
    BY <1>3, <1>6 DEF RowsOK
  <2>4. links \subseteq [id : 1..sent, for : {"verify", "reset"}] /\ spent \subseteq AppCodes
    BY <1>2
  <2> QED BY <1>2, <2>1, <2>2, <2>3, <2>4 DEF DataOK
<1>8. ControlOK
  BY <1>2, <1>5 DEF ControlOK
<1>9. TokensInv
  BY <1>2, <1>5, <1>6 DEF TokensInv, Unrevoked, NoneReused, SnapshotOK
<1>10. KindsOK
  BY <1>5 DEF KindsOK, KindAt
<1>11. LinksInv
  BY <1>2, <1>5 DEF LinksInv, Holder, Unspent
<1>12. CodesSound
  <2>1. CASE account = Nobody \/ account = Member({})
    <3>1. account.codes = {}
      BY <1>4, <2>1
    <3> QED BY <1>2, <3>1 DEF CodesSound
  <2>2. CASE account = Member({1, 2}) /\ given = 2
    <3>1. {1, 2} \in SUBSET Nat /\ {1, 2} # {} /\ {1, 2} \subseteq 1..2
      OBVIOUS
    <3>2. account.totp /\ account.codes = {1, 2}
      <4>1. Member({1, 2}).totp = ({1, 2} # {}) /\ Member({1, 2}).codes = {1, 2}
        BY <1>4, <3>1, Zenon
      <4> QED BY <2>2, <3>1, <4>1, Zenon
    <3>3. \A c \in 1..MaxCodes : redeemed[c] = 0
      BY <1>2
    <3> QED BY <2>2, <3>1, <3>2, <3>3 DEF CodesSound
  <2> QED BY <1>1, <2>1, <2>2
<1>13. Settled
  <2>1. account.password = passwords /\ (Len(tokens) > 0 => account.password = 1 /\ account.status = "ACTIVE")
    BY <1>1, <1>4, <1>6
  <2> QED BY <1>2, <1>3, <1>6, <2>1 DEF Settled, Written, Current, Unborn, Barred
<1>14. SmoothInv
  BY <1>5, <1>12, <1>13 DEF SmoothInv
<1> QED BY <1>7, <1>8, <1>9, <1>10, <1>11, <1>14 DEF IInv

LEMMA StepInv == IInv /\ [Next]_vars => IInv'
<1> SUFFICES ASSUME IInv, [Next]_vars PROVE IInv'
  OBVIOUS
<1>1. CASE Next
  <2>1. DataOK' /\ ControlOK'
    BY <1>1, NextData, NextControl DEF IInv
  <2>2. TokensInv' /\ KindsOK'
    BY <1>1, NextTokens, NextKinds DEF IInv
  <2>3. LinksInv' /\ SmoothInv'
    BY <1>1, NextLinks, NextSmooth DEF IInv
  <2> QED BY <2>1, <2>2, <2>3 DEF IInv
<1>2. CASE UNCHANGED vars
  <2> USE <1>2 DEF vars, redis, counts, history
  <2>1. DataOK' /\ ControlOK' /\ KindsOK' /\ LinksInv'
    BY DEF IInv, DataOK, RowsOK, ControlOK, KindsOK, KindAt, LinksInv, Holder, Unspent
  <2>2. TokensInv'
    BY DEF IInv, TokensInv, Unrevoked, NoneReused, SnapshotOK, LiveIn
  <2>3. SmoothInv'
    <3>1. /\ (Settled' <=> Settled) /\ (CodesSound' <=> CodesSound) /\ (Calm' <=> Calm)
          /\ smooth' = smooth /\ pc' = pc /\ loc' = loc
      BY QuietStep DEF CodesSound, Calm
    <3>2. \A r \in Requests : Alone(r)' <=> Alone(r)
      BY DEF Alone
    <3>3. ASSUME NEW r \in Requests PROVE Sound(pc[r], loc[r])' <=> Sound(pc[r], loc[r])
      <4>1. Concerned(loc[r])' = Concerned(loc[r])
        BY DEF Concerned, LiveIn
      <4> QED BY <3>1, <4>1, QuietStep DEF Sound
    <3> QED BY <3>1, <3>2, <3>3 DEF IInv, SmoothInv
  <2> QED BY <2>1, <2>2, <2>3 DEF IInv
<1> QED BY <1>1, <1>2

LEMMA InvIsSound == IInv => TypeOK /\ SessionsAreSound
<1> SUFFICES ASSUME IInv PROVE TypeOK /\ SessionsAreSound
  OBVIOUS
<1>1. /\ TypeOK /\ DOMAIN tokens = 1..Len(tokens)
      /\ uses \in [1..MaxLinks -> Nat] /\ redeemed \in [1..MaxCodes -> Nat]
  BY TypeParts, DomainIsLength DEF IInv, DataOK, RowsOK
<1>2. OneLiveToken /\ ReuseEndsFamily
  BY DEF IInv, TokensInv, Unrevoked, NoneReused, OneLiveToken, ReuseEndsFamily, Live
<1>3. OnceOnly
  BY <1>1 DEF IInv, LinksInv, SmoothInv, CodesSound, OnceOnly
<1>4. SessionsEnd
  BY <1>1 DEF IInv, SmoothInv, Calm, Settled, Written, Current, SessionsEnd, Live
<1> QED BY <1>1, <1>2, <1>3, <1>4 DEF SessionsAreSound

\* Rows, locals and histories keep their shape: every family is named by its first token
\* and who was used is revoked, whatever requests run together and wherever one dies.
THEOREM TypesHold == Spec => []TypeOK
<1>1. Spec => []IInv
  BY InitInv, StepInv, PTL DEF Spec
<1> QED BY <1>1, InvIsSound, PTL

\* Two refreshes of one token, or a refresh against a logout, a change of password or a
\* suspension, never leave a family two tokens that work; a used token that comes back ends
\* its family; a reset link sets one password; and as long as requests come one at a time
\* a session ends with its logout, its password or its suspension (token.service, auth.service,
\* mfa.service), for any number of requests, tokens, links and codes.
THEOREM SessionsAlwaysSound == Spec => []SessionsAreSound
<1>1. Spec => []IInv
  BY InitInv, StepInv, PTL DEF Spec
<1> QED BY <1>1, InvIsSound, PTL
=============================================================================
