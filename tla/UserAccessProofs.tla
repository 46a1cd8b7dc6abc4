--------------------------- MODULE UserAccessProofs ---------------------------
(***************************************************************************)
(* Access of users, for every set of users, browsers, roles and sessions:  *)
(* an administrator remains, sessions act in roles their users have, and   *)
(* access is changed by administrators only.                               *)
(***************************************************************************)
EXTENDS UserAccess, WellFoundedInduction, TLAPS

-----------------------------------------------------------------------------
(* TYPES *)

AccessTyped == access \in [User -> Access] /\ version \in [User -> Nat]

SessionsTyped ==
  /\ session \in [Session -> SessionRow]
  /\ \A t \in Session :
       session[t].status = "OPEN" => session[t].user \in User /\ session[t].role \in Role

BrowsersTyped ==
  /\ cookie \in [Client -> Session \cup {NoSession}]
  /\ users \in [Client -> SUBSET UserRow]
  /\ page \in [Client -> PageRow]
  /\ request \in [Client -> RequestRow]
  /\ \A c \in Client :
       request[c].kind # "idle" => request[c].user \in User /\ request[c].role \in Role

AuditTyped == audit \in [User -> Seq(AuditRow)]

\* The type invariant by its parts.
LEMMA TypeParts == TypeOK <=> AccessTyped /\ SessionsTyped /\ BrowsersTyped /\ AuditTyped
BY DEF TypeOK, AccessTyped, SessionsTyped, BrowsersTyped, AuditTyped

LEMMA TypePartsNext ==
  TypeOK' <=> AccessTyped' /\ SessionsTyped' /\ BrowsersTyped' /\ AuditTyped'
BY DEF TypeOK, AccessTyped, SessionsTyped, BrowsersTyped, AuditTyped

\* An ended session is a row, and revoking a row makes one.
LEMMA RevokedType ==
  ASSUME NEW row \in SessionRow
  PROVE  /\ Revoked(row) \in SessionRow
         /\ Revoked(row).status # "OPEN"
BY DEF Revoked, EndedSession, FreeSession, SessionRow

\* A browser whose request ends is idle.
LEMMA IdleType == Idle \in RequestRow /\ Idle.kind = "idle"
BY DEF Idle, RequestRow

\* Sheets stay well formed when they are closed or become stale.
LEMMA PageTypes ==
  /\ EmptyPage \in PageRow
  /\ \A row \in PageRow : [row EXCEPT !.stale = TRUE] \in PageRow
BY DEF EmptyPage, PageRow, Access

\* The first of the roles of a user is one of them.
LEMMA FirstRoleType ==
  ASSUME NEW roles \in SUBSET Role, roles # {}
  PROVE  FirstRole(roles) \in roles
<1> DEFINE Less == OpToRel(<, Nat)
           ranks == {Rank[r] : r \in roles}
<1>1. IsWellFoundedOn(Less, Nat)
  BY NatLessThanWellFounded
<1>2. \A x, y \in Nat : y < x => <<y, x>> \in Less
  BY DEF OpToRel
<1>3. ranks \subseteq Nat /\ ranks # {}
  BY AccessAssumption
<1> HIDE DEF Less
<1>4. PICK n \in ranks : \A m \in ranks : ~ (<<m, n>> \in Less)
  BY <1>1, <1>3, WFMin
<1>5. PICK r \in roles : Rank[r] = n
  BY <1>4
<1>6. ASSUME NEW q \in roles PROVE Rank[r] <= Rank[q]
  <2>1. Rank[q] \in ranks /\ Rank[q] \in Nat /\ n \in Nat
    BY <1>3, <1>5
  <2>2. ~ (Rank[q] < n)
    BY <1>2, <1>4, <2>1
  <2> QED
    BY <1>5, <2>1, <2>2
<1>7. (CHOOSE x \in roles : \A q \in roles : Rank[x] <= Rank[q]) \in roles
  BY <1>6
<1> QED
  BY <1>7 DEF FirstRole

\* The seeded tables and browsers are well formed.
LEMMA InitTypeOK == Init => TypeOK
<1> SUFFICES ASSUME Init PROVE TypeOK
  OBVIOUS
<1>1. FreeSession \in SessionRow /\ FreeSession.status = "FREE"
  BY DEF FreeSession, SessionRow
<1>2. EmptyPage \in PageRow
  BY PageTypes
<1>3. AccessTyped
  BY DEF Init, AccessTyped
<1>4. SessionsTyped
  BY <1>1 DEF Init, SessionsTyped
<1>5. BrowsersTyped
  BY <1>2, IdleType DEF Init, BrowsersTyped
<1>6. AuditTyped
  BY DEF Init, AuditTyped
<1> QED
  BY <1>3, <1>4, <1>5, <1>6, TypeParts

\* A request that ends leaves its browser idle.
LEMMA FinishType ==
  ASSUME BrowsersTyped, NEW c \in Client, request' = [request EXCEPT ![c] = Idle],
         cookie' \in [Client -> Session \cup {NoSession}],
         users' \in [Client -> SUBSET UserRow], page' \in [Client -> PageRow]
  PROVE  BrowsersTyped'
BY IdleType DEF BrowsersTyped

\* An answer keeps the list and the sheet well formed.
LEMMA AnswerType ==
  ASSUME BrowsersTyped, NEW c \in Client, NEW answer \in {"saved", "refused", "unsure"},
         SheetAnswered(c, answer)
  PROVE  users' \in [Client -> SUBSET UserRow] /\ page' \in [Client -> PageRow]
<1>1. users' \in [Client -> SUBSET UserRow]
  BY DEF SheetAnswered, BrowsersTyped
<1>2. page[c] \in PageRow
  BY DEF BrowsersTyped
<1>3. CASE answer = "saved"
  BY <1>1, <1>3, PageTypes DEF SheetAnswered, BrowsersTyped
<1>4. CASE answer = "refused"
  BY <1>1, <1>4 DEF SheetAnswered, BrowsersTyped
<1>5. CASE answer = "unsure"
  <2>1. page' = [page EXCEPT ![c] = [page[c] EXCEPT !.stale = TRUE]]
    BY <1>5 DEF SheetAnswered
  <2> QED
    BY <1>1, <1>2, <2>1, PageTypes DEF BrowsersTyped
<1> QED
  BY <1>3, <1>4, <1>5

LEMMA LoginReadType ==
  ASSUME TypeOK, NEW c \in Client, NEW u \in User, LoginRead(c, u) PROVE TypeOK'
<1> USE TypeParts
<1>1. access[u] \in Access /\ access[u].roles # {}
  BY DEF LoginRead, MayLogIn, AccessTyped
<1>2. FirstRole(access[u].roles) \in Role
  BY <1>1, FirstRoleType DEF Access
<1> DEFINE row == [kind |-> "login", user |-> u, session |-> cookie[c],
                   role |-> FirstRole(access[u].roles), active |-> FALSE, expected |-> 0]
<1>3. row \in RequestRow /\ row.user = u /\ row.role = FirstRole(access[u].roles)
  BY <1>2 DEF BrowsersTyped, RequestRow
<1>4. request' = [request EXCEPT ![c] = row] /\ UNCHANGED <<cookie, users, page>>
  BY DEF LoginRead
<1> HIDE DEF row
<1>5. BrowsersTyped'
  BY <1>2, <1>3, <1>4 DEF BrowsersTyped
<1>6. AccessTyped' /\ SessionsTyped' /\ AuditTyped'
  BY DEF LoginRead, AccessTyped, SessionsTyped, AuditTyped
<1> QED
  BY <1>5, <1>6, TypePartsNext

\* A created session is well formed, and so is a revoked one.
LEMMA LoginCommitType ==
  ASSUME TypeOK, NEW c \in Client, NEW t \in Session, NEW answered \in BOOLEAN,
         LoginCommit(c, t, answered)
  PROVE  TypeOK'
<1> USE TypeParts
<1>1. /\ request[c].user \in User /\ request[c].role \in Role
      /\ cookie' \in [Client -> Session \cup {NoSession}]
  BY DEF LoginCommit, BrowsersTyped
<1>2. SessionsTyped'
  <2>1. ASSUME NEW s \in Session
        PROVE  /\ session'[s] \in SessionRow
               /\ session'[s].status = "OPEN" =>
                    session'[s].user \in User /\ session'[s].role \in Role
    <3>1. \/ session'[s] = [status |-> "OPEN", user |-> request[c].user, role |-> request[c].role]
          \/ session'[s] = Revoked(session[s])
          \/ session'[s] = session[s]
      BY DEF LoginCommit
    <3> QED
      BY <1>1, <3>1, RevokedType DEF SessionsTyped, SessionRow
  <2>2. session' = [s \in Session |-> session'[s]]
    BY DEF LoginCommit
  <2> QED
    BY <2>1, <2>2 DEF SessionsTyped
<1>3. BrowsersTyped'
  BY <1>1, FinishType DEF LoginCommit, BrowsersTyped
<1>4. AccessTyped' /\ AuditTyped'
  BY DEF LoginCommit, AccessTyped, AuditTyped
<1> QED
  BY <1>2, <1>3, <1>4, TypePartsNext

LEMMA LogoutType ==
  ASSUME TypeOK, NEW c \in Client, Logout(c) PROVE TypeOK'
<1> USE TypeParts
<1>1. cookie[c] \in Session
  BY DEF Logout, Accepted, BrowsersTyped
<1>2. SessionsTyped'
  BY <1>1, RevokedType DEF Logout, SessionsTyped
<1>3. BrowsersTyped'
  BY DEF Logout, BrowsersTyped
<1>4. AccessTyped' /\ AuditTyped'
  BY DEF Logout, AccessTyped, AuditTyped
<1> QED
  BY <1>2, <1>3, <1>4, TypePartsNext

LEMMA ExpireType ==
  ASSUME TypeOK, NEW t \in Session, Expire(t) PROVE TypeOK'
<1> USE TypeParts
<1>1. EndedSession \in SessionRow /\ EndedSession.status # "OPEN"
  BY DEF EndedSession, FreeSession, SessionRow
<1>2. SessionsTyped'
  BY <1>1 DEF Expire, SessionsTyped
<1> QED
  BY <1>2, TypePartsNext DEF Expire, AccessTyped, BrowsersTyped, AuditTyped

LEMMA ReadUsersType ==
  ASSUME TypeOK, NEW c \in Client, ReadUsers(c) PROVE TypeOK'
<1> USE TypeParts
<1>1. {ListedUser(u) : u \in User} \subseteq UserRow
  BY DEF AccessTyped, ListedUser, UserRow
<1>2. BrowsersTyped'
  BY <1>1 DEF ReadUsers, BrowsersTyped
<1> QED
  BY <1>2, TypePartsNext DEF ReadUsers, AccessTyped, SessionsTyped, AuditTyped

\* Opening, closing and invalidating a sheet changes that sheet only.
LEMMA SheetStepType ==
  ASSUME TypeOK, NEW c \in Client,
         (\E row \in users[c] : OpenSheet(c, row)) \/ CloseSheet(c) \/ TurnedAway(c)
  PROVE  TypeOK'
<1> USE TypeParts
<1>1. ASSUME NEW row \in users[c], OpenSheet(c, row) PROVE page' \in [Client -> PageRow]
  <2>1. row \in UserRow
    BY DEF BrowsersTyped
  <2>2. [user |-> row.user, version |-> row.version, access |-> row.access,
         stale |-> FALSE] \in PageRow
    BY <2>1 DEF UserRow, PageRow
  <2> QED
    BY <1>1, <2>2 DEF OpenSheet, BrowsersTyped
<1>2. CASE CloseSheet(c)
  BY <1>2, PageTypes, TypePartsNext
     DEF CloseSheet, AccessTyped, SessionsTyped, AuditTyped, BrowsersTyped
<1>3. CASE TurnedAway(c)
  <2>1. page[c] \in PageRow /\ page' = [page EXCEPT ![c] = [page[c] EXCEPT !.stale = TRUE]]
    BY <1>3 DEF TurnedAway, BrowsersTyped
  <2>2. page' \in [Client -> PageRow]
    BY <2>1, PageTypes DEF BrowsersTyped
  <2> QED
    BY <1>3, <2>2, TypePartsNext
       DEF TurnedAway, AccessTyped, SessionsTyped, AuditTyped, BrowsersTyped
<1>4. CASE \E row \in users[c] : OpenSheet(c, row)
  BY <1>1, <1>4, TypePartsNext
     DEF OpenSheet, AccessTyped, SessionsTyped, AuditTyped, BrowsersTyped
<1> QED
  BY <1>2, <1>3, <1>4

LEMMA ChangeRequestType ==
  ASSUME TypeOK, NEW c \in Client, NEW role \in Role, NEW active \in BOOLEAN,
         ChangeRequest(c, role, active)
  PROVE  TypeOK'
<1> USE TypeParts
<1> DEFINE row == [kind |-> "change", user |-> page[c].user, session |-> cookie[c],
                   role |-> role, active |-> active, expected |-> page[c].version]
<1>1. row \in RequestRow /\ row.user \in User /\ row.role \in Role
  BY DEF ChangeRequest, MaySend, BrowsersTyped, PageRow, RequestRow
<1>2. request' = [request EXCEPT ![c] = row] /\ UNCHANGED <<cookie, users, page>>
  BY DEF ChangeRequest
<1> HIDE DEF row
<1>3. BrowsersTyped'
  BY <1>1, <1>2 DEF BrowsersTyped
<1> QED
  BY <1>3, TypePartsNext DEF ChangeRequest, AccessTyped, SessionsTyped, AuditTyped

\* What a committed change does, its session and its user named.
ChangeMade(c, answer, u, t, after) ==
  /\ u = request[c].user /\ t = request[c].session
  /\ Administers(t) /\ session[t].user \in User
  /\ access[u] # after /\ KeepsAdministrator(u, after)
  /\ version[u] = request[c].expected
  /\ session' = SessionsEnded(u, after)
  /\ access' = [access EXCEPT ![u] = after]
  /\ version' = [version EXCEPT ![u] = version[u] + 1]
  /\ audit' = [audit EXCEPT ![u] = Append(audit[u],
       [actor |-> session[t].user, before |-> access[u], after |-> after])]
  /\ request' = [request EXCEPT ![c] = Idle]
  /\ SheetAnswered(c, answer) /\ UNCHANGED cookie

LEMMA ChangeEffect ==
  ASSUME TypeOK, NEW c \in Client, NEW answer \in {"saved", "refused", "unsure"},
         ChangeCommit(c, answer)
  PROVE  \E u \in User, t \in Session, after \in Access : ChangeMade(c, answer, u, t, after)
<1> USE TypeParts
<1> DEFINE u == request[c].user
           t == request[c].session
           after == [active |-> request[c].active, roles |-> {request[c].role}]
<1>1. u \in User /\ request[c].role \in Role /\ request[c].active \in BOOLEAN
      /\ t \in Session \cup {NoSession}
  BY DEF ChangeCommit, BrowsersTyped, RequestRow
<1>2. after \in Access
  BY <1>1 DEF Access
<1>3. Administers(t) /\ t \in Session /\ session[t].user \in User
  BY <1>1 DEF ChangeCommit, SessionRechecked, Administers, Accepted, SessionsTyped
<1>4. ChangeMade(c, answer, u, t, after)
  BY <1>3 DEF ChangeCommit, ChangeMade, AccessReplaced, NextVersion
<1> HIDE DEF u, t, after
<1> QED
  BY <1>1, <1>2, <1>3, <1>4

LEMMA ChangeCommitType ==
  ASSUME TypeOK, NEW c \in Client, NEW answer \in {"saved", "refused", "unsure"},
         ChangeCommit(c, answer)
  PROVE  TypeOK'
<1> USE TypeParts
<1>1. PICK u \in User, t \in Session, after \in Access : ChangeMade(c, answer, u, t, after)
  BY ChangeEffect
<1> USE DEF ChangeMade
<1>2. AccessTyped'
  BY <1>1 DEF AccessTyped
<1>3. SessionsTyped'
  <2>1. ASSUME NEW s \in Session
        PROVE  /\ session'[s] \in SessionRow
               /\ session'[s].status = "OPEN" =>
                    session'[s].user \in User /\ session'[s].role \in Role
    <3>1. session'[s] = Revoked(session[s]) \/ session'[s] = session[s]
      BY <1>1 DEF SessionsEnded
    <3> QED
      BY <3>1, RevokedType DEF SessionsTyped
  <2>2. session' = [s \in Session |-> session'[s]]
    BY <1>1 DEF SessionsEnded
  <2> QED
    BY <2>1, <2>2 DEF SessionsTyped
<1>4. BrowsersTyped'
  BY <1>1, FinishType, AnswerType DEF BrowsersTyped
<1>5. AuditTyped'
  <2>1. [actor |-> session[t].user, before |-> access[u], after |-> after] \in AuditRow
    BY <1>1 DEF AuditRow, AccessTyped
  <2> QED
    BY <1>1, <2>1 DEF AuditTyped
<1> QED
  BY <1>2, <1>3, <1>4, <1>5, TypePartsNext

\* Every step keeps the tables and browsers well formed.
LEMMA NextTypeOK == TypeOK /\ [Next]_vars => TypeOK'
<1> SUFFICES ASSUME TypeOK, [Next]_vars PROVE TypeOK'
  OBVIOUS
<1>1. ASSUME NEW c \in Client, NEW answer \in {"refused", "unsure"}, Refuse(c, answer)
      PROVE  TypeOK'
  <2>1. users' \in [Client -> SUBSET UserRow] /\ page' \in [Client -> PageRow]
    BY <1>1, TypeParts, AnswerType DEF Refuse, BrowsersTyped
  <2>2. BrowsersTyped'
    BY <1>1, <2>1, TypeParts, FinishType DEF Refuse, BrowsersTyped
  <2> QED
    BY <1>1, <2>2, TypeParts, TypePartsNext
       DEF Refuse, AccessTyped, SessionsTyped, AuditTyped
<1>2. CASE UNCHANGED vars
  BY <1>2 DEF vars, TypeOK
<1> QED
  BY <1>1, <1>2, LoginReadType, LoginCommitType, LogoutType, ExpireType, ReadUsersType,
     SheetStepType, ChangeRequestType, ChangeCommitType DEF Next, ClientStep

-----------------------------------------------------------------------------
(* THE INVARIANT *)

\* An open session acts in a role its user has: roles are taken away together
\* with the sessions that act in them.
SessionsAssigned ==
  \A t \in Session :
    session[t].status = "OPEN" => session[t].role \in access[session[t].user].roles

\* A change of access, as the audit of one user sees it.
AuditExplains(u) ==
  LET history == audit[u] IN
  /\ \A k \in 1..Len(history) :
       IF k = 1 THEN history[k].before \in SeededAccess(u)
       ELSE history[k].before = history[k-1].after
  /\ IF history = <<>> THEN access[u] \in SeededAccess(u)
     ELSE access[u] = Last(history).after

AccessInvariant ==
  /\ TypeOK
  /\ AdministratorRemains
  /\ SessionsAssigned
  /\ \A u \in User : AuditExplains(u)

LEMMA InitAccessInvariant == Init => AccessInvariant
<1> SUFFICES ASSUME Init PROVE AccessInvariant
  OBVIOUS
<1>1. AdministratorRemains
  BY AccessAssumption DEF Init, SeededAccess, AdministratorRemains
<1>2. SessionsAssigned
  BY DEF Init, FreeSession, SessionsAssigned
<1>3. \A u \in User : AuditExplains(u)
  BY DEF Init, AuditExplains
<1> QED
  BY <1>1, <1>2, <1>3, InitTypeOK DEF AccessInvariant

\* A change replaces the access of one user and ends his sessions.
LEMMA ChangeKeepsAdministrator ==
  ASSUME TypeOK, AdministratorRemains, NEW u \in User, NEW after \in Access,
         KeepsAdministrator(u, after), access' = [access EXCEPT ![u] = after]
  PROVE  AdministratorRemains'
<1> USE TypeParts DEF AccessTyped
<1>1. access'[u] = after /\ \A v \in User \ {u} : access'[v] = access[v]
  OBVIOUS
<1>2. CASE after.active /\ Admin \in after.roles
  BY <1>1, <1>2 DEF AdministratorRemains
<1>3. CASE ~ (after.active /\ Admin \in after.roles)
  <2>1. \E v \in User \ {u} : access[v].active /\ Admin \in access[v].roles
    BY <1>3 DEF KeepsAdministrator, ActiveAdmins, AdministratorRemains
  <2> QED
    BY <1>1, <2>1 DEF AdministratorRemains
<1> QED
  BY <1>2, <1>3

\* The sessions of a changed user are ended, those of the others kept.
LEMMA ChangeEndsSessions ==
  ASSUME TypeOK, NEW u \in User, NEW after \in Access, session' = SessionsEnded(u, after)
  PROVE  \A t \in Session :
           session'[t].status = "OPEN" => session'[t] = session[t] /\ session[t].user # u
BY TypeParts, RevokedType DEF SessionsTyped, SessionsEnded

\* Appending a change that starts at the present access keeps the chain.
LEMMA ChainExtended ==
  ASSUME NEW u \in User, AuditTyped, AccessTyped, AuditExplains(u), NEW actor \in User,
         NEW after \in Access, access' = [access EXCEPT ![u] = after],
         audit' = [audit EXCEPT ![u] = Append(audit[u],
           [actor |-> actor, before |-> access[u], after |-> after])]
  PROVE  /\ AuditExplains(u)'
         /\ Last(audit'[u]).actor = actor
<1> DEFINE change == [actor |-> actor, before |-> access[u], after |-> after]
           history == audit[u]
<1>1. history \in Seq(AuditRow) /\ change \in AuditRow
  BY DEF AuditTyped, AccessTyped, AuditRow
<1>2. audit'[u] = Append(history, change) /\ access'[u] = after
  BY DEF AuditTyped, AccessTyped
<1>3. change.actor = actor /\ change.before = access[u] /\ change.after = after
  OBVIOUS
<1> HIDE DEF change
<1>4. /\ Len(audit'[u]) = Len(history) + 1 /\ Len(history) \in Nat
      /\ audit'[u][Len(history) + 1] = change
      /\ \A k \in 1..Len(history) : audit'[u][k] = history[k]
      /\ audit'[u] # <<>>
  BY <1>1, <1>2
<1>5. Last(audit'[u]) = change
  BY <1>4 DEF Last
<1>6. ASSUME NEW k \in 1..Len(audit'[u])
      PROVE  IF k = 1 THEN audit'[u][k].before \in SeededAccess(u)
             ELSE audit'[u][k].before = audit'[u][k-1].after
  <2>1. CASE k \in 1..Len(history)
    <3>1. k # 1 => k - 1 \in 1..Len(history)
      BY <1>4, <2>1
    <3> QED
      BY <1>4, <2>1, <3>1 DEF AuditExplains
  <2>2. CASE k = Len(history) + 1
    <3>1. CASE history = <<>>
      <4>1. k = 1 /\ access[u] \in SeededAccess(u)
        BY <2>2, <3>1 DEF AuditExplains
      <4> QED
        BY <1>3, <1>4, <2>2, <4>1
    <3>2. CASE history # <<>>
      <4>1. k # 1 /\ k - 1 = Len(history) /\ Len(history) \in 1..Len(history)
        BY <1>1, <1>4, <2>2, <3>2
      <4>2. access[u] = history[Len(history)].after
        BY <3>2 DEF AuditExplains, Last
      <4> QED
        BY <1>3, <1>4, <2>2, <4>1, <4>2
    <3> QED
      BY <3>1, <3>2
  <2> QED
    BY <1>4, <2>1, <2>2
<1> QED
  BY <1>2, <1>3, <1>4, <1>5, <1>6 DEF AuditExplains, SeededAccess

\* A user nobody changes keeps his chain.
LEMMA SameAudit ==
  ASSUME NEW v \in User, AuditExplains(v), audit'[v] = audit[v], access'[v] = access[v]
  PROVE  AuditExplains(v)'
<1>1. SeededAccess(v)' = SeededAccess(v)
  BY DEF SeededAccess
<1>2. Last(audit[v])' = Last(audit[v])
  BY DEF Last
<1> QED
  BY <1>1, <1>2 DEF AuditExplains

\* A logout, an expiry and every step that is neither a commit of a login nor of
\* a change leaves access alone and opens no session.
LEMMA OtherSteps ==
  ASSUME TypeOK, [Next]_vars
  PROVE  \/ \E c \in Client, answer \in {"saved", "refused", "unsure"} : ChangeCommit(c, answer)
         \/ \E c \in Client, t \in Session, answered \in BOOLEAN : LoginCommit(c, t, answered)
         \/ /\ access' = access /\ audit' = audit
            /\ \A t \in Session : session'[t] = session[t] \/ session'[t].status # "OPEN"
<1> USE TypeParts DEF SessionsTyped
<1>1. ASSUME NEW c \in Client, Logout(c)
      PROVE  /\ access' = access /\ audit' = audit
             /\ \A t \in Session : session'[t] = session[t] \/ session'[t].status # "OPEN"
  BY <1>1, RevokedType DEF Logout
<1>2. ASSUME NEW s \in Session, Expire(s)
      PROVE  /\ access' = access /\ audit' = audit
             /\ \A t \in Session : session'[t] = session[t] \/ session'[t].status # "OPEN"
  BY <1>2 DEF Expire, EndedSession, FreeSession
<1>3. ASSUME NEW c \in Client,
             \/ \E u \in User : LoginRead(c, u)
             \/ ReadUsers(c) \/ CloseSheet(c) \/ TurnedAway(c)
             \/ \E row \in users[c] : OpenSheet(c, row)
             \/ \E role \in Role, active \in BOOLEAN : ChangeRequest(c, role, active)
             \/ \E answer \in {"refused", "unsure"} : Refuse(c, answer)
      PROVE  UNCHANGED <<access, audit, session>>
  BY <1>3 DEF LoginRead, ReadUsers, CloseSheet, TurnedAway, OpenSheet, ChangeRequest, Refuse
<1>4. CASE UNCHANGED vars
  BY <1>4 DEF vars
<1> QED
  BY <1>1, <1>2, <1>3, <1>4 DEF Next, ClientStep

\* Every step preserves the invariant.
LEMMA NextAccessInvariant == AccessInvariant /\ [Next]_vars => AccessInvariant'
<1> SUFFICES ASSUME AccessInvariant, [Next]_vars PROVE AccessInvariant'
  OBVIOUS
<1> USE DEF AccessInvariant
<1>1. TypeOK'
  BY NextTypeOK
<1>2. ASSUME NEW c \in Client, NEW answer \in {"saved", "refused", "unsure"},
             ChangeCommit(c, answer)
      PROVE  AccessInvariant'
  <2>1. PICK u \in User, t \in Session, after \in Access : ChangeMade(c, answer, u, t, after)
    BY <1>2, ChangeEffect
  <2> USE DEF ChangeMade
  <2>2. AdministratorRemains'
    BY <2>1, ChangeKeepsAdministrator
  <2>3. SessionsAssigned'
    <3>1. \A v \in User \ {u} : access'[v] = access[v]
      BY <2>1, TypeParts DEF AccessTyped
    <3> QED
      BY <2>1, <3>1, TypeParts, ChangeEndsSessions DEF SessionsAssigned, SessionsTyped
  <2>4. AuditExplains(u)'
    BY <2>1, TypeParts, ChainExtended
  <2>5. ASSUME NEW v \in User \ {u} PROVE AuditExplains(v)'
    <3>1. audit'[v] = audit[v] /\ access'[v] = access[v]
      BY <2>1, TypeParts DEF AuditTyped, AccessTyped
    <3> QED
      BY <3>1, SameAudit
  <2> QED
    BY <1>1, <2>2, <2>3, <2>4, <2>5
<1>3. ASSUME access' = access, audit' = audit
      PROVE  AdministratorRemains' /\ \A u \in User : AuditExplains(u)'
  BY <1>3 DEF AdministratorRemains, AuditExplains, SeededAccess
<1>4. ASSUME NEW c \in Client, NEW t \in Session, NEW answered \in BOOLEAN,
             LoginCommit(c, t, answered)
      PROVE  AccessInvariant'
  <2>1. access' = access /\ audit' = audit
    BY <1>4 DEF LoginCommit
  <2>2. ASSUME NEW s \in Session, session'[s].status = "OPEN"
        PROVE  session'[s].role \in access[session'[s].user].roles
    <3>1. CASE s = t
      BY <1>4, <3>1 DEF LoginCommit, RoleAssigned
    <3>2. CASE s # t
      <4>1. session'[s] = Revoked(session[s]) \/ session'[s] = session[s]
        BY <1>4, <3>2 DEF LoginCommit
      <4> QED
        BY <2>2, <4>1, TypeParts, RevokedType DEF SessionsAssigned, SessionsTyped
    <3> QED
      BY <3>1, <3>2
  <2> QED
    BY <1>1, <1>3, <2>1, <2>2 DEF SessionsAssigned
<1>5. CASE /\ access' = access /\ audit' = audit
           /\ \A t \in Session : session'[t] = session[t] \/ session'[t].status # "OPEN"
  <2>1. SessionsAssigned'
    BY <1>5 DEF SessionsAssigned
  <2> QED
    BY <1>1, <1>3, <1>5, <2>1
<1> QED
  BY <1>2, <1>4, <1>5, OtherSteps

\* The access of every user, for every interleaving of logins and changes.
THEOREM AccessInvariantHolds == Spec => []AccessInvariant
<1> QED
  BY InitAccessInvariant, NextAccessInvariant, PTL DEF Spec

-----------------------------------------------------------------------------
(* WHAT FOLLOWS *)

(***************************************************************************)
(* The tables of users, sessions and audit events and the requests in      *)
(* flight are well formed (schema.prisma).                                 *)
(***************************************************************************)
THEOREM AccessTypeCorrect == Spec => []TypeOK
<1>1. AccessInvariant => TypeOK
  BY DEF AccessInvariant
<1> QED
  BY <1>1, AccessInvariantHolds, PTL

(***************************************************************************)
(* An active administrator remains, whoever changes whom (LAST_ACTIVE_ADMIN*)
(* in changeAccess).                                                       *)
(***************************************************************************)
THEOREM AdministratorAlwaysRemains == Spec => []AdministratorRemains
<1>1. AccessInvariant => AdministratorRemains
  BY DEF AccessInvariant
<1> QED
  BY <1>1, AccessInvariantHolds, PTL

(***************************************************************************)
(* An accepted session acts in a role its user has (authenticateRequest,   *)
(* although login stores a role it read before).                           *)
(***************************************************************************)
THEOREM SessionsAreJustified == Spec => []AcceptedSessionsJustified
<1>1. AccessInvariant => AcceptedSessionsJustified
  BY DEF AccessInvariant, SessionsAssigned, AcceptedSessionsJustified, Accepted
<1> QED
  BY <1>1, AccessInvariantHolds, PTL

(***************************************************************************)
(* The access history of a user is a chain that ends at the present access *)
(* (the audit event changeAccess writes in its transaction).               *)
(***************************************************************************)
THEOREM AuditIsComplete == Spec => []AuditExplainsAccess
<1>1. AccessInvariant => AuditExplainsAccess
  BY DEF AccessInvariant, AuditExplains, AuditExplainsAccess
<1> QED
  BY <1>1, AccessInvariantHolds, PTL

\* A step that extends the audit of a user is a change of his access.
LEMMA AuditedChange ==
  ASSUME AccessInvariant, [Next]_vars, NEW v \in User, audit'[v] # audit[v]
  PROVE  \E t \in Session, after \in Access :
           /\ Administers(t) /\ session[t].user \in User
           /\ session' = SessionsEnded(v, after)
           /\ Last(audit'[v]).actor = session[t].user
<1>1. PICK c \in Client, answer \in {"saved", "refused", "unsure"} : ChangeCommit(c, answer)
  BY OtherSteps DEF LoginCommit, AccessInvariant
<1>2. PICK u \in User, t \in Session, after \in Access : ChangeMade(c, answer, u, t, after)
  <2>1. TypeOK
    BY DEF AccessInvariant
  <2> QED
    BY <1>1, <2>1, ChangeEffect
<1> USE DEF ChangeMade
<1>3. v = u
  BY <1>2, TypeParts DEF AuditTyped, AccessInvariant
<1>4. Last(audit'[u]).actor = session[t].user
  BY <1>2, TypeParts, ChainExtended DEF AccessInvariant
<1> QED
  BY <1>2, <1>3, <1>4

(***************************************************************************)
(* Who changes access is an active administrator at the commit (the check  *)
(* of the session inside the transaction of changeAccess).                 *)
(***************************************************************************)
THEOREM OnlyAdministratorsChange == Spec => ChangesByAdministrators
<1>1. AccessInvariant /\ [Next]_vars =>
        [\A u \in User :
           audit'[u] # audit[u] =>
              Last(audit'[u]).actor
                \in {v \in User : access[v].active /\ Admin \in access[v].roles}]_vars
  BY AuditedChange DEF Administers, Accepted, AccessInvariant, SessionsAssigned
<1> QED
  BY <1>1, AccessInvariantHolds, PTL DEF Spec, ChangesByAdministrators

(***************************************************************************)
(* No session of a user is accepted after a change of his access: the      *)
(* revocation in changeAccess, not the state of the account, ends it.      *)
(***************************************************************************)
THEOREM ChangesSignOut == Spec => ChangeSignsOut
<1>1. AccessInvariant /\ [Next]_vars =>
        [\A u \in User :
           audit'[u] # audit[u] =>
              \A t \in Session : session[t].user = u => ~ Accepted(t)']_vars
  <2> SUFFICES ASSUME AccessInvariant, [Next]_vars, NEW u \in User, audit'[u] # audit[u],
                      NEW t \in Session, session[t].user = u
               PROVE  ~ Accepted(t)'
    OBVIOUS
  <2>1. session'[t].status # "OPEN"
    BY AuditedChange, ChangeEndsSessions DEF AccessInvariant
  <2> QED
    BY <2>1 DEF Accepted
<1> QED
  BY <1>1, AccessInvariantHolds, PTL DEF Spec, ChangeSignsOut

-----------------------------------------------------------------------------
(* WHAT AN ADMINISTRATOR HAS SEEN *)

\* A row that was read is the present one, or of an earlier version.
Genuine(row) ==
  /\ row.version <= version[row.user]
  /\ row.version = version[row.user] => row.access = access[row.user]

\* All rows read are genuine, and a change in flight was sent from the open sheet.
SeenRows ==
  /\ \A c \in Client : \A row \in users[c] : Genuine(row)
  /\ \A c \in Client : page[c].user \in User => Genuine(page[c])
  /\ \A c \in Client :
       request[c].kind = "change" =>
         page[c].user = request[c].user /\ page[c].version = request[c].expected

\* A row stays genuine as long as its user is not changed, and his next version
\* is another one.
LEMMA GenuineKept ==
  ASSUME TypeOK, NEW row, row.user \in User, row.version \in Nat, Genuine(row),
         \/ access' = access /\ version' = version
         \/ \E u \in User, after \in Access :
              /\ access' = [access EXCEPT ![u] = after]
              /\ version' = [version EXCEPT ![u] = version[u] + 1]
  PROVE  Genuine(row)'
<1> USE TypeParts DEF AccessTyped
<1>1. CASE access' = access /\ version' = version
  BY <1>1 DEF Genuine
<1>2. ASSUME NEW u \in User, NEW after \in Access,
             access' = [access EXCEPT ![u] = after],
             version' = [version EXCEPT ![u] = version[u] + 1]
      PROVE  Genuine(row)'
  <2>1. version[u] \in Nat /\ version[row.user] \in Nat
    OBVIOUS
  <2>2. CASE row.user = u
    BY <1>2, <2>1, <2>2 DEF Genuine
  <2>3. CASE row.user # u
    BY <1>2, <2>1, <2>3 DEF Genuine
  <2> QED
    BY <2>2, <2>3
<1> QED
  BY <1>1, <1>2

\* A commit answered with "saved" empties list and sheet; nothing else in them moves.
LEMMA AnswerKeepsRows ==
  ASSUME BrowsersTyped, NEW c \in Client, NEW answer \in {"saved", "refused", "unsure"},
         SheetAnswered(c, answer)
  PROVE  /\ \A b \in Client : users'[b] \subseteq users[b]
         /\ \A b \in Client : page'[b].user \in User =>
              page'[b].user = page[b].user /\ page'[b].version = page[b].version
                /\ page'[b].access = page[b].access
         /\ \A b \in Client \ {c} : page'[b] = page[b]
<1> USE DEF BrowsersTyped
<1>1. EmptyPage.user \notin User
  BY AccessAssumption DEF EmptyPage
<1>2. page[c] \in PageRow
  OBVIOUS
<1>3. CASE answer = "saved"
  BY <1>1, <1>3 DEF SheetAnswered
<1>4. CASE answer = "refused"
  BY <1>4 DEF SheetAnswered
<1>5. CASE answer = "unsure"
  <2>1. page' = [page EXCEPT ![c] = [page[c] EXCEPT !.stale = TRUE]] /\ users' = users
    BY <1>5 DEF SheetAnswered
  <2> QED
    BY <1>2, <2>1 DEF PageRow
<1> QED
  BY <1>3, <1>4, <1>5

\* Rows of lists and sheets have a user and a version.
LEMMA RowTypes ==
  ASSUME BrowsersTyped, NEW c \in Client
  PROVE  /\ page[c] \in PageRow /\ page[c].version \in Nat
         /\ \A row \in users[c] : row \in UserRow /\ row.user \in User /\ row.version \in Nat
BY DEF BrowsersTyped, PageRow, UserRow

\* Steps that leave access alone and of which each list, sheet and request that
\* moves is read, opened or sent from what is there.
LEMMA RowsKept ==
  ASSUME TypeOK, SeenRows, UNCHANGED <<access, version>>,
         \A c \in Client : \A row \in users'[c] :
           row \in users[c] \/ \E u \in User : row = ListedUser(u),
         \A c \in Client : page'[c].user \in User =>
           \E row \in users[c] \cup {page[c]} :
             /\ page'[c].user = row.user /\ page'[c].version = row.version
             /\ page'[c].access = row.access,
         \A c \in Client :
           request'[c].kind = "change" =>
             page'[c].user = request'[c].user /\ page'[c].version = request'[c].expected
  PROVE  SeenRows'
<1> USE TypeParts
<1>1. ASSUME NEW c \in Client, NEW row \in users'[c] PROVE Genuine(row)'
  <2>1. CASE row \in users[c]
    BY <2>1 DEF SeenRows, Genuine
  <2>2. ASSUME NEW u \in User, row = ListedUser(u) PROVE Genuine(row)'
    BY <2>2 DEF ListedUser, Genuine, AccessTyped
  <2> QED
    BY <1>1, <2>1, <2>2
<1>2. ASSUME NEW c \in Client, page'[c].user \in User PROVE Genuine(page[c])'
  <2>1. PICK row \in users[c] \cup {page[c]} :
          /\ page'[c].user = row.user /\ page'[c].version = row.version
          /\ page'[c].access = row.access
    BY <1>2
  <2>2. Genuine(row)
    BY <1>2, <2>1 DEF SeenRows
  <2> QED
    BY <2>1, <2>2 DEF Genuine
<1> QED
  BY <1>1, <1>2 DEF SeenRows

LEMMA SheetStepRows ==
  ASSUME TypeOK, SeenRows, NEW c \in Client,
         (\E row \in users[c] : OpenSheet(c, row)) \/ CloseSheet(c) \/ TurnedAway(c)
  PROVE  SeenRows'
<1> USE TypeParts
<1>1. /\ UNCHANGED <<access, version, users, request>>
      /\ request[c].kind = "idle"
      /\ \A b \in Client \ {c} : page'[b] = page[b]
  BY DEF OpenSheet, CloseSheet, TurnedAway, BrowsersTyped
<1>2. page'[c].user \in User =>
        \E row \in users[c] \cup {page[c]} :
          /\ page'[c].user = row.user /\ page'[c].version = row.version
          /\ page'[c].access = row.access
  <2>1. ASSUME NEW row \in users[c], OpenSheet(c, row)
        PROVE  /\ page'[c].user = row.user /\ page'[c].version = row.version
               /\ page'[c].access = row.access
    BY <2>1 DEF OpenSheet, BrowsersTyped
  <2>2. CASE CloseSheet(c)
    BY <2>2, AccessAssumption DEF CloseSheet, BrowsersTyped, EmptyPage
  <2>3. CASE TurnedAway(c)
    <3>1. page'[c] = [page[c] EXCEPT !.stale = TRUE]
      BY <2>3 DEF TurnedAway, BrowsersTyped
    <3> QED
      BY <3>1, RowTypes DEF PageRow
  <2> QED
    BY <2>1, <2>2, <2>3
<1> QED
  BY <1>1, <1>2, RowsKept DEF SeenRows

LEMMA RequestStepRows ==
  ASSUME TypeOK, SeenRows, NEW c \in Client,
         \/ \E u \in User : LoginRead(c, u)
         \/ \E t \in Session, answered \in BOOLEAN : LoginCommit(c, t, answered)
         \/ Logout(c)
         \/ \E role \in Role, active \in BOOLEAN : ChangeRequest(c, role, active)
  PROVE  SeenRows'
<1> USE TypeParts
<1>1. UNCHANGED <<access, version, users, page>>
  BY DEF LoginRead, LoginCommit, Logout, ChangeRequest
<1>2. \A b \in Client \ {c} : request'[b] = request[b]
  BY DEF LoginRead, LoginCommit, Logout, ChangeRequest, BrowsersTyped
<1>3. request'[c].kind = "change" =>
        page[c].user = request'[c].user /\ page[c].version = request'[c].expected
  <2>1. ASSUME NEW u \in User, LoginRead(c, u) PROVE request'[c].kind = "login"
    BY <2>1 DEF LoginRead, BrowsersTyped
  <2>2. ASSUME NEW t \in Session, NEW answered \in BOOLEAN, LoginCommit(c, t, answered)
        PROVE  request'[c].kind = "idle"
    BY <2>2 DEF LoginCommit, BrowsersTyped, Idle
  <2>3. ASSUME Logout(c) PROVE request' = request
    BY <2>3 DEF Logout
  <2>4. ASSUME NEW role \in Role, NEW active \in BOOLEAN, ChangeRequest(c, role, active)
        PROVE  page[c].user = request'[c].user /\ page[c].version = request'[c].expected
    BY <2>4 DEF ChangeRequest, BrowsersTyped
  <2> QED
    BY <2>1, <2>2, <2>3, <2>4 DEF SeenRows
<1> QED
  BY <1>1, <1>2, <1>3, RowsKept DEF SeenRows

\* A commit: its own request ends, and rows of the user it changes are old now.
LEMMA CommitRows ==
  ASSUME TypeOK, SeenRows, NEW c \in Client, NEW answer \in {"saved", "refused", "unsure"},
         ChangeCommit(c, answer)
  PROVE  SeenRows'
<1> USE TypeParts
<1>1. PICK u \in User, t \in Session, after \in Access : ChangeMade(c, answer, u, t, after)
  BY ChangeEffect
<1>2. /\ \A b \in Client : users'[b] \subseteq users[b]
      /\ \A b \in Client : page'[b].user \in User =>
           page'[b].user = page[b].user /\ page'[b].version = page[b].version
             /\ page'[b].access = page[b].access
      /\ \A b \in Client \ {c} : page'[b] = page[b]
  BY <1>1, AnswerKeepsRows DEF ChangeMade
<1>3. \E v \in User, a \in Access :
        access' = [access EXCEPT ![v] = a] /\ version' = [version EXCEPT ![v] = version[v] + 1]
  BY <1>1 DEF ChangeMade
<1>4. ASSUME NEW b \in Client, NEW row \in users'[b] PROVE Genuine(row)'
  BY <1>2, <1>3, GenuineKept, RowTypes DEF SeenRows
<1>5. ASSUME NEW b \in Client, page'[b].user \in User PROVE Genuine(page[b])'
  <2>1. Genuine(page[b]) /\ page[b].user \in User /\ page[b].version \in Nat
    BY <1>2, <1>5, RowTypes DEF SeenRows
  <2> DEFINE row == page[b]
  <2>2. /\ page[b].version <= version'[page[b].user]
        /\ page[b].version = version'[page[b].user] => page[b].access = access'[page[b].user]
    BY <1>1, <2>1 DEF ChangeMade, Genuine, AccessTyped
  <2> QED
    BY <1>2, <1>5, <2>2 DEF Genuine
<1>6. ASSUME NEW b \in Client, request'[b].kind = "change"
      PROVE  page'[b].user = request'[b].user /\ page'[b].version = request'[b].expected
  <2>1. b # c /\ request'[b] = request[b]
    BY <1>1, <1>6 DEF ChangeMade, BrowsersTyped, Idle
  <2> QED
    BY <1>2, <1>6, <2>1 DEF SeenRows
<1> QED
  BY <1>4, <1>5, <1>6 DEF SeenRows

LEMMA RefuseRows ==
  ASSUME TypeOK, SeenRows, NEW c \in Client, NEW answer \in {"refused", "unsure"},
         Refuse(c, answer)
  PROVE  SeenRows'
<1> USE TypeParts
<1>1. /\ UNCHANGED <<access, version>>
      /\ \A b \in Client : users'[b] \subseteq users[b]
      /\ \A b \in Client : page'[b].user \in User =>
           page'[b].user = page[b].user /\ page'[b].version = page[b].version
             /\ page'[b].access = page[b].access
      /\ \A b \in Client \ {c} : page'[b] = page[b]
  BY AnswerKeepsRows DEF Refuse
<1>2. ASSUME NEW b \in Client, request'[b].kind = "change"
      PROVE  b # c /\ request'[b] = request[b]
  BY <1>2 DEF Refuse, BrowsersTyped, Idle
<1> QED
  BY <1>1, <1>2, RowsKept DEF SeenRows

\* Every step keeps what was read genuine.
LEMMA NextSeenRows == TypeOK /\ SeenRows /\ [Next]_vars => SeenRows'
<1> SUFFICES ASSUME TypeOK, SeenRows, [Next]_vars PROVE SeenRows'
  OBVIOUS
<1>1. ASSUME NEW c \in Client, ReadUsers(c) PROVE SeenRows'
  <2>1. /\ UNCHANGED <<access, version, page, request>>
        /\ \A b \in Client : \A row \in users'[b] :
             row \in users[b] \/ \E u \in User : row = ListedUser(u)
    BY <1>1, TypeParts DEF ReadUsers, BrowsersTyped
  <2> QED
    BY <2>1, RowsKept DEF SeenRows
<1>2. ASSUME NEW t \in Session, Expire(t) PROVE SeenRows'
  BY <1>2 DEF Expire, SeenRows, Genuine
<1>3. CASE UNCHANGED vars
  BY <1>3 DEF vars, SeenRows, Genuine
<1> QED
  BY <1>1, <1>2, <1>3, SheetStepRows, RequestStepRows, CommitRows, RefuseRows
     DEF Next, ClientStep

LEMMA SeenRowsHold == Spec => []SeenRows
<1>1. Init => SeenRows
  BY AccessAssumption DEF Init, SeenRows, EmptyPage, Idle
<1>2. AccessInvariant /\ SeenRows /\ [Next]_vars => SeenRows'
  BY NextSeenRows DEF AccessInvariant
<1> QED
  BY <1>1, <1>2, AccessInvariantHolds, PTL DEF Spec

(***************************************************************************)
(* A change replaces the access its administrator saw on the open sheet,   *)
(* however old the list it was opened from (expectedUpdatedAt against      *)
(* updatedAt in changeAccess; each change makes another version).          *)
(***************************************************************************)
THEOREM NothingIsOverwrittenUnseen == Spec => ChangesReplaceWhatWasSeen
<1>1. AccessInvariant /\ SeenRows /\ [Next]_vars =>
        [\A u \in User :
           audit'[u] # audit[u] =>
              \E c \in Client : /\ request[c].kind = "change" /\ request'[c] = Idle
                                /\ page[c].user = u /\ page[c].access = access[u]]_vars
  <2> SUFFICES ASSUME AccessInvariant, SeenRows, [Next]_vars,
                      NEW v \in User, audit'[v] # audit[v]
               PROVE  \E c \in Client : /\ request[c].kind = "change" /\ request'[c] = Idle
                                        /\ page[c].user = v /\ page[c].access = access[v]
    OBVIOUS
  <2>1. TypeOK
    BY TypeParts DEF AccessInvariant
  <2>2. PICK c \in Client, answer \in {"saved", "refused", "unsure"} : ChangeCommit(c, answer)
    BY <2>1, OtherSteps DEF LoginCommit
  <2>3. PICK u \in User, t \in Session, after \in Access : ChangeMade(c, answer, u, t, after)
    BY <2>1, <2>2, ChangeEffect
  <2>4. v = u
    BY <2>1, <2>3, TypeParts DEF ChangeMade, AuditTyped
  <2>5. request[c].kind = "change" /\ request'[c] = Idle
    BY <2>1, <2>2, <2>3, TypeParts DEF ChangeCommit, ChangeMade, BrowsersTyped
  <2>6. page[c].user = u /\ page[c].version = version[u]
    BY <2>3, <2>5 DEF SeenRows, ChangeMade
  <2>7. page[c].access = access[u]
    BY <2>6 DEF SeenRows, Genuine
  <2> QED
    BY <2>4, <2>5, <2>6, <2>7
<1> QED
  BY <1>1, AccessInvariantHolds, SeenRowsHold, PTL DEF Spec, ChangesReplaceWhatWasSeen
=============================================================================
