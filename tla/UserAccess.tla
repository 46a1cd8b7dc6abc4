------------------------------ MODULE UserAccess ------------------------------
(***************************************************************************)
(* Logins, sessions and changes of access: AuthService                     *)
(* (apps/api/src/auth/auth.service.ts), the guards and                     *)
(* AdminUsersService.changeAccess                                          *)
(* (apps/api/src/admin-users/admin-users.service.ts).                      *)
(*                                                                         *)
(* A browser has one request at a time, so a request in flight and the     *)
(* cookie are state of the browser, and so are the user list it has read   *)
(* and the sheet it has open (AdminUsersPage and UserAccessSheet in        *)
(* apps/web/src).  login verifies the password between its two statements  *)
(* on the database and is two actions, and so is a change of access: the   *)
(* guards accept the session, and later the transaction runs, SERIALIZABLE *)
(* and hence one action.                                                   *)
(***************************************************************************)
EXTENDS Integers, Sequences, SequencesExt

CONSTANTS
    User, Client,
    Session,       \* identifiers of Session rows: bounds how many are made
    Role, Admin,   \* RoleCode, and SYSTEM_ADMIN
    Rank,          \* Rank[r]: position of r in the enum, by which roles are ordered
    InitialRoles,  \* InitialRoles[u]: the sets of roles u may be seeded with
    NoUser, NoRole, NoSession,
    MaxChanges     \* MaxChanges[u]: bound on the changes of access of u

VARIABLES
    access,   \* User.isActive and the UserRole rows, by user
    version,  \* User.updatedAt
    session,  \* Session
    audit,    \* AuditEvent USER_ACCESS_CHANGED, by user
    cookie,   \* the session cookie of each browser
    users,    \* the rows of the user list each browser has read
    page,     \* the row whose sheet each browser has open
    request   \* the request each browser has in flight

vars == <<access, version, session, audit, cookie, users, page, request>>

Access == [active : BOOLEAN, roles : SUBSET Role]

\* A session that was revoked, expired or deleted is never accepted again, and
\* nothing else is asked of it: it is ENDED.
SessionRow == [status : {"FREE", "OPEN", "ENDED"}, user : User \cup {NoUser},
               role : Role \cup {NoRole}]

UserRow == [user : User, version : Nat, access : Access]

\* A stale sheet does not send again.
PageRow == [user : User \cup {NoUser}, version : Nat, access : Access, stale : BOOLEAN]

RequestRow == [kind : {"idle", "login", "change"}, user : User \cup {NoUser},
               session : Session \cup {NoSession}, role : Role \cup {NoRole},
               active : BOOLEAN, expected : Nat]

FreeSession == [status |-> "FREE", user |-> NoUser, role |-> NoRole]
EndedSession == [FreeSession EXCEPT !.status = "ENDED"]
EmptyPage == [user |-> NoUser, version |-> 0,
              access |-> [active |-> FALSE, roles |-> {}], stale |-> FALSE]
Idle == [kind |-> "idle", user |-> NoUser, session |-> NoSession, role |-> NoRole,
         active |-> FALSE, expected |-> 0]

ASSUME AccessAssumption ==
    /\ NoUser \notin User /\ NoRole \notin Role /\ NoSession \notin Session
    /\ Admin \in Role
    /\ Rank \in [Role -> Nat]
    /\ InitialRoles \in [User -> SUBSET SUBSET Role]
    /\ \E u \in User : \A roles \in InitialRoles[u] : Admin \in roles
    /\ MaxChanges \in [User -> Nat]

-----------------------------------------------------------------------------
(* SESSIONS *)

\* The first role of a user in the order of the enum; `undefined` without one.
FirstRole(roles) ==
    IF roles = {} THEN NoRole
    ELSE CHOOSE r \in roles : \A q \in roles : Rank[r] <= Rank[q]

\* What authenticateRequest accepts.
Accepted(t) ==
    /\ t # NoSession
    /\ session[t].status = "OPEN"
    /\ access[session[t].user].active

Revoked(row) == IF row.status = "OPEN" THEN EndedSession ELSE row

MayLogIn(u) == access[u].active /\ access[u].roles # {}

(***************************************************************************)
(* login, up to the verification of the password: the account, its state   *)
(* and its first role are read here and used at LoginCommit.               *)
(***************************************************************************)
LoginRead(c, u) ==
    /\ request[c].kind = "idle"
    /\ MayLogIn(u)
    /\ request' = [request EXCEPT ![c] =
         [kind |-> "login", user |-> u, session |-> cookie[c],
          role |-> FirstRole(access[u].roles), active |-> FALSE, expected |-> 0]]
    /\ UNCHANGED <<access, version, session, audit, cookie, users, page>>

RoleUnchecked(u, role) == TRUE                                        \* mutant

\* The foreign key of Session: (userId, activeRole) is a UserRole row.
RoleAssigned(u, role) == role \in access[u].roles

(***************************************************************************)
(* login, its transaction: the session the request came with is revoked    *)
(* and a new one created.  The answer may be lost, and with it the cookie. *)
(***************************************************************************)
LoginCommit(c, t, answered) ==
    LET r == request[c] IN
    /\ r.kind = "login"
    /\ session[t].status = "FREE"
    /\ RoleAssigned(r.user, r.role)
    /\ session' = [s \in Session |->
         IF s = t THEN [status |-> "OPEN", user |-> r.user, role |-> r.role]
         ELSE IF s = r.session THEN Revoked(session[s])
         ELSE session[s]]
    /\ cookie' = [cookie EXCEPT ![c] = IF answered THEN t ELSE @]
    /\ request' = [request EXCEPT ![c] = Idle]
    /\ UNCHANGED <<access, version, audit, users, page>>

(***************************************************************************)
(* logout: behind SessionGuard; the cookie is cleared.                     *)
(***************************************************************************)
Logout(c) ==
    /\ request[c].kind = "idle"
    /\ Accepted(cookie[c])
    /\ session' = [session EXCEPT ![cookie[c]] = Revoked(@)]
    /\ cookie' = [cookie EXCEPT ![c] = NoSession]
    /\ UNCHANGED <<access, version, audit, users, page, request>>

\* The clock passes expiresAt of session t.
Expire(t) ==
    /\ session[t].status = "OPEN"
    /\ session' = [session EXCEPT ![t] = EndedSession]
    /\ UNCHANGED <<access, version, audit, cookie, users, page, request>>

-----------------------------------------------------------------------------
(* CHANGES OF ACCESS *)

\* The guards of AdminUsersController: USER_MANAGE is granted to one role.
Administers(t) == Accepted(t) /\ session[t].role = Admin

\* What list answers for user u.
ListedUser(u) == [user |-> u, version |-> version[u], access |-> access[u]]

\* The page reads the list when it is shown, and again when asked to.
ReadUsers(c) ==
    /\ request[c].kind = "idle" /\ page[c] = EmptyPage
    /\ Administers(cookie[c])
    /\ users' = [users EXCEPT ![c] = {ListedUser(u) : u \in User}]
    /\ UNCHANGED <<access, version, session, audit, cookie, page, request>>

\* The sheet of a row that was read, however long ago.
OpenSheet(c, row) ==
    /\ request[c].kind = "idle" /\ page[c] = EmptyPage
    /\ row \in users[c]
    /\ page' = [page EXCEPT ![c] =
         [user |-> row.user, version |-> row.version, access |-> row.access, stale |-> FALSE]]
    /\ UNCHANGED <<access, version, session, audit, cookie, users, request>>

\* A sheet with a request in flight stays open.
CloseSheet(c) ==
    /\ request[c].kind = "idle" /\ page[c] # EmptyPage
    /\ page' = [page EXCEPT ![c] = EmptyPage]
    /\ UNCHANGED <<access, version, session, audit, cookie, users, request>>

\* The sheet's button that confirms the change.
MaySend(c) == page[c].user # NoUser /\ ~ page[c].stale

\* The input differs from the row of the sheet.
Changed(row, role, active) == row.access # [active |-> active, roles |-> {role}]

\* changeAccess, up to its transaction: the version of the row is sent along.
ChangeRequest(c, role, active) ==
    /\ request[c].kind = "idle"
    /\ MaySend(c)
    /\ Changed(page[c], role, active)
    /\ Administers(cookie[c])
    /\ request' = [request EXCEPT ![c] =
         [kind |-> "change", user |-> page[c].user, session |-> cookie[c], role |-> role,
          active |-> active, expected |-> page[c].version]]
    /\ UNCHANGED <<access, version, session, audit, cookie, users, page>>

\* SessionGuard answers 401 to a change: the sheet is stale.
TurnedAway(c) ==
    /\ request[c].kind = "idle"
    /\ MaySend(c)
    /\ ~ Accepted(cookie[c])
    /\ page' = [page EXCEPT ![c].stale = TRUE]
    /\ UNCHANGED <<access, version, session, audit, cookie, users, request>>

(***************************************************************************)
(* What the answer does to the sheet and the list.  A saved change closes  *)
(* the sheet and reads the list again.  A 401, a 409 or no answer at all   *)
(* makes the sheet stale; after any other refusal it may send again.       *)
(***************************************************************************)
SheetAnswered(c, answer) ==
    /\ users' = IF answer = "saved" THEN [users EXCEPT ![c] = {}] ELSE users
    /\ page' = CASE answer = "saved"   -> [page EXCEPT ![c] = EmptyPage]
                 [] answer = "unsure"  -> [page EXCEPT ![c].stale = TRUE]
                 [] answer = "refused" -> page

SessionTrusted(t) == TRUE                                             \* mutant

\* The session of the administrator, read again inside the transaction.
SessionRechecked(t) == Administers(t)

OtherAdministrators(u) ==                                             \* mutant
    {v \in User \ {u} : Admin \in access[v].roles}

ActiveAdmins(u) == {v \in User \ {u} : access[v].active /\ Admin \in access[v].roles}

\* A change may not take the last active administrator away.
KeepsAdministrator(u, after) ==
    access[u].active /\ Admin \in access[u].roles
      /\ (~ after.active \/ Admin \notin after.roles)
        => ActiveAdmins(u) # {}

RoleSessionsEnded(u, after) ==                                        \* mutant
    [t \in Session |->
       IF session[t].user = u /\ session[t].role \notin after.roles
       THEN Revoked(session[t]) ELSE session[t]]

\* All sessions of u are revoked; those of a removed role are deleted with it.
SessionsEnded(u, after) ==
    [t \in Session |-> IF session[t].user = u THEN Revoked(session[t]) ELSE session[t]]

RolesAdded(u, after) ==                                               \* mutant
    [access EXCEPT ![u] = [after EXCEPT !.roles = @ \cup access[u].roles]]

AccessReplaced(u, after) == [access EXCEPT ![u] = after]

SameMillisecond(u) == version[u]                                      \* mutant

\* max(now, updatedAt + 1): another version, however fast the changes come.
NextVersion(u) == version[u] + 1

(***************************************************************************)
(* changeAccess, its transaction, whatever its browser hears of it.  A     *)
(* change that changes nothing ends without effect and is a Refuse here.   *)
(***************************************************************************)
ChangeCommit(c, answer) ==
    LET r == request[c]
        u == r.user
        after == [active |-> r.active, roles |-> {r.role}]
    IN
    /\ r.kind = "change"
    /\ SessionRechecked(r.session)
    /\ version[u] = r.expected
    /\ access[u] # after
    /\ KeepsAdministrator(u, after)
    /\ Len(audit[u]) < MaxChanges[u]
    /\ session' = SessionsEnded(u, after)
    /\ access' = AccessReplaced(u, after)
    /\ version' = [version EXCEPT ![u] = NextVersion(u)]
    /\ audit' = [audit EXCEPT ![u] = Append(@,
         [actor |-> session[r.session].user, before |-> access[u], after |-> after])]
    /\ request' = [request EXCEPT ![c] = Idle]
    /\ SheetAnswered(c, answer)
    /\ UNCHANGED cookie

(***************************************************************************)
(* A request in flight ends without effect: wrong password, foreign key,   *)
(* stale version, last administrator, no change, serialization failure, or *)
(* the connection is lost before the commit.                               *)
(***************************************************************************)
Refuse(c, answer) ==
    /\ request[c].kind # "idle"
    /\ request' = [request EXCEPT ![c] = Idle]
    /\ IF request[c].kind = "change" THEN SheetAnswered(c, answer) ELSE UNCHANGED <<users, page>>
    /\ UNCHANGED <<access, version, session, audit, cookie>>

-----------------------------------------------------------------------------

SeededAccess(u) == [active : {TRUE}, roles : InitialRoles[u]]

Init ==
    /\ access \in [User -> Access]
    /\ \A u \in User : access[u] \in SeededAccess(u)
    /\ version = [u \in User |-> 0]
    /\ session = [t \in Session |-> FreeSession]
    /\ audit = [u \in User |-> <<>>]
    /\ cookie = [c \in Client |-> NoSession]
    /\ users = [c \in Client |-> {}]
    /\ page = [c \in Client |-> EmptyPage]
    /\ request = [c \in Client |-> Idle]

ClientStep(c) ==
    \/ \E u \in User : LoginRead(c, u)
    \/ \E t \in Session, answered \in BOOLEAN : LoginCommit(c, t, answered)
    \/ Logout(c)
    \/ ReadUsers(c)
    \/ \E row \in users[c] : OpenSheet(c, row)
    \/ CloseSheet(c)
    \/ \E role \in Role, active \in BOOLEAN : ChangeRequest(c, role, active)
    \/ TurnedAway(c)
    \/ \E answer \in {"saved", "refused", "unsure"} : ChangeCommit(c, answer)
    \/ \E answer \in {"refused", "unsure"} : Refuse(c, answer)

Next ==
    \/ \E c \in Client : ClientStep(c)
    \/ \E t \in Session : Expire(t)

Spec == Init /\ [][Next]_vars

-----------------------------------------------------------------------------

AuditRow == [actor : User, before : Access, after : Access]

TypeOK ==
    /\ access \in [User -> Access]
    /\ version \in [User -> Nat]
    /\ session \in [Session -> SessionRow]
    /\ \A t \in Session :
         session[t].status = "OPEN" => session[t].user \in User /\ session[t].role \in Role
    /\ audit \in [User -> Seq(AuditRow)]
    /\ cookie \in [Client -> Session \cup {NoSession}]
    /\ users \in [Client -> SUBSET UserRow]
    /\ page \in [Client -> PageRow]
    /\ request \in [Client -> RequestRow]
    /\ \A c \in Client :
         request[c].kind # "idle" => request[c].user \in User /\ request[c].role \in Role

(***************************************************************************)
(* However administrators demote and disable each other or themselves,     *)
(* from pages opened at any time, an active administrator remains.         *)
(***************************************************************************)
AdministratorRemains ==
    \E u \in User : access[u].active /\ Admin \in access[u].roles

(***************************************************************************)
(* A session that is accepted acts in a role its user still has, although  *)
(* login reads the role before it verifies the password and stores it      *)
(* afterwards, and the role may be taken away in between.                  *)
(***************************************************************************)
AcceptedSessionsJustified ==
    \A t \in Session : Accepted(t) => session[t].role \in access[session[t].user].roles

(***************************************************************************)
(* Access is changed by an administrator who still is one when the change  *)
(* commits, not only when the guards accepted the request.                 *)
(***************************************************************************)
ChangesByAdministrators ==
    [][\A u \in User :
         audit'[u] # audit[u] =>
            Last(audit'[u]).actor
              \in {v \in User : access[v].active /\ Admin \in access[v].roles}]_vars

(***************************************************************************)
(* No change of access is overwritten unseen: what a change replaces is    *)
(* what the page of its administrator showed.                              *)
(***************************************************************************)
ChangesReplaceWhatWasSeen ==
    [][\A u \in User :
         audit'[u] # audit[u] =>
            \E c \in Client : /\ request[c].kind = "change" /\ request'[c] = Idle
                              /\ page[c].user = u /\ page[c].access = access[u]]_vars

(***************************************************************************)
(* "No existing target session survives a change" (changeAccess): also not *)
(* a change that disables a user and a later one that enables him again.   *)
(***************************************************************************)
ChangeSignsOut ==
    [][\A u \in User :
         audit'[u] # audit[u] =>
            \A t \in Session : session[t].user = u => ~ Accepted(t)']_vars

(***************************************************************************)
(* The access history of a user is a chain from the seeded access to the   *)
(* present one: every change starts where the one before it ended.         *)
(***************************************************************************)
AuditExplainsAccess ==
    \A u \in User :
        LET history == audit[u] IN
        /\ \A k \in 1..Len(history) :
             IF k = 1 THEN history[k].before \in SeededAccess(u)
             ELSE history[k].before = history[k-1].after
        /\ IF history = <<>> THEN access[u] \in SeededAccess(u)
           ELSE access[u] = Last(history).after
=============================================================================
