----------------------------- MODULE ClientAccess -----------------------------
(***************************************************************************)
(* One browser tab moving through the client while the session cookie it   *)
(* shares with the other tabs changes under it: the route guard            *)
(* (_authenticated.tsx), the routes' permissions, login, role switch, and  *)
(* the guided tour, which moves the tab by itself (RoleOnboarding.tsx).    *)
(*                                                                         *)
(* A navigation asks the server for the session (Guard) and commits with   *)
(* the answer (Commit); until then the page on the screen stays in use     *)
(* with the session it was rendered with.  Network failures are left to    *)
(* ClientReads.                                                            *)
(***************************************************************************)
EXTENDS AccessTables

CONSTANTS
    Cast,          \* roles that log in in this tab
    Elsewhere,     \* roles that log in in another tab
    Addresses,     \* bound: addresses opened or gone back to after the first one
    MaxSessions,   \* bound: sessions ever made
    MaxGuided,     \* bound: sessions, from the first, that begin a tour
    MaxMoves       \* bound: navigations and edits of the user

ASSUME AccessTablesAssumption ==
    /\ Cast \subseteq Role /\ Elsewhere \subseteq Cast
    /\ Addresses \subseteq Page \cup {"root", "not-found"}
    /\ MaxSessions \in Nat /\ MaxGuided \in Nat /\ MaxMoves \in Nat

VARIABLES
    roles,    \* the active role of each session made so far
    cookie,   \* the session the cookie names, 0 when the server accepts none
    tab,      \* what the tab shows
    nav,      \* the navigation under way
    work,     \* the editor of the page: clean, dirty, or sending a command
    tour,     \* the guided tour
    progress, \* sessionStorage: the stop the tour of a role has reached, 0 for none
    moves     \* only for the bound

vars == <<roles, cookie, tab, nav, work, tour, progress, moves>>

NoTour == [phase |-> "off", index |-> 1, stage |-> "idle", consented |-> FALSE]
NoNav == [to |-> "none", by |-> "none", offered |-> 0, seen |-> 0, guarded |-> FALSE]

\* A navigation to p, offered to the user by a page rendered with session s.
To(p, by, s) == [NoNav EXCEPT !.to = p, !.by = by, !.offered = s]

Init ==
    /\ roles \in {<<>>} \cup {<<r>> : r \in Cast}
    /\ cookie = Len(roles)
    /\ tab = [at |-> "blank", session |-> 0, led |-> FALSE, asked |-> "none"]
    /\ \E p \in Page \cup {"root"} : nav = To(p, "address", 0)
    /\ work = "clean"
    /\ tour = NoTour
    /\ progress = [r \in Role |-> 0]
    /\ moves = 0

RoleOf(s) == roles[s]
Shell == tab.at \in Page                   \* the application shell is on the screen
Touring == tour.phase = "tour"
MayMove == moves < MaxMoves
Moved == moves' = moves + 1

-----------------------------------------------------------------------------
(* NAVIGATION *)

\* What the rendered page offers: the menu, the role's guide page, its own links.
Offered ==
    LET perms == Granted[RoleOf(tab.session)] IN
    Menu(perms) \cup Routes[RoleOf(tab.session)][tab.at].links \cup {"guide"}

\* A click in the page; the overlay of a running tour blocks it.
Follow(p) ==
    /\ MayMove /\ Moved
    /\ \/ Shell /\ ~Touring /\ p \in Offered
       \/ tab.at = "not-found" /\ p = "dashboard"
    /\ p # tab.at \/ p \in {"order", "trace-node"}
    /\ nav' = To(p, "link", tab.session)
    /\ UNCHANGED <<roles, cookie, tab, work, tour, progress>>

\* The address bar, a bookmark or a reload: the document is loaded anew.
OpenAddress(p) ==
    /\ MayMove /\ Moved
    /\ tab' = [at |-> IF p = "not-found" THEN p ELSE "blank", session |-> 0,
               led |-> FALSE, asked |-> "none"]
    /\ nav' = IF p = "not-found" THEN NoNav ELSE To(p, "address", 0)
    /\ work' = "clean"
    /\ tour' = NoTour
    /\ UNCHANGED <<roles, cookie, progress>>

\* pause: the tour gives the page back; its navigation under way goes on.
Paused == [tour EXCEPT !.phase = "paused", !.stage = "idle"]

\* popstate: the tab goes back to an earlier address, and a tour pauses.
GoBack(p) ==
    /\ MayMove /\ Moved
    /\ Shell /\ p \in Page
    /\ nav' = To(p, "address", 0)
    /\ tour' = IF Touring THEN Paused ELSE tour
    /\ UNCHANGED <<roles, cookie, tab, work, progress>>

\* beforeLoad: GET /auth/me answers with the session of the cookie.
Guard ==
    /\ nav.to # "none" /\ ~nav.guarded
    /\ nav' = [nav EXCEPT !.seen = cookie, !.guarded = TRUE]
    /\ UNCHANGED <<roles, cookie, tab, work, tour, progress, moves>>

\* RoleOnboarding is keyed by user and role: mounted anew, it offers to resume.
TourOn(s) ==
    IF Shell /\ RoleOf(tab.session) = RoleOf(s) THEN tour
    ELSE IF progress[RoleOf(s)] = 0 THEN NoTour
    ELSE [NoTour EXCEPT !.phase = "paused", !.index = progress[RoleOf(s)]]

\* The tour goes on when the navigation it waits for has ended.
Arrived(t) ==
    [t EXCEPT !.stage = CASE @ = "to-list" -> "row" [] @ = "to-page" -> "anchor" [] OTHER -> @]

ShowLogin ==
    /\ nav.seen = 0
    /\ tab' = [at |-> "login", session |-> 0, led |-> FALSE,
               asked |-> IF nav.to = "root" THEN "none" ELSE nav.to]
    /\ nav' = NoNav
    /\ work' = "clean"
    /\ tour' = NoTour

\* redirect: the guard of the new route asks for the session again.
Redirect ==
    /\ nav.seen # 0
    /\ LET role == RoleOf(nav.seen) IN
       \/ /\ nav.to = "root"
          /\ nav' = To(Landing[role], "landing", nav.seen)
       \/ /\ nav.to # "root" /\ ~MayOpen(nav.to, role)
          /\ nav' = [nav EXCEPT !.to = "forbidden", !.guarded = FALSE]
    /\ UNCHANGED <<tab, work, tour>>

\* The user did not ask for this page: the client offered it to this very session.
Led == nav.to = "forbidden" /\ nav.by # "address" /\ nav.offered = nav.seen

ShowPage ==
    /\ nav.seen # 0
    /\ nav.to # "root" /\ MayOpen(nav.to, RoleOf(nav.seen))
    /\ tab' = [at |-> nav.to, session |-> nav.seen, led |-> Led, asked |-> "none"]
    /\ nav' = NoNav
    /\ work' = IF nav.to = tab.at THEN work ELSE "clean"
    /\ tour' = [Arrived(TourOn(nav.seen)) EXCEPT !.consented = @ /\ work' = "dirty"]

Commit ==
    /\ nav.guarded
    /\ ShowLogin \/ Redirect \/ ShowPage
    /\ UNCHANGED <<roles, cookie, progress, moves>>

-----------------------------------------------------------------------------
(* SESSIONS *)

NewSession(role) ==
    /\ Len(roles) < MaxSessions
    /\ roles' = Append(roles, role)
    /\ cookie' = Len(roles) + 1

(***************************************************************************)
(* handleLogin and handleAuthenticated: the login revokes the session of   *)
(* the cookie, and the document is loaded at the path it was asked for.    *)
(***************************************************************************)
Login(role) ==
    /\ tab.at = "login"
    /\ NewSession(role)
    /\ nav' = To(PostLoginPath(role, tab.asked), "login", Len(roles) + 1)
    /\ tab' = [tab EXCEPT !.at = "blank", !.asked = "none"]
    /\ UNCHANGED <<work, tour, progress, moves>>

\* The login page finds a session, made in another tab: on to its landing page.
FindSession ==
    /\ tab.at = "login" /\ nav = NoNav
    /\ cookie # 0
    /\ nav' = To(Landing[RoleOf(cookie)], "landing", cookie)
    /\ UNCHANGED <<roles, cookie, tab, work, tour, progress, moves>>

(***************************************************************************)
(* handleSwitchRole: CsrfGuard takes only the token of the cookie's        *)
(* session, and the page sends the one it was rendered with.               *)
(***************************************************************************)
SwitchRole ==
    /\ Shell /\ ~Touring
    /\ cookie # 0 /\ tab.session = cookie
    /\ cookie' = 0
    /\ tab' = [at |-> "login", session |-> 0, led |-> FALSE, asked |-> "none"]
    /\ nav' = NoNav
    /\ work' = "clean"
    /\ tour' = NoTour
    /\ UNCHANGED <<roles, progress, moves>>

\* In another tab somebody logs in, or the session is revoked or expires.
LoginElsewhere(role) ==
    /\ NewSession(role)
    /\ UNCHANGED <<tab, nav, work, tour, progress, moves>>

SessionEnds ==
    /\ cookie # 0
    /\ cookie' = 0
    /\ UNCHANGED <<roles, tab, nav, work, tour, progress, moves>>

-----------------------------------------------------------------------------
(* EDITORS *)

\* Input outside the card of a running tour is blocked, and so is submitting.
Edit ==
    /\ MayMove /\ Moved
    /\ Shell /\ tab.at \in Editors /\ ~Touring
    /\ work = "clean"
    /\ work' = "dirty"
    /\ UNCHANGED <<roles, cookie, tab, nav, tour, progress>>

SendCommand ==
    /\ Shell /\ ~Touring
    /\ work = "dirty"
    /\ work' = "sending"
    /\ UNCHANGED <<roles, cookie, tab, nav, tour, progress, moves>>

AnswerCommand ==
    /\ work = "sending"
    /\ work' \in {"clean", "dirty"}
    /\ UNCHANGED <<roles, cookie, tab, nav, tour, progress, moves>>

-----------------------------------------------------------------------------
(* GUIDED TOUR *)

TourStops == Stops[RoleOf(tab.session)]
Stop == Guide[RoleOf(tab.session)][tour.index]

\* window.location: the address changes as soon as a navigation begins.
Address == IF nav.to = "none" THEN tab.at ELSE nav.to

SafeUnlessDirty == TRUE                                               \* mutant

\* readNavigationSafety: no command may be under way.
SafeToBegin == work # "sending"

Running(i, consented) ==
    /\ tour' = [phase |-> "tour", index |-> i, stage |-> "start", consented |-> consented]
    /\ progress' = [progress EXCEPT ![RoleOf(tab.session)] = i]

(***************************************************************************)
(* begin: from the first stop, or from the one that was reached.  A page   *)
(* with unsaved input asks for consent first.                              *)
(***************************************************************************)
BeginTour(i) ==
    /\ Shell /\ ~Touring /\ tab.session <= MaxGuided
    /\ SafeToBegin
    /\ i \in TourStops
    /\ i = progress[RoleOf(tab.session)] \/ \A j \in TourStops : i <= j
    /\ Running(i, work = "dirty")
    /\ UNCHANGED <<roles, cookie, tab, nav, work, moves>>

MoveToOrStay(p, moving, there) ==
    /\ nav' = IF Address = p THEN nav ELSE To(p, "tour", tab.session)
    /\ tour' = [tour EXCEPT !.stage = IF Address = p THEN there ELSE moving]

\* The record of the stop is known from an earlier stop, or the list shows one.
OpenStop(known) ==
    /\ Touring /\ tour.stage = "start"
    /\ IF Stop.detail = "none" THEN MoveToOrStay(Stop.to, "to-page", "anchor")
       ELSE IF known THEN MoveToOrStay(Stop.detail, "to-page", "anchor")
       ELSE MoveToOrStay(Stop.to, "to-list", "row")
    /\ UNCHANGED <<roles, cookie, tab, work, progress, moves>>

WaitForRow(found) ==                                                  \* mutant
    /\ Touring /\ tour.stage = "row"
    /\ found
    /\ MoveToOrStay(Stop.detail, "to-page", "anchor")
    /\ UNCHANGED <<roles, cookie, tab, work, progress, moves>>

\* waitForTourTarget: the first row of the list, or none within six seconds.
TakeRow(found) ==
    /\ Touring /\ tour.stage = "row"
    /\ IF found THEN MoveToOrStay(Stop.detail, "to-page", "anchor")
       ELSE tour' = [tour EXCEPT !.stage = "settled"] /\ UNCHANGED nav
    /\ UNCHANGED <<roles, cookie, tab, work, progress, moves>>

\* The target is highlighted, its fallback is, or it is missing.
Settle ==
    /\ Touring /\ tour.stage = "anchor"
    /\ tour' = [tour EXCEPT !.stage = "settled"]
    /\ UNCHANGED <<roles, cookie, tab, nav, work, progress, moves>>

\* Next, previous and retry are disabled while a stop is loading.
MoveTour(i) ==
    /\ Touring /\ tour.stage = "settled"
    /\ i \in TourStops
    /\ ~\E j \in TourStops : (tour.index < j /\ j < i) \/ (i < j /\ j < tour.index)
    /\ Running(i, tour.consented)
    /\ UNCHANGED <<roles, cookie, tab, nav, work, moves>>

PauseTour ==
    /\ Touring
    /\ tour' = Paused
    /\ UNCHANGED <<roles, cookie, tab, nav, work, progress, moves>>

\* finish: closed at any time, or completed at the last stop.
FinishTour ==
    /\ Touring
    /\ tour' = [NoTour EXCEPT !.consented = tour.consented]
    /\ progress' = [progress EXCEPT ![RoleOf(tab.session)] = 0]
    /\ UNCHANGED <<roles, cookie, tab, nav, work, moves>>

TourStep == Settle \/ \E b \in BOOLEAN : OpenStop(b) \/ TakeRow(b)

\* What happens without the page: a row need never appear, its timer always ends.
TourRuns == Settle \/ TakeRow(FALSE) \/ \E known \in BOOLEAN : OpenStop(known)

-----------------------------------------------------------------------------

Next ==
    \/ \E p \in Page : Follow(p)
    \/ \E p \in Addresses : OpenAddress(p) \/ GoBack(p)
    \/ Guard \/ Commit
    \/ \E r \in Cast : Login(r)
    \/ \E r \in Elsewhere : LoginElsewhere(r)
    \/ FindSession \/ SwitchRole \/ SessionEnds
    \/ Edit \/ SendCommand \/ AnswerCommand
    \/ \E i \in Position : BeginTour(i) \/ MoveTour(i)
    \/ TourStep \/ PauseTour \/ FinishTour

Spec == Init /\ [][Next]_vars

\* The server answers the guard, the router commits, and timers fire.
FairSpec == Spec /\ WF_vars(Guard) /\ WF_vars(Commit) /\ WF_vars(TourRuns)

-----------------------------------------------------------------------------
(* PROPERTIES *)

TabRow == [at : Page \cup {"blank", "login", "not-found"}, session : Nat, led : BOOLEAN,
           asked : Page \cup {"none"}]
NavRow == [to : Page \cup {"none", "root"}, offered : Nat, seen : Nat, guarded : BOOLEAN,
           by : {"none", "address", "link", "landing", "login", "tour"}]
TourRow == [phase : {"off", "tour", "paused"}, index : Nat, consented : BOOLEAN,
            stage : {"idle", "start", "to-list", "row", "to-page", "anchor", "settled"}]

TypeOK ==
    /\ roles \in Seq(Role)
    /\ cookie \in {0, Len(roles)}
    /\ tab \in TabRow /\ tab.session \in 0 .. Len(roles)
    /\ nav \in NavRow /\ nav.offered \in 0 .. Len(roles) /\ nav.seen \in 0 .. Len(roles)
    /\ work \in {"clean", "dirty", "sending"}
    /\ tour \in TourRow
    /\ progress \in [Role -> Nat]
    /\ moves \in Nat

(***************************************************************************)
(* As long as the session a page was rendered with lasts, the server       *)
(* permits every request the page sends on opening: no page loads halfway. *)
(* The page of the reservations is the exception: it asks only for the     *)
(* permission to read work orders, and its panel shows a refused list as   *)
(* an empty one.                                                           *)
(***************************************************************************)
RenderedPagesReadable ==
    Shell =>
        Routes[RoleOf(tab.session)][tab.at].reads \subseteq Granted[RoleOf(tab.session)]
            \cup (IF tab.at = "reservations" THEN {"material-allocation:read"} ELSE {})

(***************************************************************************)
(* Nobody is led to "no permission": who sees it wrote the address, or     *)
(* followed what was offered under a session that has changed since.       *)
(***************************************************************************)
NoDeadEnd == tab.at = "forbidden" => ~tab.led

(***************************************************************************)
(* A running tour never stands on a page with a command under way, nor,    *)
(* without consent, on one with unsaved input: it would move on and leave  *)
(* them behind.                                                            *)
(***************************************************************************)
TourLeavesWorkAlone ==
    Touring => work # "sending" /\ (work = "dirty" => tour.consented)

(***************************************************************************)
(* A stop of the tour never stays loading: its target is shown or reported *)
(* missing, or the tour is over; next, previous and retry wait for that.   *)
(***************************************************************************)
TourSettles == Touring /\ tour.stage # "settled" ~> ~Touring \/ tour.stage = "settled"
=============================================================================
