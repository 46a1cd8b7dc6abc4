----------------------------- MODULE AccessTables -----------------------------
(***************************************************************************)
(* Who may do what, and where the client leads whom: the permissions of    *)
(* the roles (auth.contract.ts), the routes and their guards               *)
(* (app/routes, session-policy.ts), the menu (shell-config.ts), the links  *)
(* of the pages, the requests a page sends for itself, and the stops of    *)
(* the guided tour of each role (role-onboarding.ts).                      *)
(*                                                                         *)
(* A page stands for all its records and search parameters.                *)
(***************************************************************************)
EXTENDS Naturals, Sequences

Role == {"PLANNER", "MATERIAL_MANAGER", "OPERATOR", "QUALITY_ENGINEER", "ADMIN"}

Permission ==
    {"dashboard:read", "work-order:read", "work-order:create", "work-order:release",
     "work-order:cancel", "master-data:read", "material-lot:read",
     "material-lot:decide-quality", "material-allocation:read",
     "material-allocation:create", "material-allocation:release",
     "process-execution:read", "process-execution:execute", "inspection:read",
     "inspection:execute", "inspection:correct", "production-lot:decide-quality",
     "quality-incident:read", "quality-incident:create", "quarantine-target:decide",
     "trace:read", "audit-event:read", "user:manage"}

Granted ==
    [PLANNER |-> {"dashboard:read", "work-order:read", "work-order:create",
        "work-order:release", "work-order:cancel", "master-data:read", "material-lot:read",
        "material-allocation:read", "process-execution:read", "inspection:read",
        "quality-incident:read", "trace:read"},
     MATERIAL_MANAGER |-> {"work-order:read", "master-data:read", "material-lot:read",
        "material-allocation:read", "material-allocation:create",
        "material-allocation:release", "quality-incident:read", "trace:read"},
     OPERATOR |-> {"work-order:read", "process-execution:read", "process-execution:execute"},
     QUALITY_ENGINEER |-> {"work-order:read", "master-data:read", "material-lot:read",
        "material-lot:decide-quality", "process-execution:read", "inspection:read",
        "inspection:execute", "inspection:correct", "production-lot:decide-quality",
        "quality-incident:read", "quality-incident:create", "quarantine-target:decide",
        "trace:read"},
     ADMIN |-> Permission]

Landing ==
    [PLANNER |-> "work-orders", MATERIAL_MANAGER |-> "lots", OPERATOR |-> "queue",
     QUALITY_ENGINEER |-> "inspections", ADMIN |-> "dashboard"]

-----------------------------------------------------------------------------
(* MENU *)

\* The entries of the menu, with the permission that shows each of them.
MenuEntry == {"dashboard", "work-orders", "queue", "boms", "lots", "inspections", "incidents",
              "traceability", "audit", "users"}

MenuPermission ==
    [p \in MenuEntry |->
        CASE p = "dashboard"   -> "dashboard:read"
          [] p = "work-orders" -> "work-order:read"
          [] p = "queue"       -> "process-execution:read"
          [] p = "boms"        -> "master-data:read"
          [] p = "lots"        -> "material-lot:read"
          [] p = "inspections" -> "inspection:read"
          [] p = "incidents"   -> "quality-incident:read"
          [] p = "traceability" -> "trace:read"
          [] p = "audit"       -> "audit-event:read"
          [] p = "users"       -> "user:manage"]

WholeMenu(perms) == MenuEntry                                         \* mutant

Menu(perms) == {p \in MenuEntry : MenuPermission[p] \in perms}

-----------------------------------------------------------------------------
(* ROUTES *)

(***************************************************************************)
(* A route: the permission its beforeLoad requires, the pages it links to  *)
(* besides the menu, and the permissions the controllers require for the   *)
(* requests its page sends on opening.  What depends on the session is     *)
(* given the permissions of its role.                                      *)
(***************************************************************************)
Leading(needs, links) == [needs |-> needs, links |-> links, reads |-> {needs}]
If(permission, perms, pages) == IF permission \in perms THEN pages ELSE {}

DashboardRoute ==
    Leading("dashboard:read", {"order", "inspections", "queue", "work-orders"})

WorkOrdersRoute(perms) ==
    Leading("work-order:read", {"order"} \cup If("work-order:create", perms, {"new-order"}))

\* The products are read with the permission to read work orders.
NewOrderRoute ==
    [needs |-> "work-order:create", links |-> {"order", "work-orders"},
     reads |-> {"work-order:read"}]

\* MaterialReservationPanel: the reservations, and for who may reserve the usable lots.
PanelReads(perms) ==
    {"material-allocation:read"}
        \cup If("material-allocation:create", perms, {"material-lot:read"})

OrderRoute(perms) ==
    [needs |-> "work-order:read",
     links |-> {"work-orders"} \cup If("process-execution:read", perms, {"execution"})
                   \cup If("inspection:read", perms, {"inspection"})
                   \cup If("material-allocation:read", perms, {"reservations"}),
     reads |-> {"work-order:read"}
                   \cup If("material-allocation:read", perms, PanelReads(perms))]

ReservationsRoute(perms) ==
    [needs |-> "work-order:read", links |-> {"order"},
     reads |-> {"work-order:read"} \cup PanelReads(perms)]

QueueRoute == Leading("process-execution:read", {"execution"})
ExecutionRoute == Leading("process-execution:read", {"queue"})
BomsRoute == Leading("master-data:read", {})
LotsRoute == Leading("material-lot:read", {"lot"})
LotRoute == Leading("material-lot:read", {"traceability", "lots"})
InspectionsRoute == Leading("inspection:read", {"inspection"})
InspectionRoute == Leading("inspection:read", {"inspections", "order"})
IncidentsRoute == Leading("quality-incident:read", {"incident"})
IncidentRoute == Leading("quality-incident:read", {"incidents"})
TraceabilityRoute == Leading("trace:read", {"trace-node"})
TraceNodeRoute == Leading("trace:read", {"traceability", "trace-node"})
AuditRoute == Leading("audit-event:read", {})
UsersRoute == Leading("user:manage", {})

\* No permission is needed: the links lead to the start page of the role.
GuideRoute(role) == [needs |-> "none", links |-> {Landing[role]}, reads |-> {}]
ForbiddenRoute(role) == [needs |-> "none", links |-> {Landing[role]}, reads |-> {}]

Page == MenuEntry \cup
    {"new-order", "order", "reservations", "execution", "lot", "inspection", "incident",
     "trace-node", "guide", "forbidden"}

RouteOf(p, role) ==
    LET perms == Granted[role] IN
    CASE p = "dashboard"    -> DashboardRoute
      [] p = "work-orders"  -> WorkOrdersRoute(perms)
      [] p = "new-order"    -> NewOrderRoute
      [] p = "order"        -> OrderRoute(perms)
      [] p = "reservations" -> ReservationsRoute(perms)
      [] p = "queue"        -> QueueRoute
      [] p = "execution"    -> ExecutionRoute
      [] p = "boms"         -> BomsRoute
      [] p = "lots"         -> LotsRoute
      [] p = "lot"          -> LotRoute
      [] p = "inspections"  -> InspectionsRoute
      [] p = "inspection"   -> InspectionRoute
      [] p = "incidents"    -> IncidentsRoute
      [] p = "incident"     -> IncidentRoute
      [] p = "traceability" -> TraceabilityRoute
      [] p = "trace-node"   -> TraceNodeRoute
      [] p = "audit"        -> AuditRoute
      [] p = "users"        -> UsersRoute
      [] p = "guide"        -> GuideRoute(role)
      [] p = "forbidden"    -> ForbiddenRoute(role)

Routes == [r \in Role |-> [p \in Page |-> RouteOf(p, r)]]

DetailsUnguarded(p, role) ==                                          \* mutant
    p \in {"lot", "inspection"} \/ Routes[role][p].needs \in Granted[role] \cup {"none"}

MayOpen(p, role) == Routes[role][p].needs \in Granted[role] \cup {"none"}

\* The paths session-policy.ts knows by their text: a path with a record's id is none.
KnownPath == MenuEntry \cup {"new-order"}

AskedPath(role, asked) == IF asked = "none" THEN Landing[role] ELSE asked   \* mutant

(***************************************************************************)
(* resolvePostLoginPath: the page that was asked for, if its path is known *)
(* and permitted, or the landing page of the role.                         *)
(***************************************************************************)
PostLoginPath(role, asked) ==
    IF asked = "guide" \/ (asked \in KnownPath /\ MayOpen(asked, role))
    THEN asked
    ELSE Landing[role]

-----------------------------------------------------------------------------
(* GUIDED TOUR *)

\* Pages with an editor that registers its unsaved input and its pending command.
Editors == {"order", "reservations", "new-order", "execution", "inspection", "incidents",
            "lots", "users"}

(***************************************************************************)
(* A stop: the list it is reached from, the record it opens there, if any, *)
(* and the permission it needs, if any.  Steps of the source that follow   *)
(* each other on one screen are one stop: they differ in what they point   *)
(* at.                                                                     *)
(***************************************************************************)
On(list) == [to |-> list, detail |-> "none", needs |-> "none"]
Record(list, detail) == [On(list) EXCEPT !.detail = detail]
For(permission, stop) == [stop EXCEPT !.needs = permission]

PlannerGuide ==
    << On("dashboard"), On("work-orders"), For("work-order:create", On("work-orders")),
       For("work-order:create", On("new-order")), On("work-orders"),
       Record("work-orders", "order"),
       For("material-allocation:read", Record("work-orders", "reservations")),
       On("boms"), On("lots"), On("dashboard") >>

OperatorGuide ==
    << On("work-orders"), Record("work-orders", "order"), On("queue"),
       Record("queue", "execution"),
       For("process-execution:execute", Record("queue", "execution")), On("queue") >>

MaterialGuide ==
    << On("lots"), Record("lots", "lot"), On("work-orders"),
       For("material-allocation:read", Record("work-orders", "reservations")),
       For("material-allocation:create", Record("work-orders", "reservations")),
       For("material-allocation:release", Record("work-orders", "reservations")),
       On("boms"), On("traceability"), Record("traceability", "trace-node"), On("lots") >>

QualityGuide ==
    << On("inspections"), Record("inspections", "inspection"),
       For("inspection:execute", Record("inspections", "inspection")),
       Record("inspections", "inspection"),
       For("quality-incident:create", On("incidents")), On("incidents"),
       Record("incidents", "incident"), On("traceability"),
       Record("traceability", "trace-node"), On("lots"), Record("lots", "lot"),
       On("inspections") >>

AdminGuide ==
    << On("dashboard"), On("work-orders"), For("work-order:create", On("new-order")),
       Record("work-orders", "order"),
       For("material-allocation:create", Record("work-orders", "reservations")),
       On("boms"), Record("lots", "lot"), For("material-lot:decide-quality", On("lots")),
       On("queue"), For("process-execution:execute", Record("queue", "execution")),
       On("inspections"), For("inspection:execute", Record("inspections", "inspection")),
       For("quality-incident:create", On("incidents")), Record("incidents", "incident"),
       On("traceability"), Record("traceability", "trace-node"), On("users"), On("audit"),
       On("dashboard") >>

Guide ==
    [PLANNER |-> PlannerGuide, MATERIAL_MANAGER |-> MaterialGuide,
     OPERATOR |-> OperatorGuide, QUALITY_ENGINEER |-> QualityGuide, ADMIN |-> AdminGuide]

Available(stop, perms) ==
    /\ (IF stop.to = "new-order" THEN "work-orders" ELSE stop.to) \in Menu(perms)
    /\ stop.needs \in perms \cup {"none"}

\* availableGuideSteps: the positions in the guide of a role of the stops on a
\* screen of the menu whose permission the role has.
Stops ==
    [r \in Role |-> {i \in DOMAIN Guide[r] : Available(Guide[r][i], Granted[r])}]

Position == UNION {Stops[r] : r \in Role}
=============================================================================
