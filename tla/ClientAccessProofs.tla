-------------------------- MODULE ClientAccessProofs --------------------------
(***************************************************************************)
(* Where a tab can get to, for every number of sessions and moves: the     *)
(* pages it shows can be read, nobody is led to a page that turns them     *)
(* away, and the tour leaves input alone.                                  *)
(***************************************************************************)
EXTENDS ClientAccess, TLAPS

-----------------------------------------------------------------------------
(* THE TABLES *)

\* A page a role may be led to.
OpenTo(p, r) == p \in Page \ {"forbidden"} /\ MayOpen(p, r)

\* What a role may do, it may also look at: the implications the links rely on.
LEMMA PermissionsImply ==
  ASSUME NEW r \in Role
  PROVE  /\ "work-order:read" \in Granted[r]
         /\ "dashboard:read" \in Granted[r] =>
              "inspection:read" \in Granted[r] /\ "process-execution:read" \in Granted[r]
         /\ "material-lot:read" \in Granted[r] => "trace:read" \in Granted[r]
         /\ "material-allocation:create" \in Granted[r] =>
              "material-lot:read" \in Granted[r] /\ "material-allocation:read" \in Granted[r]
<1>2. CASE r = "PLANNER" BY <1>2 DEF Granted
<1>3. CASE r = "MATERIAL_MANAGER" BY <1>3 DEF Granted
<1>4. CASE r = "OPERATOR" BY <1>4 DEF Granted
<1>5. CASE r = "QUALITY_ENGINEER" BY <1>5 DEF Granted
<1>6. CASE r = "ADMIN" BY <1>6 DEF Granted, Permission
<1> QED BY <1>2, <1>3, <1>4, <1>5, <1>6 DEF Role

\* The rows of the table, one page at a time.
LEMMA RoutesAre ==
  ASSUME NEW r \in Role
  PROVE  /\ Routes[r]["dashboard"] = DashboardRoute
         /\ Routes[r]["work-orders"] = WorkOrdersRoute(Granted[r])
         /\ Routes[r]["new-order"] = NewOrderRoute
         /\ Routes[r]["order"] = OrderRoute(Granted[r])
         /\ Routes[r]["reservations"] = ReservationsRoute(Granted[r])
         /\ Routes[r]["queue"] = QueueRoute /\ Routes[r]["execution"] = ExecutionRoute
         /\ Routes[r]["boms"] = BomsRoute
         /\ Routes[r]["lots"] = LotsRoute /\ Routes[r]["lot"] = LotRoute
         /\ Routes[r]["inspections"] = InspectionsRoute
         /\ Routes[r]["inspection"] = InspectionRoute
         /\ Routes[r]["incidents"] = IncidentsRoute /\ Routes[r]["incident"] = IncidentRoute
         /\ Routes[r]["traceability"] = TraceabilityRoute
         /\ Routes[r]["trace-node"] = TraceNodeRoute
         /\ Routes[r]["audit"] = AuditRoute /\ Routes[r]["users"] = UsersRoute
         /\ Routes[r]["guide"] = GuideRoute(r) /\ Routes[r]["forbidden"] = ForbiddenRoute(r)
<1>1. \A p \in Page : Routes[r][p] = RouteOf(p, r)
  BY DEF Routes
<1> QED BY <1>1 DEF Page, MenuEntry, RouteOf

\* What each page needs.
LEMMA NeedsAre ==
  ASSUME NEW r \in Role
  PROVE  /\ Routes[r]["dashboard"].needs = "dashboard:read"
         /\ \A p \in {"work-orders", "order", "reservations"} :
              Routes[r][p].needs = "work-order:read"
         /\ Routes[r]["new-order"].needs = "work-order:create"
         /\ \A p \in {"queue", "execution"} : Routes[r][p].needs = "process-execution:read"
         /\ Routes[r]["boms"].needs = "master-data:read"
         /\ \A p \in {"lots", "lot"} : Routes[r][p].needs = "material-lot:read"
         /\ \A p \in {"inspections", "inspection"} : Routes[r][p].needs = "inspection:read"
         /\ \A p \in {"incidents", "incident"} : Routes[r][p].needs = "quality-incident:read"
         /\ \A p \in {"traceability", "trace-node"} : Routes[r][p].needs = "trace:read"
         /\ Routes[r]["audit"].needs = "audit-event:read"
         /\ Routes[r]["users"].needs = "user:manage"
         /\ \A p \in {"guide", "forbidden"} : Routes[r][p].needs = "none"
<1>1. /\ Routes[r]["work-orders"].needs = "work-order:read"
      /\ Routes[r]["order"].needs = "work-order:read"
      /\ Routes[r]["reservations"].needs = "work-order:read"
  <2>1. /\ WorkOrdersRoute(Granted[r]).needs = "work-order:read"
        /\ OrderRoute(Granted[r]).needs = "work-order:read"
    BY Zenon DEF WorkOrdersRoute, OrderRoute, Leading
  <2>2. ReservationsRoute(Granted[r]).needs = "work-order:read"
    BY Zenon DEF ReservationsRoute
  <2> QED BY <2>1, <2>2, RoutesAre
<1>2. /\ Routes[r]["dashboard"].needs = "dashboard:read"
      /\ Routes[r]["new-order"].needs = "work-order:create"
      /\ Routes[r]["boms"].needs = "master-data:read"
      /\ Routes[r]["audit"].needs = "audit-event:read"
      /\ Routes[r]["users"].needs = "user:manage"
  BY RoutesAre DEF DashboardRoute, NewOrderRoute, BomsRoute, AuditRoute, UsersRoute, Leading
<1>3. /\ \A p \in {"queue", "execution"} : Routes[r][p].needs = "process-execution:read"
      /\ \A p \in {"lots", "lot"} : Routes[r][p].needs = "material-lot:read"
  BY RoutesAre DEF QueueRoute, ExecutionRoute, LotsRoute, LotRoute, Leading
<1>4. /\ \A p \in {"inspections", "inspection"} : Routes[r][p].needs = "inspection:read"
      /\ \A p \in {"incidents", "incident"} : Routes[r][p].needs = "quality-incident:read"
  BY RoutesAre
  DEF InspectionsRoute, InspectionRoute, IncidentsRoute, IncidentRoute, Leading
<1>5. /\ \A p \in {"traceability", "trace-node"} : Routes[r][p].needs = "trace:read"
      /\ \A p \in {"guide", "forbidden"} : Routes[r][p].needs = "none"
  <2>1. GuideRoute(r).needs = "none" /\ ForbiddenRoute(r).needs = "none"
    BY Zenon DEF GuideRoute, ForbiddenRoute
  <2>2. TraceabilityRoute.needs = "trace:read" /\ TraceNodeRoute.needs = "trace:read"
    BY DEF TraceabilityRoute, TraceNodeRoute, Leading
  <2> QED BY <2>1, <2>2, RoutesAre
<1> QED BY <1>1, <1>2, <1>3, <1>4, <1>5

LEMMA PageIsOneOf ==
  ASSUME NEW p \in Page
  PROVE  \/ p = "dashboard" \/ p = "work-orders" \/ p = "new-order" \/ p = "order"
         \/ p = "reservations" \/ p = "queue" \/ p = "execution" \/ p = "boms"
         \/ p = "lots" \/ p = "lot" \/ p = "inspections" \/ p = "inspection"
         \/ p = "incidents" \/ p = "incident" \/ p = "traceability" \/ p = "trace-node"
         \/ p = "audit" \/ p = "users" \/ p = "guide" \/ p = "forbidden"
BY DEF Page, MenuEntry

\* What a page that may be opened reads, its reader may read.
LEMMA OpenPagesAreRead ==
  ASSUME NEW r \in Role, NEW p \in Page, MayOpen(p, r)
  PROVE  Routes[r][p].reads \subseteq
           Granted[r] \cup (IF p = "reservations" THEN {"material-allocation:read"} ELSE {})
<1> DEFINE G == Granted[r]
<1>1. CASE p \in {"dashboard", "work-orders", "queue", "execution", "boms", "lots", "lot",
                  "inspections", "inspection", "incidents", "incident", "traceability",
                  "trace-node", "audit", "users"}
  <2>1. Routes[r][p].reads = {Routes[r][p].needs}
    <3>1. \A needs, links : /\ Leading(needs, links).needs = needs
                            /\ Leading(needs, links).reads = {needs}
      BY Zenon DEF Leading
    <3>2. CASE p \in {"dashboard", "queue", "execution", "boms"}
      BY <3>1, <3>2, RoutesAre DEF DashboardRoute, QueueRoute, ExecutionRoute, BomsRoute
    <3>3. CASE p \in {"lots", "lot", "inspections", "inspection", "incidents"}
      BY <3>1, <3>3, RoutesAre
      DEF LotsRoute, LotRoute, InspectionsRoute, InspectionRoute, IncidentsRoute
    <3>4. CASE p \in {"incident", "traceability", "trace-node", "audit", "users"}
      BY <3>1, <3>4, RoutesAre
      DEF IncidentRoute, TraceabilityRoute, TraceNodeRoute, AuditRoute, UsersRoute
    <3>5. CASE p = "work-orders"
      <4>1. /\ WorkOrdersRoute(G).needs = "work-order:read"
            /\ WorkOrdersRoute(G).reads = {"work-order:read"}
        BY Zenon DEF WorkOrdersRoute, Leading
      <4> QED BY <3>5, <4>1, RoutesAre
    <3> QED BY <1>1, <3>2, <3>3, <3>4, <3>5
  <2>2. Routes[r][p].needs # "none"
    BY <1>1, NeedsAre
  <2> QED BY <2>1, <2>2 DEF MayOpen
<1>2. CASE p = "new-order"
  BY <1>2, RoutesAre, PermissionsImply DEF NewOrderRoute
<1>3. CASE p = "order"
  <2>1. Routes[r][p].reads =
          {"work-order:read"} \cup If("material-allocation:read", G, PanelReads(G))
    <3>1. OrderRoute(G).reads =
            {"work-order:read"} \cup If("material-allocation:read", G, PanelReads(G))
      BY Zenon DEF OrderRoute
    <3> QED BY <1>3, <3>1, RoutesAre
  <2> QED BY <1>3, <2>1, PermissionsImply DEF If, PanelReads
<1>4. CASE p = "reservations"
  <2>1. Routes[r][p].reads = {"work-order:read"} \cup PanelReads(G)
    <3>1. ReservationsRoute(G).reads = {"work-order:read"} \cup PanelReads(G)
      BY Zenon DEF ReservationsRoute
    <3> QED BY <1>4, <3>1, RoutesAre
  <2> QED BY <1>4, <2>1, PermissionsImply DEF If, PanelReads
<1>5. CASE p \in {"guide", "forbidden"}
  <2>1. GuideRoute(r).reads = {} /\ ForbiddenRoute(r).reads = {}
    BY Zenon DEF GuideRoute, ForbiddenRoute
  <2> QED BY <1>5, <2>1, RoutesAre
<1> QED BY <1>1, <1>2, <1>3, <1>4, <1>5, PageIsOneOf

\* The landing page and the guide of a role are open to it.
LEMMA LandingIsOpen ==
  ASSUME NEW r \in Role
  PROVE  OpenTo(Landing[r], r) /\ OpenTo("guide", r)
<1>1. CASE r = "PLANNER"
  BY <1>1, NeedsAre, PermissionsImply DEF Landing, OpenTo, MayOpen, Page, MenuEntry
<1>2. CASE r = "MATERIAL_MANAGER"
  BY <1>2, NeedsAre DEF Landing, OpenTo, MayOpen, Page, MenuEntry, Granted
<1>3. CASE r = "OPERATOR"
  BY <1>3, NeedsAre DEF Landing, OpenTo, MayOpen, Page, MenuEntry, Granted
<1>4. CASE r = "QUALITY_ENGINEER"
  BY <1>4, NeedsAre DEF Landing, OpenTo, MayOpen, Page, MenuEntry, Granted
<1>5. CASE r = "ADMIN"
  BY <1>5, NeedsAre DEF Landing, OpenTo, MayOpen, Page, MenuEntry, Granted, Permission
<1> QED BY <1>1, <1>2, <1>3, <1>4, <1>5 DEF Role

\* Every entry of the menu shown to a role is open to it.
LEMMA MenuIsOpen ==
  ASSUME NEW r \in Role, NEW p \in Menu(Granted[r])
  PROVE  OpenTo(p, r)
<1>1. p \in MenuEntry /\ MenuPermission[p] \in Granted[r]
  BY DEF Menu
<1>2. p \in Page /\ p # "forbidden"
  BY <1>1 DEF Page, MenuEntry
<1>3. Routes[r][p].needs = MenuPermission[p]
  BY <1>1, NeedsAre DEF MenuPermission, MenuEntry
<1> QED BY <1>1, <1>2, <1>3 DEF OpenTo, MayOpen

\* After a login a role is led to a page open to it, whatever page was asked for.
LEMMA PostLoginIsOpen ==
  ASSUME NEW r \in Role, NEW asked \in Page \cup {"none"}
  PROVE  OpenTo(PostLoginPath(r, asked), r)
<1>1. CASE asked = "guide"
  BY <1>1, LandingIsOpen DEF PostLoginPath
<1>2. CASE asked \in KnownPath /\ MayOpen(asked, r)
  <2>1. asked \in Page /\ asked # "forbidden"
    BY <1>2 DEF KnownPath, Page, MenuEntry
  <2> QED BY <1>2, <2>1 DEF PostLoginPath, OpenTo
<1>3. CASE ~(asked = "guide" \/ (asked \in KnownPath /\ MayOpen(asked, r)))
  BY <1>3, LandingIsOpen DEF PostLoginPath
<1> QED BY <1>1, <1>2, <1>3

\* A link of a page that may be opened leads to one that may be opened as well.
LEMMA LinksAreOpen ==
  ASSUME NEW r \in Role, NEW p \in Page, MayOpen(p, r), NEW q \in Routes[r][p].links
  PROVE  OpenTo(q, r)
<1> DEFINE G == Granted[r]
<1>1. /\ \A s \in {"work-orders", "order", "reservations"} : OpenTo(s, r)
      /\ "process-execution:read" \in G => OpenTo("queue", r) /\ OpenTo("execution", r)
      /\ "inspection:read" \in G => OpenTo("inspections", r) /\ OpenTo("inspection", r)
      /\ "work-order:create" \in G => OpenTo("new-order", r)
      /\ "material-lot:read" \in G => OpenTo("lots", r) /\ OpenTo("lot", r)
      /\ "quality-incident:read" \in G => OpenTo("incidents", r) /\ OpenTo("incident", r)
      /\ "trace:read" \in G => OpenTo("traceability", r) /\ OpenTo("trace-node", r)
  BY NeedsAre, PermissionsImply DEF OpenTo, MayOpen, Page, MenuEntry
<1>2. Routes[r][p].needs \in G \/ Routes[r][p].needs = "none"
  BY DEF MayOpen
<1>3. \A needs, links : Leading(needs, links).links = links
  BY Zenon DEF Leading
<1>4. CASE p = "dashboard"
  <2>1. Routes[r][p].links = {"order", "inspections", "queue", "work-orders"}
    BY <1>3, <1>4, RoutesAre DEF DashboardRoute
  <2>2. "dashboard:read" \in G
    BY <1>2, <1>4, NeedsAre
  <2> QED BY <1>1, <2>1, <2>2, PermissionsImply
<1>5. CASE p = "work-orders"
  <2>1. WorkOrdersRoute(G).links = {"order"} \cup If("work-order:create", G, {"new-order"})
    BY <1>3, Zenon DEF WorkOrdersRoute
  <2>2. q \in {"order"} \cup If("work-order:create", G, {"new-order"})
    BY <1>5, <2>1, RoutesAre
  <2> QED BY <1>1, <2>2 DEF If
<1>6. CASE p = "new-order"
  <2>1. Routes[r][p].links = {"order", "work-orders"}
    BY <1>6, RoutesAre DEF NewOrderRoute
  <2> QED BY <1>1, <2>1
<1>7. CASE p = "order"
  <2>1. OrderRoute(G).links =
          {"work-orders"} \cup If("process-execution:read", G, {"execution"})
            \cup If("inspection:read", G, {"inspection"})
            \cup If("material-allocation:read", G, {"reservations"})
    BY Zenon DEF OrderRoute
  <2>2. q \in {"work-orders"} \cup If("process-execution:read", G, {"execution"})
                \cup If("inspection:read", G, {"inspection"})
                \cup If("material-allocation:read", G, {"reservations"})
    BY <1>7, <2>1, RoutesAre
  <2> QED BY <1>1, <2>2 DEF If
<1>8. CASE p = "reservations"
  <2>1. ReservationsRoute(G).links = {"order"}
    BY Zenon DEF ReservationsRoute
  <2>2. q = "order"
    BY <1>8, <2>1, RoutesAre
  <2> QED BY <1>1, <2>2
<1>9. CASE p \in {"queue", "execution"}
  <2>1. Routes[r][p].links \subseteq {"queue", "execution"}
    BY <1>3, <1>9, RoutesAre DEF QueueRoute, ExecutionRoute
  <2>2. "process-execution:read" \in G
    BY <1>2, <1>9, NeedsAre
  <2> QED BY <1>1, <2>1, <2>2
<1>10. CASE p \in {"lots", "lot"}
  <2>1. Routes[r][p].links \subseteq {"lots", "lot", "traceability"}
    BY <1>3, <1>10, RoutesAre DEF LotsRoute, LotRoute
  <2>2. "material-lot:read" \in G
    BY <1>2, <1>10, NeedsAre
  <2> QED BY <1>1, <2>1, <2>2, PermissionsImply
<1>11. CASE p \in {"inspections", "inspection"}
  <2>1. Routes[r][p].links \subseteq {"inspections", "inspection", "order"}
    BY <1>3, <1>11, RoutesAre DEF InspectionsRoute, InspectionRoute
  <2>2. "inspection:read" \in G
    BY <1>2, <1>11, NeedsAre
  <2> QED BY <1>1, <2>1, <2>2
<1>12. CASE p \in {"incidents", "incident"}
  <2>1. Routes[r][p].links \subseteq {"incidents", "incident"}
    BY <1>3, <1>12, RoutesAre DEF IncidentsRoute, IncidentRoute
  <2>2. "quality-incident:read" \in G
    BY <1>2, <1>12, NeedsAre
  <2> QED BY <1>1, <2>1, <2>2
<1>13. CASE p \in {"traceability", "trace-node"}
  <2>1. Routes[r][p].links \subseteq {"traceability", "trace-node"}
    BY <1>3, <1>13, RoutesAre DEF TraceabilityRoute, TraceNodeRoute
  <2>2. "trace:read" \in G
    BY <1>2, <1>13, NeedsAre
  <2> QED BY <1>1, <2>1, <2>2
<1>14. CASE p \in {"boms", "audit", "users"}
  BY <1>3, <1>14, RoutesAre DEF BomsRoute, AuditRoute, UsersRoute
<1>15. CASE p \in {"guide", "forbidden"}
  <2>1. GuideRoute(r).links = {Landing[r]} /\ ForbiddenRoute(r).links = {Landing[r]}
    BY Zenon DEF GuideRoute, ForbiddenRoute
  <2>2. q = Landing[r]
    BY <1>15, <2>1, RoutesAre
  <2> QED BY <2>2, LandingIsOpen
<1> QED
  BY <1>4, <1>5, <1>6, <1>7, <1>8, <1>9, <1>10, <1>11, <1>12, <1>13, <1>14, <1>15,
     PageIsOneOf

-----------------------------------------------------------------------------
(* THE STOPS *)

\* The lists records are opened from.
ListOf(l, d) ==
  \/ l = "work-orders" /\ d \in {"order", "reservations"}
  \/ l = "queue" /\ d = "execution"
  \/ l = "lots" /\ d = "lot"
  \/ l = "inspections" /\ d = "inspection"
  \/ l = "incidents" /\ d = "incident"
  \/ l = "traceability" /\ d = "trace-node"

\* A stop on a list of the menu, or on the form of a new order for who may create one.
SoundStop(s) ==
  \/ s.to \in MenuEntry /\ (s.detail = "none" \/ ListOf(s.to, s.detail))
  \/ s.to = "new-order" /\ s.needs = "work-order:create" /\ s.detail = "none"

LEMMA StopsOfTheGuides ==
  /\ \A l \in MenuEntry : SoundStop(On(l)) /\ \A n : SoundStop(For(n, On(l)))
  /\ \A l \in MenuEntry : \A d :
       ListOf(l, d) => SoundStop(Record(l, d)) /\ \A n : SoundStop(For(n, Record(l, d)))
  /\ SoundStop(For("work-order:create", On("new-order")))
<1>1. \A l : On(l).to = l /\ On(l).detail = "none"
  BY Zenon DEF On
<1>2. \A l, d : Record(l, d).to = l /\ Record(l, d).detail = d
  BY DEF On, Record
<1>3. \A n, l : For(n, On(l)).to = l /\ For(n, On(l)).detail = "none" /\ For(n, On(l)).needs = n
  BY DEF On, For
<1>4. \A n, l, d : For(n, Record(l, d)).to = l /\ For(n, Record(l, d)).detail = d
  BY DEF On, For, Record
<1> QED BY <1>1, <1>2, <1>3, <1>4 DEF SoundStop

LEMMA GuidesAreSound ==
  ASSUME NEW r \in Role, NEW i \in DOMAIN Guide[r]
  PROVE  SoundStop(Guide[r][i])
<1>1. /\ \A n, l : l \in MenuEntry => SoundStop(On(l)) /\ SoundStop(For(n, On(l)))
      /\ \A n, d : d \in {"order", "reservations"} =>
           SoundStop(Record("work-orders", d)) /\ SoundStop(For(n, Record("work-orders", d)))
      /\ \A n : SoundStop(Record("queue", "execution"))
                /\ SoundStop(For(n, Record("queue", "execution")))
      /\ \A n : SoundStop(Record("inspections", "inspection"))
                /\ SoundStop(For(n, Record("inspections", "inspection")))
      /\ SoundStop(Record("lots", "lot")) /\ SoundStop(Record("incidents", "incident"))
      /\ SoundStop(Record("traceability", "trace-node"))
      /\ SoundStop(For("work-order:create", On("new-order")))
  BY StopsOfTheGuides DEF ListOf, MenuEntry
<1>2. {"dashboard", "work-orders", "queue", "boms", "lots", "inspections", "incidents",
       "traceability", "audit", "users"} = MenuEntry
  BY DEF MenuEntry
<1>3. CASE r = "PLANNER"
  BY <1>1, <1>2, <1>3 DEF Guide, PlannerGuide
<1>4. CASE r = "OPERATOR"
  BY <1>1, <1>2, <1>4 DEF Guide, OperatorGuide
<1>5. CASE r = "MATERIAL_MANAGER"
  BY <1>1, <1>2, <1>5 DEF Guide, MaterialGuide
<1>6. CASE r = "QUALITY_ENGINEER"
  BY <1>1, <1>2, <1>6 DEF Guide, QualityGuide
<1>7. CASE r = "ADMIN"
  BY <1>1, <1>2, <1>7 DEF Guide, AdminGuide
<1> QED BY <1>3, <1>4, <1>5, <1>6, <1>7 DEF Role

\* The screens of a stop of the tour of a role are open to the role.
LEMMA StopsAreOpen ==
  ASSUME NEW r \in Role, NEW i \in Stops[r]
  PROVE  /\ OpenTo(Guide[r][i].to, r)
         /\ Guide[r][i].detail # "none" => OpenTo(Guide[r][i].detail, r)
<1> DEFINE s == Guide[r][i]
<1> DEFINE l == IF s.to = "new-order" THEN "work-orders" ELSE s.to
<1>1. i \in DOMAIN Guide[r] /\ Available(s, Granted[r])
  BY DEF Stops
<1>2. SoundStop(s)
  BY <1>1, GuidesAreSound
<1>3. OpenTo(l, r) /\ s.needs \in Granted[r] \cup {"none"}
  BY <1>1, MenuIsOpen DEF Available
<1>4. CASE s.to = "new-order"
  BY <1>2, <1>3, <1>4, NeedsAre DEF SoundStop, MenuEntry, OpenTo, MayOpen, Page
<1>5. CASE s.to \in MenuEntry /\ s.detail = "none"
  BY <1>3, <1>5 DEF MenuEntry
<1>6. CASE s.to \in MenuEntry /\ ListOf(s.to, s.detail)
  <2>1. OpenTo(s.to, r)
    BY <1>3, <1>6 DEF MenuEntry
  <2>2. s.detail \in Page /\ s.detail # "forbidden"
        /\ Routes[r][s.detail].needs = Routes[r][s.to].needs
    BY <1>6, NeedsAre DEF ListOf, Page, MenuEntry
  <2> QED BY <2>1, <2>2 DEF OpenTo, MayOpen
<1> QED BY <1>2, <1>4, <1>5, <1>6 DEF SoundStop

-----------------------------------------------------------------------------
(* THE INVARIANT *)

\* A page is on the screen under a session that may open it.
OpenPagesPermitted ==
  IF Shell THEN tab.session # 0 /\ MayOpen(tab.at, RoleOf(tab.session)) ELSE tab.session = 0

\* A tour runs in the shell, at a stop of the role; what is kept of one is a stop.
TourOnStops ==
  /\ Touring => Shell /\ tour.index \in TourStops
  /\ \A r \in Role : progress[r] \in Stops[r] \cup {0}

\* A tour waits in a list only for a record its stop opens.
RowsAreAwaited ==
  Touring /\ tour.stage \in {"to-list", "row"} => Stop.detail # "none"

\* What the client offers to a session is open to it.
OffersPermitted ==
  nav.to \notin {"none", "root", "forbidden"} /\ nav.by # "address" =>
    nav.offered = 0 \/ MayOpen(nav.to, RoleOf(nav.offered))

\* What is guarded is a navigation, and its session is not older than the offer's.
GuardsCurrent ==
  nav.guarded => nav.to # "none" /\ (nav.seen # 0 => nav.offered <= nav.seen)

\* Who is turned away from what was offered has another session by now.
DeadEndsOutdated ==
  nav.to = "forbidden" /\ nav.by # "address" =>
    /\ nav.offered < Len(roles)
    /\ nav.guarded => nav.seen = 0 \/ nav.offered < nav.seen

SessionsSafe == roles \in Seq(Role) /\ cookie \in {0, Len(roles)} /\ moves \in Nat

TabSafe ==
  /\ tab \in TabRow /\ tab.session \in 0 .. Len(roles)
  /\ OpenPagesPermitted
  /\ tab.led = FALSE

NavSafe ==
  /\ nav \in NavRow /\ nav.offered \in 0 .. Len(roles) /\ nav.seen \in 0 .. Len(roles)
  /\ OffersPermitted
  /\ GuardsCurrent
  /\ DeadEndsOutdated

TourSafe ==
  /\ work \in {"clean", "dirty", "sending"} /\ tour \in TourRow
  /\ progress \in [Role -> Nat]
  /\ TourOnStops
  /\ RowsAreAwaited
  /\ TourLeavesWorkAlone

AccessInvariant == SessionsSafe /\ TabSafe /\ NavSafe /\ TourSafe
-----------------------------------------------------------------------------
(* WHAT A STEP LEAVES ALONE *)

\* Sessions are only added: the roles of those made so far stay.
SessionsKept ==
  /\ SessionsSafe'
  /\ Len(roles) <= Len(roles')
  /\ \A s \in 1 .. Len(roles) : RoleOf(s)' = RoleOf(s)

LEMMA SessionAdded ==
  ASSUME SessionsSafe, NEW r \in Role, NewSession(r), moves' \in Nat
  PROVE  SessionsKept /\ Len(roles') = Len(roles) + 1 /\ roles'[Len(roles) + 1] = r
<1>1. /\ roles \in Seq(Role) /\ roles' = Append(roles, r) /\ cookie' = Len(roles) + 1
  BY DEF SessionsSafe, NewSession
<1>2. /\ roles' \in Seq(Role) /\ Len(roles') = Len(roles) + 1 /\ Len(roles) \in Nat
      /\ \A s \in 1 .. Len(roles) : roles'[s] = roles[s]
      /\ roles'[Len(roles) + 1] = r
  BY <1>1
<1>3. SessionsSafe'
  BY <1>1, <1>2 DEF SessionsSafe
<1> QED BY <1>1, <1>2, <1>3 DEF SessionsKept, RoleOf

LEMMA SessionsUnchanged ==
  ASSUME SessionsSafe, roles' = roles, cookie' \in {0, cookie}, moves' \in Nat
  PROVE  SessionsKept
BY DEF SessionsSafe, SessionsKept, RoleOf

LEMMA RolesAreRoles ==
  ASSUME SessionsSafe, NEW s \in 1 .. Len(roles)
  PROVE  RoleOf(s) \in Role
BY DEF SessionsSafe, RoleOf

LEMMA TabKept ==
  ASSUME SessionsSafe, TabSafe, SessionsKept, UNCHANGED tab
  PROVE  TabSafe'
<1>1. tab.session \in 0 .. Len(roles) /\ Len(roles) \in Nat /\ Len(roles') \in Nat
  BY DEF TabSafe, SessionsSafe, SessionsKept
<1>2. tab'.session \in 0 .. Len(roles')
  BY <1>1 DEF SessionsKept
<1>3. OpenPagesPermitted'
  BY <1>1 DEF TabSafe, SessionsKept, OpenPagesPermitted, Shell
<1> QED BY <1>2, <1>3 DEF TabSafe

LEMMA NavKept ==
  ASSUME SessionsSafe, NavSafe, SessionsKept, UNCHANGED nav
  PROVE  NavSafe'
<1>1. /\ nav.offered \in 0 .. Len(roles) /\ nav.seen \in 0 .. Len(roles)
      /\ Len(roles) \in Nat /\ Len(roles') \in Nat /\ Len(roles) <= Len(roles')
  BY DEF NavSafe, SessionsSafe, SessionsKept
<1>2. nav'.offered \in 0 .. Len(roles') /\ nav'.seen \in 0 .. Len(roles')
  BY <1>1
<1>3. OffersPermitted'
  BY <1>1 DEF NavSafe, SessionsKept, OffersPermitted
<1>4. DeadEndsOutdated'
  BY <1>1 DEF NavSafe, DeadEndsOutdated
<1> QED BY <1>2, <1>3, <1>4 DEF NavSafe, GuardsCurrent

LEMMA TourKept ==
  ASSUME SessionsSafe, TabSafe, TourSafe, SessionsKept, UNCHANGED <<tab, work, tour, progress>>
  PROVE  TourSafe'
<1>1. Touring => tab.session \in 1 .. Len(roles)
  BY DEF TabSafe, TourSafe, TourOnStops, OpenPagesPermitted, SessionsSafe
<1>2. TourOnStops'
  BY <1>1 DEF TourSafe, TourOnStops, Touring, Shell, TourStops, SessionsKept
<1>3. RowsAreAwaited'
  BY <1>1 DEF TourSafe, RowsAreAwaited, Touring, Stop, SessionsKept
<1> QED BY <1>2, <1>3 DEF TourSafe, TourLeavesWorkAlone, Touring

-----------------------------------------------------------------------------
(* WHAT A STEP OFFERS *)

LEMMA ToIs ==
  ASSUME NEW p, NEW by, NEW s, NEW n, n = To(p, by, s)
  PROVE  n.to = p /\ n.by = by /\ n.offered = s /\ n.seen = 0 /\ ~n.guarded
<1>1. n.to = p /\ n.by = by /\ n.offered = s
  BY DEF To, NoNav
<1>2. n.seen = 0 /\ ~n.guarded
  BY DEF To, NoNav
<1> QED BY <1>1, <1>2

LEMMA ToTyped ==
  ASSUME NEW p \in Page \cup {"root"}, NEW s \in Nat,
         NEW by \in {"address", "link", "landing", "login", "tour"}
  PROVE  To(p, by, s) \in NavRow
BY DEF To, NoNav, NavRow

\* A page open to a session is offered to it.
LEMMA PageOffered ==
  ASSUME SessionsKept, NEW s \in 0 .. Len(roles'), NEW p \in Page,
         NEW by \in {"link", "landing", "login", "tour"},
         p # "forbidden", s = 0 \/ MayOpen(p, RoleOf(s)'), nav' = To(p, by, s)
  PROVE  NavSafe'
<1>1. nav' \in NavRow
  BY ToTyped DEF SessionsKept, SessionsSafe
<1>2. nav'.offered \in 0 .. Len(roles') /\ nav'.seen \in 0 .. Len(roles')
  BY ToIs DEF SessionsKept, SessionsSafe
<1>3. OffersPermitted'
  BY ToIs DEF OffersPermitted
<1>4. GuardsCurrent' /\ DeadEndsOutdated'
  BY ToIs DEF GuardsCurrent, DeadEndsOutdated
<1> QED BY <1>1, <1>2, <1>3, <1>4 DEF NavSafe

\* An address of the user is no offer.
LEMMA AddressAsked ==
  ASSUME SessionsKept, NEW p \in Page \cup {"root"}, nav' = To(p, "address", 0)
  PROVE  NavSafe'
<1>1. nav' \in NavRow
  BY ToTyped DEF SessionsKept, SessionsSafe
<1>2. nav'.offered \in 0 .. Len(roles') /\ nav'.seen \in 0 .. Len(roles')
  BY ToIs DEF SessionsKept, SessionsSafe
<1>3. OffersPermitted' /\ GuardsCurrent' /\ DeadEndsOutdated'
  BY ToIs DEF OffersPermitted, GuardsCurrent, DeadEndsOutdated
<1> QED BY <1>1, <1>2, <1>3 DEF NavSafe

LEMMA NothingOffered ==
  ASSUME SessionsKept, nav' = NoNav
  PROVE  NavSafe'
<1>1. nav' \in NavRow
  BY DEF NavRow, NoNav
<1>2. nav'.offered \in 0 .. Len(roles') /\ nav'.seen \in 0 .. Len(roles')
  BY DEF SessionsKept, SessionsSafe, NoNav
<1>3. OffersPermitted' /\ GuardsCurrent' /\ DeadEndsOutdated'
  BY DEF OffersPermitted, GuardsCurrent, DeadEndsOutdated, NoNav
<1> QED BY <1>1, <1>2, <1>3 DEF NavSafe

-----------------------------------------------------------------------------
(* NAVIGATION *)

LEMMA ShellIsOpen ==
  ASSUME AccessInvariant, Shell
  PROVE  /\ tab.session \in 1 .. Len(roles) /\ RoleOf(tab.session) \in Role
         /\ tab.at \in Page /\ MayOpen(tab.at, RoleOf(tab.session))
<1>1. tab.session \in 1 .. Len(roles)
  BY DEF AccessInvariant, TabSafe, OpenPagesPermitted, SessionsSafe
<1> QED BY <1>1, RolesAreRoles DEF AccessInvariant, TabSafe, OpenPagesPermitted, Shell

LEMMA SeenIsASession ==
  ASSUME AccessInvariant, nav.seen # 0
  PROVE  nav.seen \in 1 .. Len(roles) /\ RoleOf(nav.seen) \in Role
<1>1. nav.seen \in 1 .. Len(roles)
  BY DEF AccessInvariant, NavSafe, SessionsSafe
<1> QED BY <1>1, RolesAreRoles DEF AccessInvariant

\* Without a tour under way, what is kept of one has to be a stop.
LEMMA TourOff ==
  ASSUME TourSafe, tour' \in TourRow, tour'.phase # "tour", UNCHANGED progress,
         work' \in {"clean", "dirty", "sending"}
  PROVE  TourSafe'
BY DEF TourSafe, TourOnStops, RowsAreAwaited, TourLeavesWorkAlone, Touring

LEMMA NoTourTyped == NoTour \in TourRow /\ NoTour.phase = "off"
<1>1. NoTour.phase = "off"
  BY Zenon DEF NoTour
<1> QED BY <1>1 DEF NoTour, TourRow

LEMMA FollowSafe ==
  ASSUME AccessInvariant, NEW p \in Page, Follow(p)
  PROVE  AccessInvariant'
<1>1. SessionsKept
  BY SessionsUnchanged DEF AccessInvariant, SessionsSafe, Follow, Moved
<1>2. TabSafe' /\ TourSafe'
  BY <1>1, TabKept, TourKept DEF AccessInvariant, Follow
<1>3. nav' = To(p, "link", tab.session) /\ roles' = roles /\ tab.session \in 0 .. Len(roles)
  BY DEF Follow, AccessInvariant, TabSafe
<1>4. NavSafe'
  <2>1. CASE Shell /\ p \in Offered
    <3> DEFINE r == RoleOf(tab.session)
    <3>1. r \in Role /\ tab.at \in Page /\ MayOpen(tab.at, r)
      BY <2>1, ShellIsOpen
    <3>2. p \in Menu(Granted[r]) \/ p \in Routes[r][tab.at].links \/ p = "guide"
      BY <2>1 DEF Offered
    <3>3. OpenTo(p, r)
      BY <3>1, <3>2, MenuIsOpen, LinksAreOpen, LandingIsOpen
    <3>4. p # "forbidden" /\ MayOpen(p, roles'[tab.session])
      BY <1>3, <3>3 DEF OpenTo, RoleOf
    <3> QED BY <1>1, <1>3, <3>4, PageOffered DEF RoleOf
  <2>2. CASE tab.at = "not-found" /\ p = "dashboard"
    <3>1. tab.session = 0
      BY <2>2 DEF AccessInvariant, TabSafe, OpenPagesPermitted, Shell, Page, MenuEntry
    <3> QED BY <1>1, <1>3, <2>2, <3>1, PageOffered
  <2> QED BY <2>1, <2>2 DEF Follow
<1> QED BY <1>1, <1>2, <1>4 DEF AccessInvariant, SessionsKept

LEMMA OpenAddressSafe ==
  ASSUME AccessInvariant, NEW p \in Addresses, OpenAddress(p)
  PROVE  AccessInvariant'
<1>1. SessionsKept /\ roles' = roles
  BY SessionsUnchanged DEF AccessInvariant, SessionsSafe, OpenAddress, Moved
<1>2. TabSafe'
  <2>1. tab' = [at |-> IF p = "not-found" THEN p ELSE "blank", session |-> 0,
                led |-> FALSE, asked |-> "none"]
    BY DEF OpenAddress
  <2>2. /\ tab' \in TabRow /\ tab'.session = 0 /\ tab'.at \notin Page
        /\ tab'.led = FALSE
    BY <2>1 DEF TabRow, Page, MenuEntry
  <2> QED BY <1>1, <2>2 DEF TabSafe, OpenPagesPermitted, Shell, SessionsKept, SessionsSafe
<1>3. NavSafe'
  BY <1>1, AddressAsked, NothingOffered, AccessTablesAssumption DEF OpenAddress
<1>4. TourSafe'
  BY TourOff, NoTourTyped DEF OpenAddress, AccessInvariant
<1> QED BY <1>1, <1>2, <1>3, <1>4 DEF AccessInvariant, SessionsKept

LEMMA PausedTyped ==
  ASSUME TourSafe
  PROVE  Paused \in TourRow /\ Paused.phase = "paused"
BY DEF TourSafe, TourRow, Paused

LEMMA GoBackSafe ==
  ASSUME AccessInvariant, NEW p \in Addresses, GoBack(p)
  PROVE  AccessInvariant'
<1>1. SessionsKept
  BY SessionsUnchanged DEF AccessInvariant, SessionsSafe, GoBack, Moved
<1>2. TabSafe'
  BY <1>1, TabKept DEF AccessInvariant, GoBack
<1>3. NavSafe'
  BY <1>1, AddressAsked DEF GoBack
<1>4. TourSafe'
  <2>1. CASE Touring
    BY <2>1, TourOff, PausedTyped DEF GoBack, AccessInvariant, TourSafe
  <2>2. CASE ~Touring
    BY <2>2, <1>1, TourKept DEF GoBack, AccessInvariant
  <2> QED BY <2>1, <2>2
<1> QED BY <1>1, <1>2, <1>3, <1>4 DEF AccessInvariant, SessionsKept

LEMMA GuardSafe ==
  ASSUME AccessInvariant, Guard
  PROVE  AccessInvariant'
<1>1. SessionsKept /\ roles' = roles
  BY SessionsUnchanged DEF AccessInvariant, SessionsSafe, Guard
<1>2. TabSafe' /\ TourSafe'
  BY <1>1, TabKept, TourKept DEF AccessInvariant, Guard
<1>3. /\ nav'.to = nav.to /\ nav'.by = nav.by /\ nav'.offered = nav.offered
      /\ nav'.seen = cookie /\ nav' \in NavRow /\ nav.to # "none"
  <2>1. nav \in NavRow /\ cookie \in Nat /\ nav' = [nav EXCEPT !.seen = cookie, !.guarded = TRUE]
    BY DEF Guard, AccessInvariant, NavSafe, SessionsSafe
  <2>2. nav' \in NavRow
    BY <2>1 DEF NavRow
  <2> QED BY <2>1, <2>2 DEF Guard, NavRow
<1>4. /\ cookie \in {0, Len(roles)} /\ Len(roles) \in Nat
      /\ nav.offered \in 0 .. Len(roles)
  BY DEF AccessInvariant, SessionsSafe, NavSafe
<1>5. OffersPermitted' /\ GuardsCurrent'
  BY <1>1, <1>3, <1>4
  DEF AccessInvariant, NavSafe, OffersPermitted, GuardsCurrent, RoleOf
<1>6. DeadEndsOutdated'
  BY <1>1, <1>3, <1>4 DEF AccessInvariant, NavSafe, DeadEndsOutdated
<1>7. NavSafe'
  BY <1>1, <1>3, <1>4, <1>5, <1>6 DEF NavSafe
<1> QED BY <1>1, <1>2, <1>7 DEF AccessInvariant, SessionsKept

LEMMA BlankTabSafe ==
  ASSUME SessionsKept, tab' \in TabRow, tab'.session = 0, tab'.at \notin Page, tab'.led = FALSE
  PROVE  TabSafe'
BY DEF TabSafe, OpenPagesPermitted, Shell, SessionsKept, SessionsSafe

LEMMA ShowLoginSafe ==
  ASSUME AccessInvariant, Commit, ShowLogin
  PROVE  AccessInvariant'
<1>1. SessionsKept
  BY SessionsUnchanged DEF AccessInvariant, SessionsSafe, Commit
<1>2. nav.to \in Page \cup {"root"}
  BY DEF AccessInvariant, NavSafe, NavRow, GuardsCurrent, Commit
<1>3. TabSafe'
  <2>1. tab' = [at |-> "login", session |-> 0, led |-> FALSE,
                asked |-> IF nav.to = "root" THEN "none" ELSE nav.to]
    BY DEF ShowLogin
  <2>2. tab' \in TabRow
    BY <1>2, <2>1 DEF TabRow
  <2>3. tab'.session = 0 /\ tab'.at \notin Page /\ tab'.led = FALSE
    BY <2>1 DEF Page, MenuEntry
  <2> QED BY <1>1, <2>2, <2>3, BlankTabSafe
<1>4. NavSafe' /\ TourSafe'
  BY <1>1, NothingOffered, TourOff, NoTourTyped DEF ShowLogin, Commit, AccessInvariant
<1> QED BY <1>1, <1>3, <1>4 DEF AccessInvariant, SessionsKept

LEMMA ForbiddenIsOpen ==
  ASSUME NEW r \in Role
  PROVE  MayOpen("forbidden", r)
BY NeedsAre DEF MayOpen

\* Who is turned away from a page offered to an earlier session.
LEMMA RedirectSafe ==
  ASSUME AccessInvariant, Commit, Redirect
  PROVE  AccessInvariant'
<1>1. SessionsKept /\ roles' = roles
  BY SessionsUnchanged DEF AccessInvariant, SessionsSafe, Commit
<1>2. TabSafe' /\ TourSafe'
  BY <1>1, TabKept, TourKept DEF AccessInvariant, Redirect, Commit
<1> DEFINE r == RoleOf(nav.seen)
<1>3. nav.seen # 0 /\ nav.seen \in 1 .. Len(roles) /\ r \in Role /\ nav.guarded
  BY SeenIsASession DEF Redirect, Commit
<1>4. CASE nav.to = "root" /\ nav' = To(Landing[r], "landing", nav.seen)
  <2>1. OpenTo(Landing[r], r)
    BY <1>3, LandingIsOpen
  <2>2. Landing[r] \in Page /\ Landing[r] # "forbidden" /\ MayOpen(Landing[r], roles'[nav.seen])
    BY <1>1, <2>1 DEF OpenTo, RoleOf
  <2>3. NavSafe'
    BY <1>1, <1>3, <1>4, <2>2, PageOffered DEF RoleOf
  <2> QED BY <1>1, <1>2, <2>3 DEF AccessInvariant, SessionsKept
<1>5. CASE /\ nav.to # "root" /\ ~MayOpen(nav.to, r)
           /\ nav' = [nav EXCEPT !.to = "forbidden", !.guarded = FALSE]
  <2>1. /\ nav'.to = "forbidden" /\ nav'.by = nav.by /\ nav'.offered = nav.offered
        /\ nav'.seen = nav.seen /\ nav' \in NavRow
    <3>1. nav \in NavRow
      BY DEF AccessInvariant, NavSafe
    <3>2. nav' \in NavRow
      BY <3>1, <1>5 DEF NavRow, Page
    <3> QED BY <3>1, <3>2, <1>5 DEF NavRow
  <2>2. ~nav'.guarded
    BY <1>5 DEF AccessInvariant, NavSafe, NavRow
  <2>3. nav.to # "forbidden" /\ nav.to # "none"
    BY <1>3, <1>5, ForbiddenIsOpen DEF AccessInvariant, NavSafe, GuardsCurrent
  <2>4. nav.by # "address" => nav.offered < Len(roles)
    <3> SUFFICES ASSUME nav.by # "address" PROVE nav.offered < Len(roles)
      OBVIOUS
    <3>1. nav.offered <= nav.seen /\ nav.offered \in Nat
      BY <1>3 DEF AccessInvariant, NavSafe, GuardsCurrent
    <3>2. nav.offered # nav.seen
      BY <1>3, <1>5, <2>3 DEF AccessInvariant, NavSafe, OffersPermitted
    <3> QED BY <1>3, <3>1, <3>2 DEF AccessInvariant, SessionsSafe
  <2>5. OffersPermitted' /\ GuardsCurrent' /\ DeadEndsOutdated'
    BY <1>1, <2>1, <2>2, <2>4 DEF OffersPermitted, GuardsCurrent, DeadEndsOutdated
  <2>6. NavSafe'
    BY <1>1, <2>1, <2>5 DEF NavSafe, AccessInvariant
  <2> QED BY <1>1, <1>2, <2>6 DEF AccessInvariant, SessionsKept
<1> QED BY <1>4, <1>5 DEF Redirect

LEMMA ArrivedKeeps ==
  ASSUME NEW t \in TourRow
  PROVE  /\ Arrived(t) \in TourRow /\ Arrived(t).phase = t.phase
         /\ Arrived(t).index = t.index /\ (Arrived(t).consented <=> t.consented)
         /\ Arrived(t).stage \in {"to-list", "row"} => t.stage \in {"to-list", "row"}
<1> DEFINE u == Arrived(t)
<1>1. u.phase = t.phase /\ u.index = t.index /\ u.consented = t.consented
  BY DEF Arrived, TourRow
<1>2. u \in TourRow
  BY DEF Arrived, TourRow
<1>3. u.stage \in {"to-list", "row"} => t.stage \in {"to-list", "row"}
  BY DEF Arrived, TourRow
<1> QED BY <1>1, <1>2, <1>3

LEMMA TourOnKeeps ==
  ASSUME AccessInvariant, NEW s \in 1 .. Len(roles)
  PROVE  /\ TourOn(s) \in TourRow
         /\ TourOn(s).phase = "tour" =>
              TourOn(s) = tour /\ Touring /\ Shell /\ RoleOf(tab.session) = RoleOf(s)
<1>1. RoleOf(s) \in Role /\ progress[RoleOf(s)] \in Nat /\ tour \in TourRow
  BY RolesAreRoles DEF AccessInvariant, TourSafe
<1>2. CASE Shell /\ RoleOf(tab.session) = RoleOf(s)
  BY <1>1, <1>2 DEF TourOn, Touring
<1>3. CASE ~(Shell /\ RoleOf(tab.session) = RoleOf(s)) /\ progress[RoleOf(s)] = 0
  BY <1>3, NoTourTyped DEF TourOn
<1>4. CASE ~(Shell /\ RoleOf(tab.session) = RoleOf(s)) /\ progress[RoleOf(s)] # 0
  <2> DEFINE t == [NoTour EXCEPT !.phase = "paused", !.index = progress[RoleOf(s)]]
  <2>1. TourOn(s) = t
    BY <1>4 DEF TourOn
  <2>2. t \in TourRow /\ t.phase = "paused"
    BY <1>1, NoTourTyped DEF TourRow
  <2> QED BY <2>1, <2>2
<1> QED BY <1>2, <1>3, <1>4

LEMMA ShowPageSafe ==
  ASSUME AccessInvariant, Commit, ShowPage
  PROVE  AccessInvariant'
<1>1. SessionsKept /\ roles' = roles
  BY SessionsUnchanged DEF AccessInvariant, SessionsSafe, Commit
<1> DEFINE r == RoleOf(nav.seen)
<1>2. /\ nav.seen # 0 /\ nav.seen \in 1 .. Len(roles) /\ r \in Role /\ nav.guarded
      /\ nav.to \in Page /\ MayOpen(nav.to, r)
  BY SeenIsASession DEF ShowPage, Commit, AccessInvariant, NavSafe, GuardsCurrent, NavRow
<1>3. ~Led
  BY <1>2 DEF Led, AccessInvariant, NavSafe, DeadEndsOutdated
<1>4. /\ tab'.at = nav.to /\ tab'.session = nav.seen /\ tab'.led = FALSE
      /\ tab' \in TabRow
  <2>1. tab' = [at |-> nav.to, session |-> nav.seen, led |-> FALSE, asked |-> "none"]
    <3>1. Led = FALSE
      BY <1>3 DEF Led
    <3> QED BY <3>1 DEF ShowPage
  <2> QED BY <1>2, <2>1 DEF TabRow, AccessInvariant, NavSafe, NavRow
<1>5. TabSafe'
  BY <1>1, <1>2, <1>4 DEF TabSafe, OpenPagesPermitted, Shell, RoleOf
<1>6. NavSafe'
  BY <1>1, NothingOffered DEF ShowPage
<1>7. TourSafe'
  <2>1. /\ work' \in {"clean", "dirty", "sending"} /\ work' \in {work, "clean"}
        /\ UNCHANGED progress
    BY DEF ShowPage, Commit, AccessInvariant, TourSafe
  <2> DEFINE t == Arrived(TourOn(nav.seen))
  <2>2. /\ t \in TourRow /\ t.phase = TourOn(nav.seen).phase
        /\ t.index = TourOn(nav.seen).index /\ (t.consented <=> TourOn(nav.seen).consented)
        /\ t.stage \in {"to-list", "row"} => TourOn(nav.seen).stage \in {"to-list", "row"}
    BY <1>2, TourOnKeeps, ArrivedKeeps
  <2>3. /\ tour' = [t EXCEPT !.consented = @ /\ work' = "dirty"]
    BY DEF ShowPage
  <2> HIDE DEF t
  <2>4. /\ tour' \in TourRow /\ tour'.phase = t.phase /\ tour'.index = t.index
        /\ (tour'.consented <=> t.consented /\ work' = "dirty") /\ tour'.stage = t.stage
    BY <2>2, <2>3 DEF TourRow
  <2>5. CASE t.phase # "tour"
    BY <2>1, <2>4, <2>5, TourOff DEF AccessInvariant
  <2>6. CASE t.phase = "tour"
    <3>1. TourOn(nav.seen) = tour /\ Touring /\ Shell /\ RoleOf(tab.session) = r
      BY <1>2, <2>2, <2>6, TourOnKeeps
    <3>2. /\ tour.index \in Stops[r] /\ \A x \in Role : progress[x] \in Stops[x] \cup {0}
          /\ work # "sending" /\ (work = "dirty" => tour.consented)
      BY <3>1 DEF AccessInvariant, TourSafe, TourOnStops, TourStops, TourLeavesWorkAlone
    <3>3. TourOnStops'
      BY <1>1, <1>2, <1>4, <2>1, <2>2, <2>4, <3>1, <3>2
      DEF TourOnStops, TourStops, Shell, RoleOf
    <3>4. TourLeavesWorkAlone'
      BY <2>1, <2>2, <2>4, <3>1, <3>2 DEF TourLeavesWorkAlone
    <3>5. RowsAreAwaited'
      BY <1>1, <1>2, <1>4, <2>2, <2>4, <3>1
      DEF RowsAreAwaited, Stop, RoleOf, AccessInvariant, TourSafe
    <3> QED BY <2>1, <2>4, <3>3, <3>4, <3>5 DEF AccessInvariant, TourSafe
  <2> QED BY <2>5, <2>6
<1> QED BY <1>1, <1>5, <1>6, <1>7 DEF AccessInvariant, SessionsKept

-----------------------------------------------------------------------------
(* SESSIONS AND EDITORS *)

LEMMA LoginSafe ==
  ASSUME AccessInvariant, NEW r \in Cast, Login(r)
  PROVE  AccessInvariant'
<1>1. r \in Role
  BY AccessTablesAssumption
<1>2. SessionsKept /\ Len(roles') = Len(roles) + 1 /\ roles'[Len(roles) + 1] = r
  BY <1>1, SessionAdded DEF AccessInvariant, SessionsSafe, Login
<1>3. tab \in TabRow /\ tab.at = "login" /\ tab.session = 0 /\ tab.led = FALSE
  BY DEF Login, AccessInvariant, TabSafe, OpenPagesPermitted, Shell, Page, MenuEntry
<1>4. TabSafe'
  <2>1. tab' = [tab EXCEPT !.at = "blank", !.asked = "none"]
    BY DEF Login
  <2>2. tab' \in TabRow /\ tab'.session = 0 /\ tab'.at \notin Page /\ tab'.led = FALSE
    BY <1>3, <2>1 DEF TabRow, Page, MenuEntry
  <2> QED BY <1>2, <2>2, BlankTabSafe
<1>5. NavSafe'
  <2> DEFINE p == PostLoginPath(r, tab.asked)
  <2>1. OpenTo(p, r)
    BY <1>1, <1>3, PostLoginIsOpen DEF TabRow
  <2>2. p \in Page /\ p # "forbidden" /\ MayOpen(p, roles'[Len(roles) + 1])
    BY <1>2, <2>1 DEF OpenTo
  <2>3. PICK s \in 0 .. Len(roles') : s = Len(roles) + 1
    BY <1>2 DEF AccessInvariant, SessionsSafe
  <2>4. nav' = To(p, "login", s)
    BY <2>3 DEF Login
  <2> QED BY <1>2, <2>2, <2>3, <2>4, PageOffered DEF RoleOf
<1>6. TourSafe'
  <2>1. ~Touring
    BY <1>3 DEF AccessInvariant, TourSafe, TourOnStops, Shell, Page, MenuEntry
  <2> QED BY <2>1, TourOff DEF Login, AccessInvariant, TourSafe, Touring
<1> QED BY <1>2, <1>4, <1>5, <1>6 DEF AccessInvariant, SessionsKept

LEMMA LoginElsewhereSafe ==
  ASSUME AccessInvariant, NEW r \in Elsewhere, LoginElsewhere(r)
  PROVE  AccessInvariant'
<1>1. r \in Role
  BY AccessTablesAssumption
<1>2. SessionsKept
  BY <1>1, SessionAdded DEF AccessInvariant, SessionsSafe, LoginElsewhere
<1> QED BY <1>2, TabKept, NavKept, TourKept DEF AccessInvariant, LoginElsewhere, SessionsKept

LEMMA FindSessionSafe ==
  ASSUME AccessInvariant, FindSession
  PROVE  AccessInvariant'
<1>1. SessionsKept /\ roles' = roles
  BY SessionsUnchanged DEF AccessInvariant, SessionsSafe, FindSession
<1>2. TabSafe' /\ TourSafe'
  BY <1>1, TabKept, TourKept DEF AccessInvariant, FindSession
<1>3. cookie \in 1 .. Len(roles)
  BY DEF AccessInvariant, SessionsSafe, FindSession
<1>4. OpenTo(Landing[RoleOf(cookie)], RoleOf(cookie))
  BY <1>3, RolesAreRoles, LandingIsOpen DEF AccessInvariant
<1>5. /\ Landing[RoleOf(cookie)] \in Page /\ Landing[RoleOf(cookie)] # "forbidden"
      /\ MayOpen(Landing[RoleOf(cookie)], roles'[cookie])
  BY <1>1, <1>4 DEF OpenTo, RoleOf
<1>6. PICK s \in 0 .. Len(roles') : s = cookie
  BY <1>1, <1>3
<1>7. nav' = To(Landing[RoleOf(cookie)], "landing", s)
  BY <1>6 DEF FindSession
<1>8. NavSafe'
  BY <1>1, <1>5, <1>6, <1>7, PageOffered DEF RoleOf
<1> QED BY <1>1, <1>2, <1>8 DEF AccessInvariant, SessionsKept

LEMMA SwitchRoleSafe ==
  ASSUME AccessInvariant, SwitchRole
  PROVE  AccessInvariant'
<1>1. SessionsKept
  BY SessionsUnchanged DEF AccessInvariant, SessionsSafe, SwitchRole
<1>2. TabSafe'
  <2>1. tab' = [at |-> "login", session |-> 0, led |-> FALSE, asked |-> "none"]
    BY DEF SwitchRole
  <2>2. tab' \in TabRow /\ tab'.session = 0 /\ tab'.at \notin Page /\ tab'.led = FALSE
    BY <2>1 DEF TabRow, Page, MenuEntry
  <2> QED BY <1>1, <2>2, BlankTabSafe
<1>3. NavSafe' /\ TourSafe'
  BY <1>1, NothingOffered, TourOff, NoTourTyped DEF SwitchRole, AccessInvariant
<1> QED BY <1>1, <1>2, <1>3 DEF AccessInvariant, SessionsKept

LEMMA SessionEndsSafe ==
  ASSUME AccessInvariant, SessionEnds
  PROVE  AccessInvariant'
<1>1. SessionsKept
  BY SessionsUnchanged DEF AccessInvariant, SessionsSafe, SessionEnds
<1> QED BY <1>1, TabKept, NavKept, TourKept DEF AccessInvariant, SessionEnds, SessionsKept

\* The editor of a page: no tour runs while its input changes or is sent.
LEMMA EditorSafe ==
  ASSUME AccessInvariant, Edit \/ SendCommand \/ AnswerCommand
  PROVE  AccessInvariant'
<1>1. SessionsKept
  BY SessionsUnchanged DEF AccessInvariant, SessionsSafe, Edit, Moved, SendCommand, AnswerCommand
<1>2. TabSafe' /\ NavSafe'
  BY <1>1, TabKept, NavKept DEF AccessInvariant, Edit, SendCommand, AnswerCommand
<1>3. ~Touring
  BY DEF Edit, SendCommand, AnswerCommand, AccessInvariant, TourSafe, TourLeavesWorkAlone
<1>4. UNCHANGED <<tour, progress>> /\ work' \in {"clean", "dirty", "sending"}
  BY DEF Edit, SendCommand, AnswerCommand
<1>5. TourSafe'
  BY <1>3, <1>4, TourOff DEF AccessInvariant, TourSafe, Touring
<1> QED BY <1>1, <1>2, <1>5 DEF AccessInvariant, SessionsKept

-----------------------------------------------------------------------------
(* GUIDED TOUR *)

LEMMA StopsAreNumbers ==
  ASSUME NEW r \in Role
  PROVE  Stops[r] \subseteq Nat
<1>1. DOMAIN Guide[r] \subseteq Nat
  BY DEF Guide, PlannerGuide, OperatorGuide, MaterialGuide, QualityGuide, AdminGuide, Role
<1> QED BY <1>1 DEF Stops

\* The tour shows a stop of the role while no command is under way.
LEMMA RunningSafe ==
  ASSUME AccessInvariant, SessionsKept, Shell, NEW i \in TourStops, NEW c \in BOOLEAN,
         UNCHANGED <<roles, tab, work>>, Running(i, c),
         work # "sending", work = "dirty" => c
  PROVE  TourSafe'
<1> DEFINE r == RoleOf(tab.session)
<1>1. r \in Role /\ i \in Stops[r] /\ i \in Nat
  BY ShellIsOpen, StopsAreNumbers DEF TourStops
<1>2. /\ tour' \in TourRow /\ tour'.index = i /\ (tour'.consented <=> c)
      /\ tour'.stage = "start"
  BY <1>1 DEF Running, TourRow
<1>3. /\ progress' \in [Role -> Nat]
      /\ \A x \in Role : progress'[x] = IF x = r THEN i ELSE progress[x]
  BY <1>1 DEF Running, AccessInvariant, TourSafe
<1>4. TourOnStops'
  BY <1>1, <1>2, <1>3
  DEF TourOnStops, TourStops, Shell, RoleOf, AccessInvariant, TourSafe
<1>5. TourLeavesWorkAlone' /\ RowsAreAwaited'
  BY <1>2 DEF TourLeavesWorkAlone, RowsAreAwaited
<1> QED BY <1>2, <1>3, <1>4, <1>5 DEF TourSafe, AccessInvariant

LEMMA BeginTourSafe ==
  ASSUME AccessInvariant, NEW i \in Position, BeginTour(i)
  PROVE  AccessInvariant'
<1>1. SessionsKept
  BY SessionsUnchanged DEF AccessInvariant, SessionsSafe, BeginTour
<1>2. TabSafe' /\ NavSafe'
  BY <1>1, TabKept, NavKept DEF AccessInvariant, BeginTour
<1>3. TourSafe'
  BY <1>1, RunningSafe DEF BeginTour, SafeToBegin
<1> QED BY <1>1, <1>2, <1>3 DEF AccessInvariant, SessionsKept

LEMMA MoveTourSafe ==
  ASSUME AccessInvariant, NEW i \in Position, MoveTour(i)
  PROVE  AccessInvariant'
<1>1. SessionsKept
  BY SessionsUnchanged DEF AccessInvariant, SessionsSafe, MoveTour
<1>2. TabSafe' /\ NavSafe'
  BY <1>1, TabKept, NavKept DEF AccessInvariant, MoveTour
<1>3. /\ tour.consented \in BOOLEAN /\ Shell /\ work # "sending"
      /\ (work = "dirty" => tour.consented)
  BY DEF AccessInvariant, TourSafe, TourRow, MoveTour, TourOnStops, TourLeavesWorkAlone
<1>4. TourSafe'
  BY <1>1, <1>3, RunningSafe DEF MoveTour
<1> QED BY <1>1, <1>2, <1>4 DEF AccessInvariant, SessionsKept

\* A running tour that only goes from one stage of its stop to the next.
LEMMA StageSafe ==
  ASSUME AccessInvariant, SessionsKept, UNCHANGED <<roles, tab, work, progress>>,
         NEW stage \in {"row", "to-list", "to-page", "anchor", "settled"},
         stage \in {"row", "to-list"} => Stop.detail # "none",
         tour' = [tour EXCEPT !.stage = stage]
  PROVE  TourSafe'
<1>1. /\ tour' \in TourRow /\ tour'.phase = tour.phase /\ tour'.index = tour.index
      /\ (tour'.consented <=> tour.consented) /\ tour'.stage = stage
  BY DEF AccessInvariant, TourSafe, TourRow
<1>2. TourOnStops' /\ RowsAreAwaited'
  BY <1>1
  DEF AccessInvariant, TourSafe, TourOnStops, RowsAreAwaited, TourStops, Stop, Touring, Shell,
      RoleOf
<1>3. TourLeavesWorkAlone'
  BY <1>1 DEF AccessInvariant, TourSafe, TourLeavesWorkAlone, Touring
<1> QED BY <1>1, <1>2, <1>3 DEF AccessInvariant, TourSafe

LEMMA MoveToOrStaySafe ==
  ASSUME AccessInvariant, Touring, NEW p, OpenTo(p, RoleOf(tab.session)),
         UNCHANGED <<roles, cookie, tab, work, progress, moves>>,
         NEW moving \in {"to-list", "to-page"}, NEW there \in {"row", "anchor"},
         {moving, there} \cap {"to-list", "row"} # {} => Stop.detail # "none",
         MoveToOrStay(p, moving, there)
  PROVE  AccessInvariant'
<1>1. SessionsKept
  BY SessionsUnchanged DEF AccessInvariant, SessionsSafe
<1>2. TabSafe'
  BY <1>1, TabKept DEF AccessInvariant
<1>3. TourSafe'
  <2>1. PICK stage \in {moving, there} : tour' = [tour EXCEPT !.stage = stage]
    BY DEF MoveToOrStay
  <2> QED BY <1>1, <2>1, StageSafe
<1>4. NavSafe'
  <2>1. CASE Address = p
    BY <1>1, <2>1, NavKept DEF MoveToOrStay, AccessInvariant
  <2>2. CASE Address # p
    <3>1. nav' = To(p, "tour", tab.session) /\ tab.session \in 0 .. Len(roles')
      BY <2>2 DEF MoveToOrStay, AccessInvariant, TabSafe
    <3>2. p \in Page /\ p # "forbidden" /\ MayOpen(p, roles'[tab.session])
      BY DEF OpenTo, RoleOf
    <3> QED BY <1>1, <3>1, <3>2, PageOffered DEF RoleOf
  <2> QED BY <2>1, <2>2
<1> QED BY <1>1, <1>2, <1>3, <1>4 DEF AccessInvariant, SessionsKept

\* The screens of the current stop are open to who takes the tour.
LEMMA StopIsOpen ==
  ASSUME AccessInvariant, Touring
  PROVE  /\ OpenTo(Stop.to, RoleOf(tab.session))
         /\ Stop.detail # "none" => OpenTo(Stop.detail, RoleOf(tab.session))
<1>1. Shell /\ tour.index \in Stops[RoleOf(tab.session)]
  BY DEF AccessInvariant, TourSafe, TourOnStops, TourStops
<1>2. RoleOf(tab.session) \in Role
  BY <1>1, ShellIsOpen
<1> QED BY <1>1, <1>2, StopsAreOpen DEF Stop

LEMMA OpenStopSafe ==
  ASSUME AccessInvariant, NEW known \in BOOLEAN, OpenStop(known)
  PROVE  AccessInvariant'
BY StopIsOpen, MoveToOrStaySafe DEF OpenStop

LEMMA PauseTourSafe ==
  ASSUME AccessInvariant, PauseTour
  PROVE  AccessInvariant'
<1>1. SessionsKept
  BY SessionsUnchanged DEF AccessInvariant, SessionsSafe, PauseTour
<1>2. TabSafe' /\ NavSafe'
  BY <1>1, TabKept, NavKept DEF AccessInvariant, PauseTour
<1>3. TourSafe'
  BY TourOff, PausedTyped DEF PauseTour, AccessInvariant, TourSafe
<1> QED BY <1>1, <1>2, <1>3 DEF AccessInvariant, SessionsKept

LEMMA FinishTourSafe ==
  ASSUME AccessInvariant, FinishTour
  PROVE  AccessInvariant'
<1>1. SessionsKept
  BY SessionsUnchanged DEF AccessInvariant, SessionsSafe, FinishTour
<1>2. TabSafe' /\ NavSafe'
  BY <1>1, TabKept, NavKept DEF AccessInvariant, FinishTour
<1>3. tour' \in TourRow /\ tour'.phase = "off"
  BY NoTourTyped DEF FinishTour, AccessInvariant, TourSafe, TourRow
<1>4. progress' \in [Role -> Nat] /\ \A r \in Role : progress'[r] \in {progress[r], 0}
  BY DEF FinishTour, AccessInvariant, TourSafe
<1>5. TourSafe'
  BY <1>3, <1>4
  DEF FinishTour, AccessInvariant, TourSafe, TourOnStops, RowsAreAwaited, TourLeavesWorkAlone,
      Touring
<1> QED BY <1>1, <1>2, <1>5 DEF AccessInvariant, SessionsKept

LEMMA TakeRowSafe ==
  ASSUME AccessInvariant, NEW found \in BOOLEAN, TakeRow(found)
  PROVE  AccessInvariant'
<1>1. Touring /\ Stop.detail # "none" /\ UNCHANGED <<roles, cookie, tab, work, progress, moves>>
  BY DEF TakeRow, AccessInvariant, TourSafe, RowsAreAwaited
<1>2. CASE found
  BY <1>1, <1>2, StopIsOpen, MoveToOrStaySafe DEF TakeRow
<1>3. CASE ~found
  <2>1. SessionsKept
    BY <1>1, SessionsUnchanged DEF AccessInvariant, SessionsSafe
  <2>2. TourSafe'
    BY <1>1, <1>3, <2>1, StageSafe DEF TakeRow
  <2> QED BY <1>1, <1>3, <2>1, <2>2, TabKept, NavKept DEF AccessInvariant, TakeRow, SessionsKept
<1> QED BY <1>2, <1>3

LEMMA SettleSafe ==
  ASSUME AccessInvariant, Settle
  PROVE  AccessInvariant'
<1>1. SessionsKept
  BY SessionsUnchanged DEF AccessInvariant, SessionsSafe, Settle
<1>2. TabSafe' /\ NavSafe'
  BY <1>1, TabKept, NavKept DEF AccessInvariant, Settle
<1>3. TourSafe'
  BY <1>1, StageSafe DEF Settle
<1> QED BY <1>1, <1>2, <1>3 DEF AccessInvariant, SessionsKept

-----------------------------------------------------------------------------
(* THEOREMS *)

LEMMA InitSafe == Init => AccessInvariant
<1> SUFFICES ASSUME Init PROVE AccessInvariant
  OBVIOUS
<1>1. roles \in Seq(Role) /\ Len(roles) \in Nat
  <2>1. <<>> \in Seq(Role) /\ \A r \in Role : <<r>> \in Seq(Role)
    OBVIOUS
  <2>2. roles = <<>> \/ \E r \in Role : roles = <<r>>
    BY AccessTablesAssumption DEF Init
  <2>3. roles \in Seq(Role)
    BY <2>1, <2>2
  <2> QED BY <2>3
<1>2. SessionsSafe
  BY <1>1 DEF Init, SessionsSafe
<1>3. TabSafe
  BY <1>1 DEF Init, TabSafe, TabRow, OpenPagesPermitted, Shell, Page, MenuEntry
<1>4. NavSafe
  <2>1. PICK p \in Page \cup {"root"} : nav = To(p, "address", 0)
    BY DEF Init
  <2>2. nav \in NavRow
    BY <2>1, ToTyped
  <2>3. nav.by = "address" /\ nav.offered = 0 /\ nav.seen = 0 /\ ~nav.guarded
    BY <2>1, ToIs
  <2> QED BY <1>1, <2>2, <2>3 DEF NavSafe, OffersPermitted, GuardsCurrent, DeadEndsOutdated
<1>5. TourSafe
  <2>1. tour \in TourRow /\ tour.phase = "off"
    BY NoTourTyped DEF Init
  <2> QED BY <2>1
      DEF Init, TourSafe, TourOnStops, RowsAreAwaited, TourLeavesWorkAlone, Touring
<1> QED BY <1>2, <1>3, <1>4, <1>5 DEF AccessInvariant

LEMMA NextSafe ==
  ASSUME AccessInvariant, [Next]_vars
  PROVE  AccessInvariant'
<1>1. CASE \E p \in Page : Follow(p)
  BY <1>1, FollowSafe
<1>2. CASE \E p \in Addresses : OpenAddress(p) \/ GoBack(p)
  BY <1>2, OpenAddressSafe, GoBackSafe
<1>3. CASE Guard \/ Commit
  BY <1>3, GuardSafe, ShowLoginSafe, RedirectSafe, ShowPageSafe DEF Commit
<1>4. CASE (\E r \in Cast : Login(r)) \/ (\E r \in Elsewhere : LoginElsewhere(r))
  BY <1>4, LoginSafe, LoginElsewhereSafe
<1>5. CASE FindSession \/ SwitchRole \/ SessionEnds
  BY <1>5, FindSessionSafe, SwitchRoleSafe, SessionEndsSafe
<1>6. CASE Edit \/ SendCommand \/ AnswerCommand
  BY <1>6, EditorSafe
<1>7. CASE \E i \in Position : BeginTour(i) \/ MoveTour(i)
  BY <1>7, BeginTourSafe, MoveTourSafe
<1>8. CASE TourStep
  BY <1>8, SettleSafe, OpenStopSafe, TakeRowSafe DEF TourStep
<1>9. CASE PauseTour \/ FinishTour
  BY <1>9, PauseTourSafe, FinishTourSafe
<1>10. CASE UNCHANGED vars
  <2>1. SessionsKept
    BY <1>10, SessionsUnchanged DEF AccessInvariant, SessionsSafe, vars
  <2> QED BY <1>10, <2>1, TabKept, NavKept, TourKept DEF AccessInvariant, SessionsKept, vars
<1> QED
  BY <1>1, <1>2, <1>3, <1>4, <1>5, <1>6, <1>7, <1>8, <1>9, <1>10 DEF Next

\* The invariant of a tab and the session it shares, however often both change.
THEOREM AccessInvariantHolds == Spec => []AccessInvariant
BY InitSafe, NextSafe, PTL DEF Spec

\* Every variable keeps its type, and no session is named that was never made.
THEOREM AccessTyped == Spec => []TypeOK
<1>1. AccessInvariant => TypeOK
  BY DEF AccessInvariant, SessionsSafe, TabSafe, NavSafe, TourSafe, TypeOK
<1> QED BY <1>1, AccessInvariantHolds, PTL

\* No page loads halfway: what a page on the screen reads, its session may read
\* (the guards of the routes against the permissions of the controllers).
THEOREM PagesAreReadable == Spec => []RenderedPagesReadable
<1>1. AccessInvariant => RenderedPagesReadable
  BY ShellIsOpen, OpenPagesAreRead DEF RenderedPagesReadable
<1> QED BY <1>1, AccessInvariantHolds, PTL

\* Nobody is led to "no permission" (menu, links, landing pages, login and tour
\* against the guards of the routes).
THEOREM NobodyIsLedAstray == Spec => []NoDeadEnd
<1>1. AccessInvariant => NoDeadEnd
  BY DEF AccessInvariant, TabSafe, NoDeadEnd
<1> QED BY <1>1, AccessInvariantHolds, PTL

\* The tour leaves neither a command under way nor, unasked, unsaved input behind.
THEOREM TourKeepsWork == Spec => []TourLeavesWorkAlone
<1>1. AccessInvariant => TourLeavesWorkAlone
  BY DEF AccessInvariant, TourSafe
<1> QED BY <1>1, AccessInvariantHolds, PTL
=============================================================================
