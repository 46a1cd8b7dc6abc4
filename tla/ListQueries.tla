------------------------------ MODULE ListQueries ------------------------------
(***************************************************************************)
(* The eight paged lists of the system, as a contract between two programs *)
(* that are written apart: for each list what the page of the web client   *)
(* offers (columns that sort, values of the filter bar, parameters of the  *)
(* search model) and what the service of the API accepts, selects and      *)
(* orders.  The counters of the dashboard are here too: they count rows    *)
(* that a list also counts.                                                *)
(*                                                                         *)
(* A text to search for is one of four lengths, a date one of the classes  *)
(* the code compares it with; every other column is a rank.                *)
(***************************************************************************)
EXTENDS Integers, Sequences, FiniteSets, SequencesExt

CONSTANT MaxPageSize   \* MAX_PAGE_SIZE of the services, scaled down

ASSUME MaxPageSizeAssumption == MaxPageSize \in Nat \ {0}

ListName == {"workOrders", "lots", "queue", "inspections", "incidents", "boms", "trace", "audit"}

All == "all"             \* a filter that is not set
Unsorted == "unsorted"   \* no sort in the URL

\* up to 24 characters, up to 40, more
Texts == {"none", "word", "phrase", "sentence"}
Orders == {"asc", "desc"}

-----------------------------------------------------------------------------
(* WHAT THE SERVICES ACCEPT: parseQuery of each service and its contract.  *)

WorkOrdersQuery ==
    [texts |-> Texts, sort |-> "dueDate", order |-> "asc",
     sorts |-> {"dueDate", "orderNumber", "progressPercent", "plannedQuantity"},
     values |-> [status   |-> {"DRAFT", "RELEASED", "IN_PROGRESS", "COMPLETED", "CANCELLED"},
                 priority |-> {"LOW", "NORMAL", "HIGH", "URGENT"},
                 due      |-> {"overdue", "today", "7d"},
                 blocked  |-> {"true", "false"}]]

LotsQuery ==
    [texts |-> Texts, sort |-> "receivedAt", order |-> "desc",
     sorts |-> {"lotNumber", "expiresAt", "receivedAt", "onHand"},
     values |-> [disposition  |-> {"PENDING", "ACCEPTED", "HOLD", "QUARANTINED", "REJECTED"},
                 availability |-> {"available", "shortage", "expired"}]]

QueueQuery ==
    [texts |-> Texts, sort |-> "orderNumber", order |-> "asc",
     sorts |-> {"orderNumber", "sequence", "productionLotNumber"},
     values |-> [readiness |-> {"ready", "in-progress", "blocked", "completed"}]]

InspectionsQuery ==
    [texts |-> Texts, sort |-> "createdAt", order |-> "asc",
     sorts |-> {"inspectionNumber", "createdAt", "completedAt"},
     values |-> [executionStatus |-> {"PENDING", "IN_PROGRESS", "COMPLETED", "CANCELLED"},
                 verdict         |-> {"PASS", "FAIL", "HOLD"},
                 gate            |-> {"ROUTE_ADVANCE", "LOT_COMPLETE"}]]

IncidentsWithoutContained ==                                            \* mutant
    [texts |-> Texts, sort |-> "detectedAt", order |-> "desc",
     sorts |-> {"detectedAt", "incidentNumber"},
     values |-> [status     |-> {"OPEN", "ASSESSED", "CLOSED"},
                 sourceType |-> {"MATERIAL_LOT", "PRODUCTION_LOT", "FINISHED_UNIT"}]]
IncidentsQuery ==
    [texts |-> Texts, sort |-> "detectedAt", order |-> "desc",
     sorts |-> {"detectedAt", "incidentNumber"},
     values |-> [status     |-> {"OPEN", "ASSESSED", "CONTAINED", "CLOSED"},
                 sourceType |-> {"MATERIAL_LOT", "PRODUCTION_LOT", "FINISHED_UNIT"}]]

BomsQuery ==
    [texts |-> Texts \ {"sentence"}, sort |-> "createdAt", order |-> "desc",
     sorts |-> {"revisionNumber", "productName", "createdAt", "itemCount"},
     values |-> [lifecycle |-> {"DRAFT", "PUBLISHED", "INACTIVE"}]]

TraceQuery ==
    [texts |-> {"none", "word"}, sort |-> "label", order |-> "asc",
     sorts |-> {"label", "createdAt", "upstreamCount", "downstreamCount"},
     values |-> [nodeType |-> {"MATERIAL_LOT", "PRODUCTION_LOT", "FINISHED_UNIT"}]]

Roles == {"PRODUCTION_PLANNER", "MATERIAL_MANAGER", "SHOP_FLOOR_OPERATOR",
          "QUALITY_ENGINEER", "SYSTEM_ADMIN"}

\* AUDIT_ACTIONS of the audit contract.
ContractActions ==
    {"SESSION_LOGIN", "SESSION_LOGOUT", "USER_ACCESS_CHANGED", "WORK_ORDER_CREATED",
     "WORK_ORDER_RELEASED", "WORK_ORDER_CANCELLED", "MATERIAL_RESERVED",
     "MATERIAL_LOT_DISPOSITION_DECIDED", "INSPECTION_VERDICTED", "QUALITY_INCIDENT_REGISTERED"}

\* The actions the schema has and the program records, but the contract lacks.
UnlistedActions == {"MATERIAL_RESERVATION_RELEASED", "PROCESS_STARTED", "PROCESS_COMPLETED"}

AuditQuery ==
    [texts |-> Texts, sort |-> "occurredAt", order |-> "desc",
     sorts |-> {"occurredAt", "entityId"},
     values |-> [actorRole |-> Roles, action |-> ContractActions]]

Endpoint ==
    [workOrders |-> WorkOrdersQuery, lots |-> LotsQuery, queue |-> QueueQuery,
     inspections |-> InspectionsQuery, incidents |-> IncidentsQuery, boms |-> BomsQuery,
     trace |-> TraceQuery, audit |-> AuditQuery]

Axes(l) == DOMAIN Endpoint[l].values

Accepts(l, q) ==
    /\ q.text \in Endpoint[l].texts
    /\ q.sort \in Endpoint[l].sorts \cup {Unsorted}
    /\ q.order \in Orders
    /\ q.page >= 1
    /\ q.size \in 1..MaxPageSize
    /\ \A a \in Axes(l) : q.axes[a] \in Endpoint[l].values[a] \cup {All}

-----------------------------------------------------------------------------
(* WHAT THE SERVICES SELECT: buildWhere of each service.                   *)

\* A value matches when the column contains it; only short texts are names.
Named(row, q) == q.text = "none" \/ (q.text = "word" /\ row.named)
Chosen(row, q, axis) == q.axes[axis] \in {All, row[axis]}

\* An order is late until it is completed or cancelled, unless a status is asked for.
WorkOrderMatches(row, q) ==
    /\ Named(row, q)
    /\ Chosen(row, q, "status")
    /\ Chosen(row, q, "priority")
    /\ q.axes.blocked \in {All, IF row.blocked THEN "true" ELSE "false"}
    /\ CASE q.axes.due = "overdue" ->
                row.due = "past" /\ (q.axes.status = All => row.status \notin {"COMPLETED", "CANCELLED"})
         [] q.axes.due = "today"   -> row.due = "today"
         [] q.axes.due = "7d"      -> row.due \in {"today", "week"}
         [] OTHER                  -> TRUE

\* computeAvailableQuantity: nothing of a lot that is not accepted or has expired.
Available(row) ==
    IF row.disposition = "ACCEPTED" /\ row.expires \notin {"past", "now"} THEN row.free ELSE 0

LotMatches(row, q) ==
    /\ Named(row, q)
    /\ Chosen(row, q, "disposition")
    /\ CASE q.axes.availability = "available" -> Available(row) > 0
         [] q.axes.availability = "shortage"  ->
                row.disposition = "ACCEPTED" /\ row.expires \notin {"past", "now"} /\ Available(row) = 0
         [] q.axes.availability = "expired"   -> row.expires = "past"
         [] OTHER                             -> TRUE

ReadinessOfFilter ==
    [ready |-> "READY", blocked |-> "BLOCKED", completed |-> "COMPLETED"]
QueueMatches(row, q) ==
    /\ Named(row, q)
    /\ CASE q.axes.readiness = All           -> TRUE
         [] q.axes.readiness = "in-progress" -> row.readiness = "IN_PROGRESS"
         [] OTHER                            -> row.readiness = ReadinessOfFilter[q.axes.readiness]

InspectionMatches(row, q) ==
    Named(row, q) /\ \A a \in {"executionStatus", "verdict", "gate"} : Chosen(row, q, a)

IncidentMatches(row, q) ==
    Named(row, q) /\ \A a \in {"status", "sourceType"} : Chosen(row, q, a)

BomMatches(row, q) == Named(row, q) /\ Chosen(row, q, "lifecycle")

TraceMatches(row, q) == Named(row, q) /\ Chosen(row, q, "nodeType")

AuditMatches(row, q) ==
    Named(row, q) /\ \A a \in {"actorRole", "action"} : Chosen(row, q, a)

Matches(l, row, q) ==
    CASE l = "workOrders"  -> WorkOrderMatches(row, q)
      [] l = "lots"        -> LotMatches(row, q)
      [] l = "queue"       -> QueueMatches(row, q)
      [] l = "inspections" -> InspectionMatches(row, q)
      [] l = "incidents"   -> IncidentMatches(row, q)
      [] l = "boms"        -> BomMatches(row, q)
      [] l = "trace"       -> TraceMatches(row, q)
      [] l = "audit"       -> AuditMatches(row, q)

Selected(l, rows, q) == {row \in rows : Matches(l, row, q)}

-----------------------------------------------------------------------------
(* HOW THE SERVICES ORDER AND CUT: orderBy, skip and take.                 *)

\* The columns that are unique by themselves; another one is followed by a
\* unique one, except in the list of audit events.
Identity == {"orderNumber", "lotNumber", "inspectionNumber", "incidentNumber", "revisionNumber"}
RankOnly == {"workOrders", "lots"}                                      \* mutant
TieBroken == ListName \ {"audit"}

SortOf(l, q)  == IF q.sort = Unsorted THEN Endpoint[l].sort ELSE q.sort
OrderOf(l, q) == IF q.sort = Unsorted THEN Endpoint[l].order ELSE q.order

Precedes(l, q, a, b) ==
    LET ascending == OrderOf(l, q) = "asc"
        ranked(x, y) == IF ascending THEN x.rank < y.rank ELSE y.rank < x.rank
    IN  IF SortOf(l, q) \in Identity /\ l # "queue"
        THEN IF ascending THEN a.id < b.id ELSE b.id < a.id
        ELSE ranked(a, b) \/ (a.rank = b.rank /\ l \in TieBroken /\ a.id < b.id)

\* The orders in which the database may deliver the rows a query selects.
Listings(l, rows, q) ==
    {s \in SetToSeqs(Selected(l, rows, q)) :
        \A i, j \in DOMAIN s : Precedes(l, q, s[i], s[j]) => i < j}

PageOf(s, q) ==
    LET skipped == (q.page - 1) * q.size
        last == IF skipped + q.size <= Len(s) THEN skipped + q.size ELSE Len(s)
    IN  SubSeq(s, skipped + 1, last)

\* The lots that are available or short are chosen in memory, from one read;
\* the other lists read the rows and count them in two statements.
OneRead(l, q) == l = "lots" /\ q.axes.availability \in {"available", "shortage"}
\* boms and trace start both statements at the same time.
EitherFirst(l) == l \in {"boms", "trace"}

-----------------------------------------------------------------------------
(* WHAT THE PAGES OFFER: sort keys of the columns, options of the filter   *)
(* bar, and the parameters the search model sends.                         *)

WorkOrdersColumns  == {"orderNumber", "plannedQuantity", "dueDate", "progressPercent"}
LotsColumns        == {"lotNumber", "onHand", "expiresAt"}
QueueColumns       == {"orderNumber", "productionLotNumber", "sequence"}
InspectionsColumns == {"inspectionNumber"}
IncidentsColumns   == {"incidentNumber", "detectedAt"}
BomsColumns        == {"revisionNumber", "productName", "itemCount"}
TraceColumns       == {"label", "upstreamCount", "downstreamCount"}
AuditColumns       == {"occurredAt", "entityId"}

Columns ==
    [workOrders |-> WorkOrdersColumns, lots |-> LotsColumns, queue |-> QueueColumns,
     inspections |-> InspectionsColumns, incidents |-> IncidentsColumns, boms |-> BomsColumns,
     trace |-> TraceColumns, audit |-> AuditColumns]

WorkOrdersFilters ==
    [status   |-> {"DRAFT", "RELEASED", "IN_PROGRESS", "COMPLETED", "CANCELLED"},
     priority |-> {"LOW", "NORMAL", "HIGH", "URGENT"},
     due      |-> {"overdue", "today", "7d"},
     blocked  |-> {"true", "false"}]
LotsFilters ==
    [disposition  |-> {"PENDING", "ACCEPTED", "HOLD", "QUARANTINED", "REJECTED"},
     availability |-> {"available", "shortage", "expired"}]
QueueFilters == [readiness |-> {"ready", "in-progress", "blocked", "completed"}]
InspectionsFilters ==
    [executionStatus |-> {"PENDING", "IN_PROGRESS", "COMPLETED", "CANCELLED"},
     verdict         |-> {"PASS", "FAIL", "HOLD"},
     gate            |-> {"ROUTE_ADVANCE", "LOT_COMPLETE"}]
IncidentsFilters ==
    [status     |-> {"OPEN", "ASSESSED", "CONTAINED", "CLOSED"},
     sourceType |-> {"MATERIAL_LOT", "PRODUCTION_LOT", "FINISHED_UNIT"}]
BomsFilters == [lifecycle |-> {"DRAFT", "PUBLISHED", "INACTIVE"}]
TraceFilters == [nodeType |-> {"MATERIAL_LOT", "PRODUCTION_LOT", "FINISHED_UNIT"}]
\* The bar offers every label, those of the actions the contract lacks too.
AuditFilters == [actorRole |-> Roles, action |-> ContractActions \cup UnlistedActions]

Offered ==
    [workOrders |-> WorkOrdersFilters, lots |-> LotsFilters, queue |-> QueueFilters,
     inspections |-> InspectionsFilters, incidents |-> IncidentsFilters, boms |-> BomsFilters,
     trace |-> TraceFilters, audit |-> AuditFilters]

\* The parameters a search model reads from the URL and sends.
WorkOrdersSearch ==
    [sorts |-> {"dueDate", "orderNumber", "progressPercent", "plannedQuantity"},
     axes |-> {"status", "priority", "due", "blocked"}]
LotsSearchWithoutAvailability ==                                        \* mutant
    [sorts |-> {"lotNumber", "expiresAt", "receivedAt", "onHand"}, axes |-> {"disposition"}]
LotsSearch ==
    [sorts |-> {"lotNumber", "expiresAt", "receivedAt", "onHand"},
     axes |-> {"disposition", "availability"}]
QueueSearch ==
    [sorts |-> {"orderNumber", "sequence", "productionLotNumber"}, axes |-> {"readiness"}]
InspectionsSearch ==
    [sorts |-> {"inspectionNumber", "createdAt", "completedAt"},
     axes |-> {"executionStatus", "verdict", "gate"}]
IncidentsSearch ==
    [sorts |-> {"detectedAt", "incidentNumber"}, axes |-> {"status", "sourceType"}]
BomsSearch ==
    [sorts |-> {"revisionNumber", "productName", "createdAt", "itemCount"}, axes |-> {"lifecycle"}]
TraceSearch ==
    [sorts |-> {"label", "createdAt", "upstreamCount", "downstreamCount"}, axes |-> {"nodeType"}]
AuditSearch ==
    [sorts |-> {"occurredAt", "entityId"}, axes |-> {"actorRole", "action"}]

Search ==
    [workOrders |-> WorkOrdersSearch, lots |-> LotsSearch, queue |-> QueueSearch,
     inspections |-> InspectionsSearch, incidents |-> IncidentsSearch, boms |-> BomsSearch,
     trace |-> TraceSearch, audit |-> AuditSearch]

\* toParams: the page is sent when it is not the first, the size always.
Sent(l, q) ==
    [q EXCEPT !.axes = [a \in Axes(l) |-> IF a \in Search[l].axes THEN q.axes[a] ELSE All],
              !.sort = IF q.sort \in Search[l].sorts THEN q.sort ELSE Unsorted,
              !.page = IF q.page > 1 THEN q.page ELSE 1]

-----------------------------------------------------------------------------
(* THE DASHBOARD: counters of rows that a list also counts.                *)

PastDue(orders) == {o \in orders : o.status # "COMPLETED" /\ o.due = "past"}  \* mutant
CountedOverdue(orders) ==
    {o \in orders : o.status \notin {"COMPLETED", "CANCELLED"} /\ o.due = "past"}
CountedBlocked(orders) == {o \in orders : o.blocked}
CountedInState(orders, status) == {o \in orders : o.status = status}

CountedPending(checks, status) == {c \in checks : c.executionStatus = status}
CountedVerdict(checks, verdict) == {c \in checks : c.verdict = verdict}

CountedQuarantined(lots) == {t \in lots : t.disposition = "QUARANTINED"}
CountedShort(lots) ==
    {t \in lots : t.disposition = "ACCEPTED" /\ t.expires \notin {"past", "now"} /\ t.free = 0}
CountedExpired(lots) == {t \in lots : t.expires \in {"past", "now"}}

\* A query with one filter, as the counter is described on the dashboard.
With(l, axis, value) ==
    [text |-> "none", axes |-> [a \in Axes(l) |-> IF a = axis THEN value ELSE All],
     sort |-> Unsorted, order |-> "asc", page |-> 1, size |-> MaxPageSize]

\* Each counter with the list that shows what it counts.
WorkOrderCounters(rows) ==
    {<<CountedOverdue(rows), With("workOrders", "due", "overdue")>>,
     <<CountedBlocked(rows), With("workOrders", "blocked", "true")>>}
    \cup {<<CountedInState(rows, s), With("workOrders", "status", s)>> :
              s \in Endpoint.workOrders.values.status}
InspectionCounters(rows) ==
    {<<CountedPending(rows, s), With("inspections", "executionStatus", s)>> :
         s \in {"PENDING", "IN_PROGRESS"}}
    \cup {<<CountedVerdict(rows, v), With("inspections", "verdict", v)>> : v \in {"FAIL", "HOLD"}}
LotCounters(rows) ==
    {<<CountedQuarantined(rows), With("lots", "disposition", "QUARANTINED")>>,
     <<CountedShort(rows), With("lots", "availability", "shortage")>>,
     <<CountedExpired(rows), With("lots", "availability", "expired")>>}
Counters(l, rows) ==
    CASE l = "workOrders"  -> WorkOrderCounters(rows)
      [] l = "inspections" -> InspectionCounters(rows)
      [] l = "lots"        -> LotCounters(rows)
      [] OTHER             -> {}
=============================================================================
