---------------------------- MODULE MCListBrowsing ----------------------------
(***************************************************************************)
(* Every list with three rows and a version that another user may write,   *)
(* opened from the menu with one row on a page, then any condition edited. *)
(***************************************************************************)
EXTENDS ListBrowsing

Row(i, rank, named, columns) ==
    [f \in {"id", "rank", "named"} \cup DOMAIN columns |->
        CASE f = "id" -> i [] f = "rank" -> rank [] f = "named" -> named [] OTHER -> columns[f]]

Order(status, priority, due, blocked) ==
    [status |-> status, priority |-> priority, due |-> due, blocked |-> blocked]
Lot(disposition, expires, free) == [disposition |-> disposition, expires |-> expires, free |-> free]
Check(status, verdict, gate) == [executionStatus |-> status, verdict |-> verdict, gate |-> gate]
Incident(status, source) == [status |-> status, sourceType |-> source]
Event(role, action) == [actorRole |-> role, action |-> action]

\* The last entry of each list is what another user makes of its second row.
MCRows ==
    [workOrders  |-> <<Order("RELEASED", "NORMAL", "past", FALSE), Order("IN_PROGRESS", "HIGH", "past", TRUE),
                       Order("DRAFT", "LOW", "week", FALSE), Order("CANCELLED", "HIGH", "past", FALSE)>>,
     lots        |-> <<Lot("ACCEPTED", "later", 0), Lot("ACCEPTED", "never", 5),
                       Lot("PENDING", "past", 5), Lot("QUARANTINED", "now", 0)>>,
     queue       |-> <<[readiness |-> "COMPLETED"], [readiness |-> "READY"],
                       [readiness |-> "WAITING"], [readiness |-> "IN_PROGRESS"]>>,
     inspections |-> <<Check("COMPLETED", "FAIL", "ROUTE_ADVANCE"), Check("PENDING", "none", "LOT_COMPLETE"),
                       Check("IN_PROGRESS", "none", "ROUTE_ADVANCE"), Check("COMPLETED", "HOLD", "LOT_COMPLETE")>>,
     incidents   |-> <<Incident("OPEN", "MATERIAL_LOT"), Incident("CONTAINED", "FINISHED_UNIT"),
                       Incident("OPEN", "PRODUCTION_LOT"), Incident("CLOSED", "FINISHED_UNIT")>>,
     boms        |-> <<[lifecycle |-> "PUBLISHED"], [lifecycle |-> "DRAFT"],
                       [lifecycle |-> "PUBLISHED"], [lifecycle |-> "INACTIVE"]>>,
     trace       |-> <<[nodeType |-> "MATERIAL_LOT"], [nodeType |-> "PRODUCTION_LOT"],
                       [nodeType |-> "FINISHED_UNIT"], [nodeType |-> "PRODUCTION_LOT"]>>,
     audit       |-> <<Event("SYSTEM_ADMIN", "SESSION_LOGIN"), Event("SHOP_FLOOR_OPERATOR", "PROCESS_STARTED"),
                       Event("QUALITY_ENGINEER", "INSPECTION_VERDICTED"),
                       Event("MATERIAL_MANAGER", "MATERIAL_RESERVED")>>]

\* Two rows share a rank, so that an order needs its tie-break.
MCOpening ==
    [l \in ListName |-> {Row(1, 1, TRUE, MCRows[l][1]), Row(2, 1, TRUE, MCRows[l][2]),
                         Row(3, 2, FALSE, MCRows[l][3])}]
MCPool == [l \in ListName |-> {Row(2, 2, TRUE, MCRows[l][4])}]

\* The page as the menu opens it, one row on a page.
Plain(l) == [With(l, "", All) EXCEPT !.page = 0, !.size = 1]
MCLinked == [l \in ListName |-> {Plain(l)}]
=============================================================================
