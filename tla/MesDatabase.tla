----------------------------- MODULE MesDatabase -----------------------------
(***************************************************************************)
(* The PostgreSQL tables the manufacturing commands read and write         *)
(* (apps/api/prisma/schema.prisma), the state they are seeded with, and    *)
(* the queries several commands share.                                     *)
(*                                                                         *)
(* A command that runs in productionTransaction is SERIALIZABLE and is one *)
(* action of the modules that extend this one; a command that throws rolls *)
(* back and is no action at all.  The two quality commands run in READ     *)
(* COMMITTED transactions and take one action per statement, so their      *)
(* progress is state too (the variable session).                           *)
(***************************************************************************)
EXTENDS ProductionFlow

CONSTANTS
    Order, Lot, Material,
    Allocation,      \* identifiers of MaterialAllocation rows: bounds how many are made
    Inspector,       \* concurrent requests of quality engineers
    NoOrder, NoLot,  \* SQL NULL references
    Planned,         \* Planned[o]: plannedQuantity
    RouteLength,     \* RouteLength[o]: steps of the route of o's product
    Producible,      \* orders of a product with a route, whose BOM is published
    DueSoon,         \* drafts whose due date may pass; bounds how far the calendar runs
    Required,        \* Required[o][m]: demand of the published BOM, rounded up to pieces
    SpecsOf,         \* SpecsOf[o]: published specifications of o's product
    MaterialOf,      \* MaterialOf[l]: the material of lot l
    Received,        \* Received[l]: receivedQuantity
    InitialDisposition,  \* InitialDisposition[l]: dispositions l may be seeded with
    Perishable,      \* lots with an expiresAt
    MaxIncidents,    \* bound on the registered quality incidents
    Imported,        \* orders seeded in mid-production, without requirements
    SeedReservation  \* SeedReservation[o]: an allocation an imported order holds

VARIABLES
    order,        \* WorkOrder
    step,         \* ProcessStepExecution, by order and position on the route
    inspection,   \* Inspection, by order and specification
    decisions,    \* InspectionDecision, by order and specification
    lot,          \* MaterialLot
    alloc,        \* MaterialAllocation
    consumed,     \* LotRelation CONSUME: quantity of lot l built into the lot of order o
    incidents,    \* the numbers of the QualityIncident rows
    session,      \* the open READ COMMITTED transaction of each inspector
    overdue       \* the calendar: drafts whose due date lies before today

productionVars == <<order, step, consumed>>
inspectionVars == <<inspection, decisions>>
inventoryVars == <<lot, alloc>>
qualityVars == <<incidents, session>>
vars == <<order, step, inspection, decisions, lot, alloc, consumed, incidents, session, overdue>>

-----------------------------------------------------------------------------

Disposition == {"PENDING", "ACCEPTED", "HOLD", "QUARANTINED", "REJECTED"}

LotRow == [disposition : Disposition, onHand : Int, reserved : Int,
           consumed : Int, scrapped : Int, expired : BOOLEAN]

AllocationRow ==
    [status : {"FREE", "ACTIVE", "CLOSED"}, order : Order \cup {NoOrder},
     lot : Lot \cup {NoLot}, quantity : Nat,
     reason : {"NONE", "RELEASED", "FULFILLED", "CANCELLED"}]

DecisionRow == [sequence : Nat, phase : {"INITIAL", "HOLD_REVIEW", "LEGACY"},
                verdict : {"PASS", "FAIL", "HOLD"}]

SessionRow ==
    [pc : {"idle", "counting", "deciding", "quarantining", "numbering", "inserting"},
     lot : Lot \cup {NoLot}, target : Disposition \cup {"NONE"},
     seenOnHand : Int, holdsLock : BOOLEAN, counted : Nat]

FreeRow == [status |-> "FREE", order |-> NoOrder, lot |-> NoLot, quantity |-> 0,
            reason |-> "NONE"]

IdleSession == [pc |-> "idle", lot |-> NoLot, target |-> "NONE", seenOnHand |-> 0,
                holdsLock |-> FALSE, counted |-> 0]

ASSUME DatabaseAssumption ==
    /\ NoOrder \notin Order /\ NoLot \notin Lot
    /\ IsFiniteSet(Allocation)
    /\ Planned \in [Order -> Nat \ {0}]
    /\ RouteLength \in [Order -> Nat \ {0}]
    /\ Producible \subseteq Order /\ DueSoon \subseteq Order
    /\ Required \in [Order -> [Material -> Nat]]
    /\ SpecsOf \in [Order -> SUBSET InspectionSpec]
    /\ MaterialOf \in [Lot -> Material]
    /\ Received \in [Lot -> Nat]
    /\ InitialDisposition \in [Lot -> SUBSET Disposition]
    /\ Perishable \subseteq Lot
    /\ MaxIncidents \in Nat
    /\ Imported \subseteq Order
    /\ \A o \in Imported : RouteLength[o] = 2 /\ \A m \in Material : Required[o][m] = 0
    /\ \A o \in Imported : \E s \in SpecsOf[o] : Gate[s] = "ROUTE_ADVANCE" /\ StepOf[s] = 1
    /\ SeedReservation \in
         [Imported -> [id : Allocation, lot : Lot, quantity : Nat \ {0}]]
    /\ \A o, p \in Imported : SeedReservation[o].id = SeedReservation[p].id => o = p
    /\ \A l \in Lot :
         LET held == {o \in Imported : SeedReservation[o].lot = l} IN
         held # {} =>
           /\ InitialDisposition[l] = {"ACCEPTED"}
           /\ Received[l] >= Cardinality(UNION {{o} \X (1..SeedReservation[o].quantity) : o \in held})

-----------------------------------------------------------------------------

(***************************************************************************)
(* Reservations.  Demo inventory is counted in indivisible pieces, so the  *)
(* sum of a set of allocations is the number of pieces they hold.          *)
(***************************************************************************)
Pieces(A) == UNION {{a} \X (1..alloc[a].quantity) : a \in A}
Total(A) == Cardinality(Pieces(A))

Active == {a \in Allocation : alloc[a].status = "ACTIVE"}
HeldBy(o) == {a \in Active : alloc[a].order = o}
ReservedOn(l) == {a \in Active : alloc[a].lot = l}

\* ACCEPTED and not expired: the stock of the lot may be promised and consumed.
Usable(l) == lot[l].disposition = "ACCEPTED" /\ ~lot[l].expired

RequiresMaterial(o) == \E m \in Material : Required[o][m] > 0

HeldOfMaterial(o, m) == {a \in HeldBy(o) : MaterialOf[alloc[a].lot] = m}

\* The reservations of o cover its requirements (the `enough` of the code).
EnoughForAny(o) ==                                                    \* mutant
    \E m \in Material : Required[o][m] > 0 /\ Total(HeldOfMaterial(o, m)) >= Required[o][m]

EnoughMaterial(o) ==
    \A m \in Material :
        Total({a \in HeldOfMaterial(o, m) : Usable(alloc[a].lot)}) >= Required[o][m]

(***************************************************************************)
(* A row an open quality transaction has updated is locked until it ends.  *)
(* A SERIALIZABLE command that writes such a row fails when the lock is    *)
(* released (P2034), so it takes effect only on unlocked rows.             *)
(***************************************************************************)
Locked(l) == \E q \in Inspector : session[q].holdsLock /\ session[q].lot = l

(***************************************************************************)
(* The order and step rows of o after refreshProductionFlow on `rows` and  *)
(* `checks`; drafts and cancelled orders have no flow to refresh.          *)
(***************************************************************************)
FlowProjected(o, rows, checks) ==
    LET live == order[o].status \notin {"DRAFT", "CANCELLED"}
        next == IF live THEN FlowRefreshed(rows, checks, Planned[o]) ELSE rows
    IN
    /\ step' = [step EXCEPT ![o] = next]
    /\ order' = [order EXCEPT ![o] = IF live THEN OrderRefreshed(next, checks) ELSE @]

\* refreshMaterialReadiness followed by refreshProductionFlow.
MaterialAndFlowProjected(o, checks, enough) ==
    FlowProjected(o, MaterialRefreshed(step[o], RequiresMaterial(o), enough), checks)

-----------------------------------------------------------------------------

(***************************************************************************)
(* The seeded database.  New orders are drafts.  An imported order has the *)
(* shape of WO-2026-098: its first recorded step runs, the next is blocked *)
(* by a held inspection whose decision predates the decision table, and it *)
(* holds a reservation although it is in progress.  The due dates of the   *)
(* drafts are counted from the day of seeding and lie ahead.               *)
(***************************************************************************)
Route(o) == 1..RouteLength[o]

SeedStep(o, i) ==
    IF o \notin Imported THEN NoStep
    ELSE IF i = 1 THEN [NoStep EXCEPT !.readiness = "IN_PROGRESS"]
    ELSE [NoStep EXCEPT !.readiness = "BLOCKED", !.reasons = {"INSPECTION_HELD"}]

SeedCheck(o, s) ==
    IF o \notin Imported \/ s \notin SpecsOf[o] THEN NoCheck
    ELSE IF Gate[s] = "ROUTE_ADVANCE" /\ StepOf[s] = 1
         THEN [execution |-> "COMPLETED", verdict |-> "HOLD"]
    ELSE [execution |-> "PENDING", verdict |-> "NONE"]

SeedAllocation(a) ==
    IF \E o \in Imported : SeedReservation[o].id = a
    THEN LET o == CHOOSE o \in Imported : SeedReservation[o].id = a IN
         [FreeRow EXCEPT !.status = "ACTIVE", !.order = o,
                         !.lot = SeedReservation[o].lot,
                         !.quantity = SeedReservation[o].quantity]
    ELSE FreeRow

SeedLot(l, d) ==
    [disposition |-> d,
     onHand |-> IF d = "REJECTED" THEN 0 ELSE Received[l],
     reserved |-> Total(ReservedOn(l)), consumed |-> 0,
     scrapped |-> IF d = "REJECTED" THEN Received[l] ELSE 0,
     expired |-> FALSE]

Init ==
    /\ order = [o \in Order |->
         IF o \in Imported
         THEN [status |-> "IN_PROGRESS", currentStep |-> 1,
               blocked |-> [step |-> 2, codes |-> {"INSPECTION_HELD"}]]
         ELSE [status |-> "DRAFT", currentStep |-> 0, blocked |-> NotBlocked]]
    /\ step = [o \in Order |-> [i \in Route(o) |-> SeedStep(o, i)]]
    /\ inspection = [o \in Order |-> [s \in InspectionSpec |-> SeedCheck(o, s)]]
    /\ decisions = [o \in Order |-> [s \in InspectionSpec |-> {}]]
    /\ alloc = [a \in Allocation |-> SeedAllocation(a)]
    /\ \E d \in [Lot -> Disposition] :
         /\ \A l \in Lot : d[l] \in InitialDisposition[l]
         /\ lot = [l \in Lot |-> SeedLot(l, d[l])]
    /\ consumed = [o \in Order |-> [l \in Lot |-> 0]]
    /\ incidents = {}
    /\ session = [q \in Inspector |-> IdleSession]
    /\ overdue = {}

TypeOK ==
    /\ order \in [Order -> OrderRow]
    /\ \A o \in Order : step[o] \in [Route(o) -> StepRow]
    /\ DOMAIN step = Order
    /\ inspection \in [Order -> [InspectionSpec -> CheckRow]]
    /\ decisions \in [Order -> [InspectionSpec -> SUBSET DecisionRow]]
    /\ lot \in [Lot -> LotRow]
    /\ alloc \in [Allocation -> AllocationRow]
    /\ \A a \in Active : alloc[a].order \in Order /\ alloc[a].lot \in Lot
    /\ consumed \in [Order -> [Lot -> Nat]]
    /\ incidents \subseteq Nat /\ IsFiniteSet(incidents)
    /\ session \in [Inspector -> SessionRow]
    /\ \A q \in Inspector :
         session[q].pc \in {"counting", "deciding"} => session[q].target \in Disposition
    /\ overdue \subseteq DueSoon
=============================================================================
