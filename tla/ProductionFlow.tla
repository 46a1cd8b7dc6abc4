--------------------------- MODULE ProductionFlow ---------------------------
(***************************************************************************)
(* The derived state of one production lot: what the server recomputes     *)
(* from the process steps, the inspections and the reservations of a work  *)
(* order (apps/api/src/process-executions/production-flow.ts).  Pure       *)
(* operators over the rows of ONE order:                                   *)
(*                                                                         *)
(*   rows    the ProcessStepExecution rows in sequence order,              *)
(*           a function from 1..n to StepRow;                              *)
(*   checks  the Inspection rows, one per specification,                   *)
(*           a function from InspectionSpec to CheckRow.                   *)
(*                                                                         *)
(* An order has one unsplit production lot, so the filters of the code on  *)
(* productionLotNumber select all rows of the order.                       *)
(***************************************************************************)
EXTENDS Integers, FiniteSets

CONSTANTS
    InspectionSpec,      \* published inspection specifications
    Gate,      \* Gate[s]: "ROUTE_ADVANCE" or "LOT_COMPLETE"
    StepOf     \* StepOf[s]: position on the route of the step that s checks

Null == -1     \* an SQL NULL in a quantity column

Readiness == {"ABSENT", "WAITING", "READY", "BLOCKED", "IN_PROGRESS", "COMPLETED"}
Started == {"IN_PROGRESS", "COMPLETED"}

MaterialReasons == {"MATERIAL_SHORTAGE", "MATERIAL_EXPIRED", "MATERIAL_QUARANTINED"}
FlowReasons == {"INSPECTION_PENDING", "INSPECTION_FAILED", "INSPECTION_HELD",
                "NO_GOOD_OUTPUT", "PREDECESSOR_QUANTITY_MISSING",
                "PREREQUISITE_INCOMPLETE"}
ReasonCode == MaterialReasons \cup FlowReasons

Quantity == Nat \cup {Null}

StepRow == [readiness : Readiness, reasons : SUBSET ReasonCode,
            good : Quantity, defect : Quantity]

\* No row exists: the order was not released yet.
NoStep == [readiness |-> "ABSENT", reasons |-> {}, good |-> Null, defect |-> Null]

CheckRow == [execution : {"ABSENT", "PENDING", "IN_PROGRESS", "COMPLETED", "CANCELLED"},
             verdict : {"NONE", "PASS", "FAIL", "HOLD"}]

NoCheck == [execution |-> "ABSENT", verdict |-> "NONE"]

ASSUME FlowAssumption ==
    /\ Gate \in [InspectionSpec -> {"ROUTE_ADVANCE", "LOT_COMPLETE"}]
    /\ StepOf \in [InspectionSpec -> Nat]

-----------------------------------------------------------------------------

PriorComplete(rows, i) == \A j \in 1..(i-1) : rows[j].readiness = "COMPLETED"

(***************************************************************************)
(* outputQuantityLimit: how many pieces step i takes in.  The planned      *)
(* quantity for the first step, then the good output of the predecessor;   *)
(* Null while that output is not known.                                    *)
(***************************************************************************)
OutputQuantityLimit(rows, i, planned) ==
    IF i = 1 THEN planned
    ELSE LET previous == rows[i-1] IN
         IF previous.readiness # "COMPLETED" \/ previous.good = Null THEN Null
         ELSE IF previous.good < planned THEN previous.good ELSE planned

(***************************************************************************)
(* inspectionReasons: the blocking codes of a set of inspections.          *)
(***************************************************************************)
HoldPasses(check) ==                                                  \* mutant
    IF check.execution \in {"ABSENT", "CANCELLED"} THEN "NO_REASON"
    ELSE IF check.execution # "COMPLETED" THEN "INSPECTION_PENDING"
    ELSE IF check.verdict = "FAIL" THEN "INSPECTION_FAILED"
    ELSE "NO_REASON"

InspectionReason(check) ==
    IF check.execution \in {"ABSENT", "CANCELLED"} THEN "NO_REASON"
    ELSE IF check.execution # "COMPLETED" \/ check.verdict = "NONE"
         THEN "INSPECTION_PENDING"
    ELSE IF check.verdict = "FAIL" THEN "INSPECTION_FAILED"
    ELSE IF check.verdict = "HOLD" THEN "INSPECTION_HELD"
    ELSE "NO_REASON"

InspectionReasons(checks, S) ==
    {InspectionReason(checks[s]) : s \in S} \ {"NO_REASON"}

\* The ROUTE_ADVANCE inspections of the steps before step i.
GatesOnlyLast(i) ==                                                   \* mutant
    {s \in InspectionSpec : Gate[s] = "ROUTE_ADVANCE" /\ StepOf[s] \in 2..(i-1)}

GatesBefore(i) ==
    {s \in InspectionSpec : Gate[s] = "ROUTE_ADVANCE" /\ StepOf[s] \in 1..(i-1)}

-----------------------------------------------------------------------------

(***************************************************************************)
(* refreshMaterialReadiness: the first step is blocked while the           *)
(* reservations do not cover the snapshotted requirements.  `required`     *)
(* says whether the order has requirement rows at all.                     *)
(***************************************************************************)
MaterialRefreshed(rows, required, enough) ==
    IF ~required \/ rows[1].readiness \in Started \cup {"ABSENT"} THEN rows
    ELSE LET reasons == (rows[1].reasons \ MaterialReasons)
                          \cup (IF enough THEN {} ELSE {"MATERIAL_SHORTAGE"})
         IN [rows EXCEPT
               ![1].reasons = reasons,
               ![1].readiness = IF reasons = {} THEN "READY" ELSE "BLOCKED"]

(***************************************************************************)
(* refreshProductionFlow, the loop over the steps.  Codes that are not     *)
(* flow conditions (a material shortage) survive.                          *)
(***************************************************************************)
NoOutputReasons(rows, i, planned) ==
    LET limit == OutputQuantityLimit(rows, i, planned) IN
    IF ~PriorComplete(rows, i) THEN {}
    ELSE IF limit = 0 THEN {"NO_GOOD_OUTPUT"}
    ELSE IF limit = Null THEN {"PREDECESSOR_QUANTITY_MISSING"}
    ELSE {}

StepReasons(rows, i, checks, planned) ==
    (rows[i].reasons \ FlowReasons)
      \cup InspectionReasons(checks, GatesBefore(i))
      \cup NoOutputReasons(rows, i, planned)

ReadinessOf(rows, i, reasons) ==
    IF reasons # {} THEN "BLOCKED"
    ELSE IF PriorComplete(rows, i) THEN "READY"
    ELSE "WAITING"

FlowRefreshed(rows, checks, planned) ==
    [i \in DOMAIN rows |->
       IF rows[i].readiness \in Started THEN rows[i]
       ELSE LET reasons == StepReasons(rows, i, checks, planned)
            IN [rows[i] EXCEPT !.reasons = reasons,
                               !.readiness = ReadinessOf(rows, i, reasons)]]

-----------------------------------------------------------------------------

(***************************************************************************)
(* refreshProductionFlow, the projection onto the WorkOrder row: status,   *)
(* currentStepName (0 is NULL) and blockedReason.  progressPercent is a    *)
(* function of the same rows and is left out.                              *)
(***************************************************************************)
OrderRow == [status : {"DRAFT", "RELEASED", "IN_PROGRESS", "COMPLETED", "CANCELLED"},
             currentStep : Nat,
             blocked : [step : Nat, codes : SUBSET (ReasonCode \cup
                          {"RESERVATION_NEEDED", "VERDICT_NEEDED"})]]

NotBlocked == [step |-> 0, codes |-> {}]
ReservationNeeded == [step |-> 0, codes |-> {"RESERVATION_NEEDED"}]
VerdictNeeded == [step |-> 0, codes |-> {"VERDICT_NEEDED"}]

\* The smallest element of a set of step positions, 0 when there is none.
FirstOf(S) == IF S = {} THEN 0 ELSE CHOOSE i \in S : \A j \in S : i <= j

AllCompleted(rows) == \A i \in DOMAIN rows : rows[i].readiness = "COMPLETED"
AnyStarted(rows) == \E i \in DOMAIN rows : rows[i].readiness \in Started

StatusOf(rows, checks) ==
    IF AllCompleted(rows) /\ InspectionReasons(checks, InspectionSpec) = {} THEN "COMPLETED"
    ELSE IF AnyStarted(rows) THEN "IN_PROGRESS"
    ELSE "RELEASED"

BlockedOf(rows, checks) ==
    LET first == FirstOf({i \in DOMAIN rows : rows[i].readiness = "BLOCKED"}) IN
    IF first # 0 THEN [step |-> first, codes |-> rows[first].reasons]
    ELSE IF AllCompleted(rows) /\ InspectionReasons(checks, InspectionSpec) # {}
         THEN VerdictNeeded
    ELSE NotBlocked

OrderRefreshed(rows, checks) ==
    [status |-> StatusOf(rows, checks),
     currentStep |-> FirstOf({i \in DOMAIN rows : rows[i].readiness # "COMPLETED"}),
     blocked |-> BlockedOf(rows, checks)]
=============================================================================
