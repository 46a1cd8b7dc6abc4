--------------------------- MODULE CommandContract ---------------------------
(***************************************************************************)
(* The commands of ManufacturingFlow implement ProductionContract.         *)
(***************************************************************************)
EXTENDS ManufacturingFlow

Work(row) ==
    IF row.readiness = "COMPLETED" THEN "done"
    ELSE IF row.readiness = "IN_PROGRESS" THEN "begun" ELSE "waiting"

Outcome(check) == IF check.execution = "COMPLETED" THEN check.verdict ELSE "open"

\* The contract's variables, read off the tables.
StatusView == [o \in Order |-> order[o].status]
WorkView == [o \in Order |-> [i \in Route(o) |-> Work(step[o][i])]]
OutcomeView == [o \in Order |-> [s \in InspectionSpec |-> Outcome(inspection[o][s])]]
ClaimView == [o \in Order |-> HeldBy(o)]

Contract == INSTANCE ProductionContract WITH
    Length <- RouteLength,
    Check <- InspectionSpec,
    ChecksOf <- SpecsOf,
    Claim <- Allocation,
    TakenOver <- Imported,
    status <- StatusView,
    work <- WorkView,
    outcome <- OutcomeView,
    claims <- ClaimView

(***************************************************************************)
(* Whatever the commands do to readiness, block reasons and statuses they  *)
(* cache and recompute, and however they interleave, retry and race with   *)
(* quality control, an order takes only the course the contract allows:    *)
(* no step begins before its predecessors are done and their gates passed, *)
(* nobody works on a cancelled or completed order, its claims go when the  *)
(* work begins or the order is cancelled, and it is completed by the very  *)
(* command that does the last thing missing.                               *)
(***************************************************************************)
ContractKept == Contract!Spec
=============================================================================
