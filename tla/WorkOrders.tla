------------------------------ MODULE WorkOrders ------------------------------
(***************************************************************************)
(* WorkOrdersService.release and cancel                                    *)
(* (apps/api/src/work-orders/work-orders.service.ts).                      *)
(***************************************************************************)
EXTENDS MesDatabase

\* Every gate specification of the product names a step of its route.
SpecsFitRoute(o) ==
    \A s \in SpecsOf[o] : Gate[s] = "ROUTE_ADVANCE" => StepOf[s] \in Route(o)

ReleasedStep(o, i) ==
    IF i > 1 THEN [NoStep EXCEPT !.readiness = "WAITING"]
    ELSE IF RequiresMaterial(o)
         THEN [NoStep EXCEPT !.readiness = "BLOCKED", !.reasons = {"MATERIAL_SHORTAGE"}]
    ELSE [NoStep EXCEPT !.readiness = "READY"]

\* What the client does not ask before it sends a release.
ReleasePrepared(o) ==
    /\ o \notin overdue
    /\ o \in Producible
    /\ SpecsFitRoute(o)

CanRelease(o) == order[o].status = "DRAFT" /\ ReleasePrepared(o)

(***************************************************************************)
(* release: a draft becomes executable, unless its due date has passed,    *)
(* its product has no route or no published BOM, or a published gate is    *)
(* not on the route.  The date is compared before the transaction begins;  *)
(* nothing else reads it, so that comparison and the transaction may be    *)
(* told as one step.  The transaction snapshots the requirements, creates  *)
(* the steps of the route and one pending inspection per published         *)
(* specification.  The notice "material reservation needed" is written     *)
(* whether or not anything is required.                                    *)
(***************************************************************************)
Release(o) ==
    /\ CanRelease(o)
    /\ order' = [order EXCEPT ![o] =
         [status |-> "RELEASED", currentStep |-> 1, blocked |-> ReservationNeeded]]
    /\ step' = [step EXCEPT ![o] = [i \in Route(o) |-> ReleasedStep(o, i)]]
    /\ inspection' = [inspection EXCEPT ![o] = [s \in InspectionSpec |->
         IF s \in SpecsOf[o] THEN [execution |-> "PENDING", verdict |-> "NONE"]
         ELSE NoCheck]]
    /\ UNCHANGED <<decisions, inventoryVars, consumed, qualityVars, overdue>>

(***************************************************************************)
(* seoulStartOfToday() passes the due date of a draft.  It is followed for *)
(* drafts only: no command but release asks for it.                        *)
(***************************************************************************)
DueDatePasses(o) ==
    /\ o \in DueSoon \ overdue
    /\ order[o].status = "DRAFT"
    /\ overdue' = overdue \cup {o}
    /\ UNCHANGED <<productionVars, inspectionVars, inventoryVars, qualityVars>>

(***************************************************************************)
(* Closing the reservations `A`: each lot gets back what they held.        *)
(***************************************************************************)
Closed(A, reason) ==
    [a \in Allocation |->
       IF a \in A THEN [alloc[a] EXCEPT !.status = "CLOSED", !.reason = reason]
       ELSE alloc[a]]

ReservationsKept(A) == lot                                            \* mutant

ReservationsReturned(A) ==
    [l \in Lot |-> [lot[l] EXCEPT
       !.reserved = @ - Total({a \in A : alloc[a].lot = l})]]

OpenChecksCancelled(o) ==
    [s \in InspectionSpec |->
       IF inspection[o][s].execution \in {"PENDING", "IN_PROGRESS"}
       THEN [inspection[o][s] EXCEPT !.execution = "CANCELLED"]
       ELSE inspection[o][s]]

\* No step of the order was executed.
NoExecution(o) == ~ AnyStarted(step[o])

Cancellable == {"DRAFT", "RELEASED"}

CanCancel(o) ==
    /\ order[o].status \in Cancellable
    /\ NoExecution(o)
    /\ \A a \in HeldBy(o) : ~ Locked(alloc[a].lot)

(***************************************************************************)
(* cancel: the reservations are closed and the open inspections cancelled. *)
(* The steps are not touched.                                              *)
(***************************************************************************)
Cancel(o) ==
    /\ CanCancel(o)
    /\ lot' = ReservationsReturned(HeldBy(o))
    /\ alloc' = Closed(HeldBy(o), "CANCELLED")
    /\ inspection' = [inspection EXCEPT ![o] = OpenChecksCancelled(o)]
    /\ order' = [order EXCEPT ![o].status = "CANCELLED", ![o].blocked = NotBlocked]
    /\ UNCHANGED <<step, consumed, decisions, qualityVars, overdue>>
=============================================================================
