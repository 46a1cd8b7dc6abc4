--------------------------- MODULE ProcessCommands ---------------------------
(***************************************************************************)
(* ProcessCommandsService.start and complete                               *)
(* (apps/api/src/process-executions/process-commands.service.ts).          *)
(***************************************************************************)
EXTENDS WorkOrders

Executable == {"RELEASED", "IN_PROGRESS"}

(***************************************************************************)
(* start first recomputes the readiness of every step of the order, so a   *)
(* stored READY that is out of date does not let the step run.             *)
(***************************************************************************)
RowsAtStart(o) ==
    FlowRefreshed(MaterialRefreshed(step[o], RequiresMaterial(o), EnoughMaterial(o)),
                  inspection[o], Planned[o])

(***************************************************************************)
(* Every active reservation of the order is consumed.  The code checks the *)
(* lots one allocation at a time, updating as it goes: all pass exactly    *)
(* when each lot covers the sum of the order's reservations on it.         *)
(***************************************************************************)
Taken(o, l) == Total({a \in HeldBy(o) : alloc[a].lot = l})

AnyQuality(o) ==                                                      \* mutant
    \A a \in HeldBy(o) :
       LET l == alloc[a].lot IN
       /\ ~ Locked(l)
       /\ lot[l].onHand >= Taken(o, l)
       /\ lot[l].reserved >= Taken(o, l)

MaterialsConsumable(o) ==
    \A a \in HeldBy(o) :
       LET l == alloc[a].lot IN
       /\ Usable(l)
       /\ ~ Locked(l)
       /\ lot[l].onHand >= Taken(o, l)
       /\ lot[l].reserved >= Taken(o, l)

MaterialsConsumed(o) ==
    [l \in Lot |-> [lot[l] EXCEPT
       !.reserved = @ - Taken(o, l),
       !.onHand = @ - Taken(o, l),
       !.consumed = @ + Taken(o, l)]]

RelationOverwritten(o) ==                                             \* mutant
    [l \in Lot |-> IF Taken(o, l) > 0 THEN 1 ELSE consumed[o][l]]

\* The CONSUME relations between the consumed lots and the production lot.
RelationsExtended(o) == [l \in Lot |-> consumed[o][l] + Taken(o, l)]

CanStart(o, i) ==
    /\ order[o].status \in Executable
    /\ RowsAtStart(o)[i].readiness = "READY"
    /\ MaterialsConsumable(o)

Start(o, i) ==
    /\ CanStart(o, i)
    /\ lot' = MaterialsConsumed(o)
    /\ alloc' = Closed(HeldBy(o), "FULFILLED")
    /\ consumed' = [consumed EXCEPT ![o] = RelationsExtended(o)]
    /\ step' = [step EXCEPT ![o] =
         [RowsAtStart(o) EXCEPT ![i].readiness = "IN_PROGRESS"]]
    /\ order' = [order EXCEPT ![o] =
         [OrderRefreshed(RowsAtStart(o), inspection[o]) EXCEPT
            !.status = "IN_PROGRESS", !.currentStep = i]]
    /\ UNCHANGED <<inspectionVars, qualityVars, overdue>>

(***************************************************************************)
(* complete: good and defective pieces account for the whole input.        *)
(***************************************************************************)
AtMostTheLimit(o, i, good, defect) ==                                 \* mutant
    LET limit == OutputQuantityLimit(step[o], i, Planned[o]) IN
    limit # Null /\ good + defect <= limit

QuantityAccounted(o, i, good, defect) ==
    LET limit == OutputQuantityLimit(step[o], i, Planned[o]) IN
    limit # Null /\ good + defect = limit

CanComplete(o, i, good, defect) ==
    /\ step[o][i].readiness = "IN_PROGRESS"
    /\ good + defect >= 1
    /\ order[o].status = "IN_PROGRESS"
    /\ QuantityAccounted(o, i, good, defect)

Complete(o, i, good, defect) ==
    /\ CanComplete(o, i, good, defect)
    /\ FlowProjected(o, [step[o] EXCEPT ![i].readiness = "COMPLETED",
                                        ![i].good = good, ![i].defect = defect],
                     inspection[o])
    /\ UNCHANGED <<inspectionVars, inventoryVars, consumed, qualityVars, overdue>>
=============================================================================
