----------------------------- MODULE Inspections -----------------------------
(***************************************************************************)
(* InspectionVerdictService.verdict and review                             *)
(* (apps/api/src/inspections/inspection-verdict.service.ts and             *)
(* inspection-eligibility.ts).                                             *)
(***************************************************************************)
EXTENDS MesDatabase

StartedAt(o, i) == i \in Route(o) /\ step[o][i].readiness \in Started
StartedAfter(o, i) == \E j \in Route(o) : j > i /\ step[o][j].readiness \in Started

Held(check) == check.execution = "COMPLETED" /\ check.verdict = "HOLD"

(***************************************************************************)
(* inspectionEligibility: a gate inspection needs its step to have begun,  *)
(* a final inspection needs all steps completed, and a hold is no longer   *)
(* reviewed once a later step has begun.                                   *)
(***************************************************************************)
Eligible(o, s) ==
    /\ order[o].status \in {"RELEASED", "IN_PROGRESS"}
    /\ IF Gate[s] = "LOT_COMPLETE" THEN AllCompleted(step[o])
       ELSE StartedAt(o, StepOf[s])
    /\ ~ (Held(inspection[o][s]) /\ Gate[s] = "ROUTE_ADVANCE"
            /\ StartedAfter(o, StepOf[s]))

\* The rows derived from the inspections follow the recorded verdict.
VerdictWithoutRefresh(o, s, verdict) ==                               \* mutant
    /\ inspection' = [inspection EXCEPT ![o][s] =
         [execution |-> "COMPLETED", verdict |-> verdict]]
    /\ UNCHANGED <<order, step>>

VerdictProjected(o, s, verdict) ==
    /\ inspection' = [inspection EXCEPT ![o][s] =
         [execution |-> "COMPLETED", verdict |-> verdict]]
    /\ MaterialAndFlowProjected(o, inspection[o]', EnoughMaterial(o))

AnyUndecided(check) == check.execution # "ABSENT"                     \* mutant
Undecided(check) == check.execution \in {"PENDING", "IN_PROGRESS"}

CanDecide(o, s) == Undecided(inspection[o][s]) /\ Eligible(o, s)

\* The first decision of an inspection.
Verdict(o, s, verdict) ==
    /\ CanDecide(o, s)
    /\ decisions' = [decisions EXCEPT ![o][s] = @ \cup
         {[sequence |-> 1, phase |-> "INITIAL", verdict |-> verdict]}]
    /\ VerdictProjected(o, s, verdict)
    /\ UNCHANGED <<inventoryVars, consumed, qualityVars, overdue>>

(***************************************************************************)
(* review: a hold is decided.  An inspection imported without decisions    *)
(* first gets its hold recorded as LEGACY.                                 *)
(***************************************************************************)
Sequences(o, s) == {d.sequence : d \in decisions[o][s]}
LatestSequence(o, s) == CHOOSE n \in Sequences(o, s) : \A k \in Sequences(o, s) : k <= n

LegacyHold == [sequence |-> 1, phase |-> "LEGACY", verdict |-> "HOLD"]

LegacyForgotten(o, s) == decisions[o][s]                              \* mutant

History(o, s) == IF decisions[o][s] = {} THEN {LegacyHold} ELSE decisions[o][s]

NextSequence(o, s) == (IF decisions[o][s] = {} THEN 1 ELSE LatestSequence(o, s)) + 1

CanReview(o, s) == Held(inspection[o][s]) /\ Eligible(o, s)

Review(o, s, verdict) ==
    /\ CanReview(o, s)
    /\ decisions' = [decisions EXCEPT ![o][s] = History(o, s) \cup
         {[sequence |-> NextSequence(o, s), phase |-> "HOLD_REVIEW",
           verdict |-> verdict]}]
    /\ VerdictProjected(o, s, verdict)
    /\ UNCHANGED <<inventoryVars, consumed, qualityVars, overdue>>
=============================================================================
