-------------------------- MODULE ManufacturingFlow --------------------------
(***************************************************************************)
(* The manufacturing commands of the API server composed over one          *)
(* database, and the properties that make them correct.                    *)
(***************************************************************************)
EXTENDS ProcessCommands, MaterialReservations, Inspections, QualityControl

OrderStep(o) ==
    \/ Release(o)
    \/ Cancel(o)
    \/ \E l \in Lot, a \in Allocation :
         \E quantity \in 1..lot[l].onHand : Reserve(o, l, a, quantity)
    \/ \E i \in Route(o) : Start(o, i)
    \/ \E i \in Route(o) : \E good, defect \in 0..Planned[o] :
         Complete(o, i, good, defect)
    \/ \E s \in SpecsOf[o], verdict \in {"PASS", "FAIL", "HOLD"} : Verdict(o, s, verdict)
    \/ \E s \in SpecsOf[o], verdict \in {"PASS", "FAIL"} : Review(o, s, verdict)

InspectorStep(q) ==
    \/ \E l \in Lot, target \in {"ACCEPTED", "HOLD", "REJECTED"} : DecideRead(q, l, target)
    \/ DecideCount(q)
    \/ DecideUpdate(q)
    \/ \E l \in Lot : RegisterRead(q, l)
    \/ QuarantineUpdate(q)
    \/ CountIncidents(q)
    \/ RegisterCommit(q)
    \/ Rollback(q)

Next ==
    \/ \E o \in Order : OrderStep(o)
    \/ \E a \in Allocation : ReleaseReservation(a)
    \/ \E q \in Inspector : InspectorStep(q)
    \/ \E l \in Lot : Expire(l)
    \/ \E o \in Order : DueDatePasses(o)

Spec == Init /\ [][Next]_vars

-----------------------------------------------------------------------------
(* THE FLOW OF ONE LOT *)

ChecksOfEarlierSteps(o, i) ==
    {s \in SpecsOf[o] : Gate[s] = "ROUTE_ADVANCE" /\ StepOf[s] \in 1..(i-1)}

(***************************************************************************)
(* RULE-11 and RULE-30: whatever was decided, retried or reviewed in       *)
(* whatever order, a step that has begun had all its predecessors          *)
(* completed and every gate inspection of theirs passed, and that stays    *)
(* true (start in process-commands.service.ts relies on the refresh, the   *)
(* review of a hold on inspection-eligibility.ts).                         *)
(***************************************************************************)
StartedStepGated ==
    \A o \in Order : \A i \in Route(o) :
        step[o][i].readiness \in Started =>
            /\ PriorComplete(step[o], i)
            /\ \A s \in ChecksOfEarlierSteps(o, i) : inspection[o][s].verdict = "PASS"

(***************************************************************************)
(* RULE-12: no piece appears or disappears between steps.  The good and    *)
(* defective output of a completed step add up to its input, which is the  *)
(* good output of its predecessor (outputQuantityLimit, complete).         *)
(***************************************************************************)
QuantityChain ==
    \A o \in Order : \A i \in Route(o) :
        step[o][i].readiness = "COMPLETED" =>
            step[o][i].good + step[o][i].defect =
                (IF i = 1 THEN Planned[o] ELSE step[o][i-1].good)

(***************************************************************************)
(* RULE-14: an order is completed by its derived state only, so it must    *)
(* have all steps completed, every inspection passed and nothing reserved. *)
(***************************************************************************)
CompletedOrderJustified ==
    \A o \in Order :
        order[o].status = "COMPLETED" =>
            /\ \A i \in Route(o) : step[o][i].readiness = "COMPLETED"
            /\ \A s \in SpecsOf[o] : inspection[o][s].verdict = "PASS"
            /\ HeldBy(o) = {}

(***************************************************************************)
(* The order row and the step rows are caches of the inspections and of    *)
(* the earlier steps (refreshProductionFlow).  No command leaves them      *)
(* stale: refreshing again changes nothing.  The one exception is an order *)
(* just released, whose later steps are WAITING before the first refresh.  *)
(***************************************************************************)
DerivedRowsCurrent ==
    \A o \in Order :
        order[o].status \in {"RELEASED", "IN_PROGRESS", "COMPLETED"}
          /\ order[o].blocked # ReservationNeeded =>
            /\ step[o] = FlowRefreshed(step[o], inspection[o], Planned[o])
            /\ order[o] = OrderRefreshed(step[o], inspection[o])

LegalStatus == {<<"DRAFT", "RELEASED">>, <<"DRAFT", "CANCELLED">>,
                <<"RELEASED", "IN_PROGRESS">>, <<"RELEASED", "CANCELLED">>,
                <<"IN_PROGRESS", "COMPLETED">>}

(***************************************************************************)
(* The order states of the domain contract: although every command         *)
(* recomputes the status from the steps, it never runs backwards and       *)
(* COMPLETED and CANCELLED are final.                                      *)
(***************************************************************************)
StatusAdvances ==
    [][\A o \in Order :
         order'[o].status # order[o].status =>
            <<order[o].status, order'[o].status>> \in LegalStatus]_vars

(***************************************************************************)
(* RULE-10 and RULE-16: once an order is cancelled or completed no command *)
(* of any client touches its steps, verdicts, material or reservations.    *)
(***************************************************************************)
ClosedOrderFrozen ==
    [][\A o \in Order :
         order[o].status \in {"COMPLETED", "CANCELLED"} =>
            /\ step'[o] = step[o]
            /\ inspection'[o] = inspection[o]
            /\ consumed'[o] = consumed[o]
            /\ HeldBy(o)' = HeldBy(o)]_vars

(***************************************************************************)
(* cancel leaves no claim behind: nothing reserved, no inspection still    *)
(* open, and nothing was ever executed or consumed.                        *)
(***************************************************************************)
CancelledOrderClean ==
    \A o \in Order :
        order[o].status = "CANCELLED" =>
            /\ HeldBy(o) = {}
            /\ \A s \in InspectionSpec : ~ Undecided(inspection[o][s])
            /\ NoExecution(o) /\ \A l \in Lot : consumed[o][l] = 0

-----------------------------------------------------------------------------
(* INSPECTIONS *)

(***************************************************************************)
(* The current verdict of an inspection is a projection of its append-only *)
(* decisions: numbered from 1 without gaps, a hold before every review,    *)
(* the last one the verdict on the row.  Only a hold imported without      *)
(* decisions has none.                                                     *)
(***************************************************************************)
DecisionsExplainVerdict ==
    \A o \in Order : \A s \in InspectionSpec :
        LET history == decisions[o][s]
            last == Cardinality(history)
        IN
        /\ Sequences(o, s) = 1..last
        /\ \A d \in history :
             /\ d.phase = "HOLD_REVIEW" <=> d.sequence > 1
             /\ d.sequence < last => d.verdict = "HOLD"
             /\ d.sequence = last =>
                   inspection[o][s] = [execution |-> "COMPLETED", verdict |-> d.verdict]
        /\ history = {} => inspection[o][s].verdict \in {"NONE", "HOLD"}

(***************************************************************************)
(* RULE-16: decisions are never removed or rewritten, and a pass or a fail *)
(* is final: only a hold is ever decided again.                            *)
(***************************************************************************)
VerdictsFinal ==
    [][\A o \in Order : \A s \in InspectionSpec :
         /\ decisions[o][s] \subseteq decisions'[o][s]
         /\ inspection[o][s].verdict \in {"PASS", "FAIL"} =>
               inspection'[o][s] = inspection[o][s]]_vars

-----------------------------------------------------------------------------
(* MATERIAL *)

(***************************************************************************)
(* The reserved counter of a lot equals the sum of its active reservation  *)
(* rows: reserve, release, cancel and start each update both.              *)
(***************************************************************************)
ReservedMatchesAllocations ==
    \A l \in Lot : lot[l].reserved = Total(ReservedOn(l))

(***************************************************************************)
(* RULE-02 and RULE-05: orders competing for a lot are never promised more *)
(* than is on hand (computeAvailableQuantity is checked by reserve only).  *)
(***************************************************************************)
NoOverReservation ==
    \A l \in Lot : lot[l].reserved \in 0..lot[l].onHand

(***************************************************************************)
(* The inventory formula of the domain contract: every received piece is   *)
(* on hand, consumed or scrapped.                                          *)
(***************************************************************************)
LotConservation ==
    \A l \in Lot :
        Received[l] = lot[l].onHand + lot[l].consumed + lot[l].scrapped

(***************************************************************************)
(* Only orders that have not begun hold reservations; start consumes them  *)
(* all and nothing is reserved afterwards.  An imported order may still    *)
(* hold the reservation it was seeded with.                                *)
(***************************************************************************)
ReservationsOnlyBeforeStart ==
    \A a \in Active :
        LET o == alloc[a].order IN
        order[o].status = "RELEASED" \/ (o \in Imported /\ a = SeedReservation[o].id)

BuiltIn(o, m) ==
    UNION {{l} \X (1..consumed[o][l]) : l \in {k \in Lot : MaterialOf[k] = m}}

(***************************************************************************)
(* RULE-26: an order that has begun consumed exactly its snapshotted bill  *)
(* of materials, no piece less and no piece more, however its reservations *)
(* were split over lots, released and made again.                          *)
(***************************************************************************)
BillOfMaterialsConsumed ==
    \A o \in Order :
        RequiresMaterial(o) =>
            \A m \in Material :
                Cardinality(BuiltIn(o, m)) =
                    IF AnyStarted(step[o]) THEN Required[o][m] ELSE 0

(***************************************************************************)
(* The first step of a released order is READY only while its reservations *)
(* cover the whole demand, whatever is reserved, released and reserved     *)
(* again in between (reserve and release in material-reservations).        *)
(***************************************************************************)
ReadyFullyReserved ==
    \A o \in Order :
        order[o].status = "RELEASED" /\ step[o][1].readiness = "READY" =>
            \A m \in Material : Total(HeldOfMaterial(o, m)) >= Required[o][m]

FulfilledBy(o, l) ==
    {a \in Allocation : alloc[a].reason = "FULFILLED" /\ alloc[a].order = o /\ alloc[a].lot = l}

(***************************************************************************)
(* RULE-06: genealogy is complete.  The CONSUME relation between a lot and *)
(* the production lot of an order carries the sum of the reservations      *)
(* fulfilled from it, and the lot's consumed counter is the sum over the   *)
(* orders.                                                                 *)
(***************************************************************************)
GenealogyComplete ==
    \A l \in Lot :
        /\ \A o \in Order : consumed[o][l] = Total(FulfilledBy(o, l))
        /\ lot[l].consumed = Total(UNION {FulfilledBy(o, l) : o \in Order})

(***************************************************************************)
(* RULE-03: a lot that expired or was put under quality control after it   *)
(* was reserved is never built into a product, although nothing refreshes  *)
(* the READY step that was derived from it (the re-check in start).        *)
(***************************************************************************)
OnlyUsableMaterialConsumed ==
    [][\A l \in Lot : lot'[l].consumed > lot[l].consumed => Usable(l)]_vars

-----------------------------------------------------------------------------
(* QUALITY CONTROL OF LOTS *)

(***************************************************************************)
(* A rejected lot is scrapped as a whole and promised to nobody.           *)
(***************************************************************************)
RejectedLotEmpty ==
    \A l \in Lot :
        lot[l].disposition = "REJECTED" => lot[l].onHand = 0 /\ ReservedOn(l) = {}

(***************************************************************************)
(* "The disposition of a lot already scrapped cannot be changed" (message  *)
(* of MATERIAL_LOT_DISPOSITION_FORBIDDEN in decide; REJECTED is final in   *)
(* the disposition chart of the domain contract).                          *)
(***************************************************************************)
RejectedIsFinal ==
    [][\A l \in Lot :
         lot[l].disposition = "REJECTED" => lot'[l].disposition = "REJECTED"]_vars

\* No quality request on the lot is under way.
Undisturbed(l) == \A q \in Inspector : session[q].pc # "idle" => session[q].lot # l

(***************************************************************************)
(* What is left of that finality when quality requests overlap.  Only a    *)
(* request that read the lot before the rejection can still change it;     *)
(* once none is under way the lot stays rejected for good, and its stock   *)
(* stays what it is, even if it was reserved while its rejection was being *)
(* counted, or scrapped twice (decide and register refuse to begin on it,  *)
(* start refuses to consume it).                                           *)
(***************************************************************************)
RejectionStands ==
    [][\A l \in Lot :
         lot[l].disposition = "REJECTED" /\ Undisturbed(l) =>
            /\ lot'[l].disposition = "REJECTED" /\ Undisturbed(l)'
            /\ lot'[l].onHand = 0
            /\ lot'[l].consumed = lot[l].consumed
            /\ lot'[l].scrapped = lot[l].scrapped]_vars

(***************************************************************************)
(* A quarantine and the incident that justifies it appear together, also   *)
(* when two incidents race for the same number (register in                *)
(* quality-incidents.service.ts).                                          *)
(***************************************************************************)
QuarantineHasIncident ==
    [][\A l \in Lot :
         lot'[l].disposition = "QUARANTINED" /\ lot[l].disposition # "QUARANTINED" =>
            Cardinality(incidents') = Cardinality(incidents) + 1]_vars
=============================================================================
