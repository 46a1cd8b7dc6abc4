------------------------------ MODULE OrderProofs ------------------------------
(***************************************************************************)
(* An order on its way through the plant, for every route, every set of    *)
(* inspections and every interleaving of commands.                         *)
(*                                                                         *)
(* Its lot: verdicts are final, a step begins behind completed steps and   *)
(* passed gates only, and quantities add up.  Its status: derived from its *)
(* rows, it still only advances, reservations end with the start, a        *)
(* completed order is complete and a closed one is never touched again,    *)
(* and the derived rows are what a refresh would write.                    *)
(***************************************************************************)
EXTENDS ManufacturingFlowProofs

-----------------------------------------------------------------------------
(* VERDICTS *)

\* What one step may do to the inspections: add decisions, spare passes and fails.
ChecksAdvance ==
  \A o \in Order, s \in InspectionSpec :
    /\ decisions[o][s] \subseteq decisions'[o][s]
    /\ inspection[o][s].verdict \in {"PASS", "FAIL"} => inspection'[o][s] = inspection[o][s]

\* An inspection that awaits its first decision or is held has no final verdict.
LEMMA UndecidedHasNoVerdict ==
  ASSUME HistoryShape, NEW o \in Order, NEW s \in InspectionSpec,
         inspection[o][s].execution # "COMPLETED"
  PROVE  inspection[o][s].verdict = "NONE"
BY DecidedIsCompleted DEF HistoryShape, NotDecided

\* The commands on an order leave passes and fails alone.
LEMMA OrderStepVerdicts ==
  ASSUME TypeInvariant, NEW o \in Order, OrderStep(o) PROVE ChecksAdvance
<1> USE TypeParts DEF TypeInvariant, ChecksTyped
<1>1. CASE UNCHANGED inspectionVars
  BY <1>1 DEF ChecksAdvance, inspectionVars
<1>2. CASE Release(o)
  <2>1. \A s \in InspectionSpec : inspection[o][s].verdict = "NONE"
    <3>1. \A s \in InspectionSpec : inspection[o][s] = NoCheck
      BY <1>2 DEF Release, CanRelease, DraftUntouched
    <3>2. NoCheck.verdict = "NONE"
      BY DEF NoCheck
    <3> QED
      BY <3>1, <3>2
  <2>2. /\ decisions' = decisions
        /\ \A p \in Order \ {o} : inspection'[p] = inspection[p]
    BY <1>2 DEF Release, CanRelease
  <2> QED
    BY <2>1, <2>2 DEF ChecksAdvance
<1>3. CASE Cancel(o)
  <2>1. ASSUME NEW s \in InspectionSpec, inspection[o][s].verdict \in {"PASS", "FAIL"}
        PROVE  inspection'[o][s] = inspection[o][s]
    <3>1. inspection[o][s].execution = "COMPLETED"
      BY <2>1, UndecidedHasNoVerdict
    <3> QED
      BY <1>3, <3>1 DEF Cancel, CanCancel, OpenChecksCancelled
  <2> QED
    BY <1>3, <2>1 DEF Cancel, CanCancel, ChecksAdvance
<1>4. ASSUME NEW s \in InspectionSpec, NEW verdict, VerdictProjected(o, s, verdict),
             inspection[o][s].verdict \notin {"PASS", "FAIL"},
             decisions[o][s] \subseteq decisions'[o][s],
             \A p \in Order, r \in InspectionSpec :
               p # o \/ r # s => decisions'[p][r] = decisions[p][r]
      PROVE  ChecksAdvance
  BY <1>4 DEF VerdictProjected, ChecksAdvance
<1>5. ASSUME NEW s \in InspectionSpec, NEW verdict \in {"PASS", "FAIL", "HOLD"},
             Verdict(o, s, verdict)
      PROVE  ChecksAdvance
  <2>1. inspection[o][s].verdict = "NONE"
    BY <1>5, UndecidedHasNoVerdict DEF Verdict, CanDecide, Undecided
  <2>2. \A p \in Order, r \in InspectionSpec :
          /\ decisions[p][r] \subseteq decisions'[p][r]
          /\ p # o \/ r # s => decisions'[p][r] = decisions[p][r]
    BY <1>5 DEF Verdict, CanDecide
  <2> QED
    BY <1>4, <1>5, <2>1, <2>2 DEF Verdict, CanDecide
<1>6. ASSUME NEW s \in InspectionSpec, NEW verdict \in {"PASS", "FAIL"},
             Review(o, s, verdict)
      PROVE  ChecksAdvance
  <2>1. inspection[o][s].verdict = "HOLD"
    BY <1>6 DEF Review, CanReview, Held
  <2>2. decisions[o][s] \subseteq History(o, s)
    BY DEF History
  <2>3. \A p \in Order, r \in InspectionSpec :
          /\ decisions[p][r] \subseteq decisions'[p][r]
          /\ p # o \/ r # s => decisions'[p][r] = decisions[p][r]
    BY <1>6, <2>2 DEF Review, CanReview
  <2> QED
    BY <1>4, <1>6, <2>1, <2>3 DEF Review, CanReview
<1> QED
  BY <1>1, <1>2, <1>3, <1>5, <1>6, OrderStepCases DEF Reserve, CanReserve, Start,
                                                      CanStart, Complete, CanComplete

\* No step of the system rewrites a decision or a final verdict.
LEMMA NextVerdicts == TypeInvariant /\ [Next]_vars => ChecksAdvance
<1> SUFFICES ASSUME TypeInvariant, [Next]_vars PROVE ChecksAdvance
  OBVIOUS
<1>1. CASE \E o \in Order : OrderStep(o)
  BY <1>1, OrderStepVerdicts
<1>2. CASE UNCHANGED inspectionVars
  BY <1>2 DEF ChecksAdvance, inspectionVars
<1>3. Next \/ UNCHANGED vars => (\E o \in Order : OrderStep(o)) \/ UNCHANGED inspectionVars
  BY DueDateKeepsRows
     DEF Next, ReleaseReservation, CanDissolve, Expire, InspectorStep, DecideRead, DecideCount,
     DecideUpdate, RegisterRead, QuarantineUpdate, CountIncidents, RegisterCommit,
     Rollback, inspectionVars, vars
<1> QED
  BY <1>1, <1>2, <1>3

(***************************************************************************)
(* RULE-16: decisions are append-only, and a pass or a fail is never       *)
(* decided again, by whatever sequence of verdicts, reviews and cancels.   *)
(***************************************************************************)
THEOREM VerdictsAreFinal == Spec => VerdictsFinal
<1>1. TypeInvariant /\ [Next]_vars =>
        [\A o \in Order : \A s \in InspectionSpec :
           /\ decisions[o][s] \subseteq decisions'[o][s]
           /\ inspection[o][s].verdict \in {"PASS", "FAIL"} =>
                 inspection'[o][s] = inspection[o][s]]_vars
  BY NextVerdicts DEF ChecksAdvance
<1> QED
  BY <1>1, TypeInvariantHolds, PTL DEF Spec, VerdictsFinal

-----------------------------------------------------------------------------
(* GATES AND QUANTITIES *)

Live(o) == order[o].status \in {"RELEASED", "IN_PROGRESS", "COMPLETED"}

\* The inspections of a live order exist and are not cancelled.
ChecksOpened(o) ==
  Live(o) => \A s \in SpecsOf[o] : inspection[o][s].execution \notin {"ABSENT", "CANCELLED"}

\* StartedStepGated and QuantityChain at one order; the good output of a
\* completed step is moreover at most the planned quantity.
GatedAt(o) ==
  \A i \in Route(o) :
    step[o][i].readiness \in Started =>
      /\ PriorComplete(step[o], i)
      /\ \A s \in ChecksOfEarlierSteps(o, i) : inspection[o][s].verdict = "PASS"

QuantitiesAt(o) ==
  \A i \in Route(o) :
    step[o][i].readiness = "COMPLETED" =>
      /\ step[o][i].good \in Nat /\ step[o][i].good <= Planned[o]
      /\ step[o][i].good + step[o][i].defect =
           (IF i = 1 THEN Planned[o] ELSE step[o][i-1].good)

FlowInvariant ==
  /\ TypeInvariant
  /\ \A o \in Order : ChecksOpened(o) /\ GatedAt(o) /\ QuantitiesAt(o)

\* A step that neither begins nor ends a process step of o.
KeepsStarted(o) ==
  \A i \in Route(o) :
    /\ step[o][i].readiness \in Started => step'[o][i] = step[o][i]
    /\ step[o][i].readiness \notin Started => step'[o][i].readiness \notin Started

\* The predecessors of a step of the route are steps of the route.
LEMMA RoutePrefix ==
  ASSUME NEW o \in Order, NEW i \in Route(o)
  PROVE  /\ 1..(i-1) \subseteq Route(o)
         /\ i # 1 => i - 1 \in Route(o) /\ i - 1 \in 1..(i-1)
BY RouteNonempty

\* Where nothing begins and no pass is lost, the gates and quantities hold on.
LEMMA StableOrder ==
  ASSUME NEW o \in Order, GatedAt(o), QuantitiesAt(o), KeepsStarted(o), ChecksAdvance
  PROVE  GatedAt(o)' /\ QuantitiesAt(o)'
<1>1. ASSUME NEW i \in Route(o), step'[o][i].readiness \in Started
      PROVE  /\ step'[o][i] = step[o][i]
             /\ \A j \in 1..(i-1) : step'[o][j] = step[o][j] /\ step[o][j].readiness = "COMPLETED"
             /\ \A s \in ChecksOfEarlierSteps(o, i) : inspection'[o][s].verdict = "PASS"
  <2>1. step'[o][i] = step[o][i] /\ step[o][i].readiness \in Started
    BY <1>1 DEF KeepsStarted
  <2>2. PriorComplete(step[o], i)
    BY <2>1 DEF GatedAt
  <2>3. \A j \in 1..(i-1) : step[o][j].readiness = "COMPLETED" /\ step'[o][j] = step[o][j]
    BY <2>2, RoutePrefix DEF PriorComplete, KeepsStarted, Started
  <2>4. \A s \in ChecksOfEarlierSteps(o, i) : s \in InspectionSpec /\ inspection[o][s].verdict = "PASS"
    BY <2>1, DatabaseAssumption DEF GatedAt, ChecksOfEarlierSteps
  <2>5. \A s \in ChecksOfEarlierSteps(o, i) : inspection'[o][s] = inspection[o][s]
    BY <2>4 DEF ChecksAdvance
  <2> QED
    BY <2>1, <2>3, <2>4, <2>5
<1>2. GatedAt(o)'
  BY <1>1 DEF GatedAt, PriorComplete, ChecksOfEarlierSteps
<1>3. QuantitiesAt(o)'
  <2> SUFFICES ASSUME NEW i \in Route(o), step'[o][i].readiness = "COMPLETED"
               PROVE  /\ step'[o][i].good \in Nat /\ step'[o][i].good <= Planned[o]
                      /\ step'[o][i].good + step'[o][i].defect =
                           (IF i = 1 THEN Planned[o] ELSE step'[o][i-1].good)
    BY DEF QuantitiesAt
  <2>1. /\ step'[o][i] = step[o][i]
        /\ i # 1 => step'[o][i-1] = step[o][i-1]
    BY <1>1, RoutePrefix DEF Started
  <2> QED
    BY <2>1 DEF QuantitiesAt
<1> QED
  BY <1>2, <1>3

\* The refreshes of a command begin and end no process step.
LEMMA ProjectedKeepsStarted ==
  ASSUME TypeOK, NEW o \in Order, NEW checks, NEW enough,
         MaterialAndFlowProjected(o, checks, enough)
  PROVE  KeepsStarted(o)
<1> DEFINE rows == MaterialRefreshed(step[o], RequiresMaterial(o), enough)
<1>1. rows \in [Route(o) -> StepRow] /\ FlowProjected(o, rows, checks)
  BY TypeParts, MaterialRows DEF MaterialAndFlowProjected
<1>2. step'[o] = rows \/ step'[o] = FlowRefreshed(rows, checks, Planned[o])
  BY <1>1, TypeParts, ProjectedRows
<1>3. \A i \in Route(o) :
        /\ step[o][i].readiness \in Started => rows[i] = step[o][i]
        /\ step[o][i].readiness \notin Started => rows[i].readiness \notin Started
  BY TypeParts, RouteNonempty, MaterialRefreshedKeepsStarted DEF OrdersTyped, StepsTyped
<1> HIDE DEF rows
<1>4. \A i \in Route(o) :
        /\ rows[i].readiness \in Started => step'[o][i] = rows[i]
        /\ rows[i].readiness \notin Started => step'[o][i].readiness \notin Started
  BY <1>1, <1>2, RouteNonempty, FlowRefreshedKeepsStarted
<1> QED
  BY <1>3, <1>4 DEF KeepsStarted

\* The rows complete refreshes: only the completed step is touched.
LEMMA ProjectedAfterComplete ==
  ASSUME TypeOK, NEW o \in Order, NEW i \in Route(o), NEW good \in Nat, NEW defect \in Nat,
         Complete(o, i, good, defect)
  PROVE  /\ step'[o][i].readiness = "COMPLETED"
         /\ step'[o][i].good = good /\ step'[o][i].defect = defect
         /\ \A j \in Route(o) \ {i} :
              /\ step[o][j].readiness \in Started => step'[o][j] = step[o][j]
              /\ step[o][j].readiness \notin Started => step'[o][j].readiness \notin Started
<1> DEFINE rows == CompletedRows(o, i, good, defect)
<1>1. rows \in [Route(o) -> StepRow] /\ FlowProjected(o, rows, inspection[o])
  BY TypeParts, CompletedRowsType DEF Complete, CanComplete, CompletedRows
<1>2. step'[o] = rows \/ step'[o] = FlowRefreshed(rows, inspection[o], Planned[o])
  BY <1>1, TypeParts, ProjectedRows
<1>3. /\ rows[i].readiness = "COMPLETED" /\ rows[i].good = good /\ rows[i].defect = defect
      /\ \A j \in Route(o) \ {i} : rows[j] = step[o][j]
  <2>1. step[o] \in [Route(o) -> StepRow]
    BY TypeParts DEF OrdersTyped, StepsTyped
  <2>2. rows[i] = [readiness |-> "COMPLETED", reasons |-> step[o][i].reasons,
                   good |-> good, defect |-> defect]
    BY <2>1 DEF CompletedRows, StepRow
  <2>3. \A j \in Route(o) \ {i} : rows[j] = step[o][j]
    BY <2>1 DEF CompletedRows
  <2> QED
    BY <2>2, <2>3
<1> HIDE DEF rows
<1>4. \A j \in Route(o) :
        /\ rows[j].readiness \in Started => step'[o][j] = rows[j]
        /\ rows[j].readiness \notin Started => step'[o][j].readiness \notin Started
  BY <1>1, <1>2, RouteNonempty, FlowRefreshedKeepsStarted
<1>5. step'[o][i] = rows[i]
  BY <1>3, <1>4 DEF Started
<1> QED
  BY <1>3, <1>4, <1>5

\* A completed step accounts for the good output of its predecessor.
LEMMA CompleteOrder ==
  ASSUME FlowInvariant, NEW o \in Order, NEW i \in Route(o),
         NEW good \in Nat, NEW defect \in Nat, good <= Planned[o], Complete(o, i, good, defect)
  PROVE  GatedAt(o)' /\ QuantitiesAt(o)'
<1>1. GatedAt(o) /\ QuantitiesAt(o) /\ TypeOK
  BY DEF FlowInvariant, TypeInvariant
<1>2. step[o][i].readiness = "IN_PROGRESS" /\ inspection' = inspection
  BY DEF Complete, CanComplete, inspectionVars
<1>3. ASSUME NEW j \in Route(o)
      PROVE  /\ step'[o][j].readiness \in Started => step[o][j].readiness \in Started
             /\ step[o][j].readiness = "COMPLETED" => step'[o][j] = step[o][j]
             /\ j # i /\ step'[o][j].readiness \in Started => step'[o][j] = step[o][j]
  BY <1>1, <1>2, ProjectedAfterComplete DEF Started
<1>4. ASSUME NEW j \in Route(o), step'[o][j].readiness \in Started
      PROVE  \A k \in 1..(j-1) : step[o][k].readiness = "COMPLETED" /\ step'[o][k] = step[o][k]
  BY <1>1, <1>3, <1>4, RoutePrefix DEF GatedAt, PriorComplete
<1>5. GatedAt(o)'
  <2> SUFFICES ASSUME NEW j \in Route(o), step'[o][j].readiness \in Started
               PROVE  /\ \A k \in 1..(j-1) : step'[o][k].readiness = "COMPLETED"
                      /\ \A s \in ChecksOfEarlierSteps(o, j) : inspection[o][s].verdict = "PASS"
    BY <1>2 DEF GatedAt, PriorComplete, ChecksOfEarlierSteps
  <2> QED
    BY <1>1, <1>3, <1>4 DEF GatedAt
<1>6. QuantitiesAt(o)'
  <2> SUFFICES ASSUME NEW j \in Route(o), step'[o][j].readiness = "COMPLETED"
               PROVE  /\ step'[o][j].good \in Nat /\ step'[o][j].good <= Planned[o]
                      /\ step'[o][j].good + step'[o][j].defect =
                           (IF j = 1 THEN Planned[o] ELSE step'[o][j-1].good)
    BY DEF QuantitiesAt
  <2>1. j # 1 => step[o][j-1].readiness = "COMPLETED" /\ step'[o][j-1] = step[o][j-1]
    BY <1>4, RoutePrefix DEF Started
  <2>2. CASE j # i
    <3>1. step'[o][j] = step[o][j]
      BY <1>3, <2>2 DEF Started
    <3> QED
      BY <1>1, <2>1, <3>1 DEF QuantitiesAt
  <2>3. CASE j = i
    <3>1. /\ OutputQuantityLimit(step[o], i, Planned[o]) # Null
          /\ good + defect = OutputQuantityLimit(step[o], i, Planned[o])
      BY DEF Complete, CanComplete, QuantityAccounted
    <3>2. step'[o][i].good = good /\ step'[o][i].defect = defect
      BY <1>1, ProjectedAfterComplete
    <3>3. CASE i = 1
      BY <2>3, <3>1, <3>2, <3>3 DEF OutputQuantityLimit
    <3>4. CASE i # 1
      <4>1. step[o][i-1].good <= Planned[o] /\ step[o][i-1].good \in Nat
        BY <1>1, <2>1, <2>3, <3>4, RoutePrefix DEF QuantitiesAt
      <4>2. OutputQuantityLimit(step[o], i, Planned[o]) = step[o][i-1].good
        <5>1. Planned[o] \in Nat
          BY DatabaseAssumption
        <5>2. step[o][i-1].readiness = "COMPLETED" /\ step[o][i-1].good # Null
          BY <2>1, <2>3, <3>4, <4>1 DEF Null
        <5>3. OutputQuantityLimit(step[o], i, Planned[o]) =
                IF step[o][i-1].good < Planned[o] THEN step[o][i-1].good ELSE Planned[o]
          BY <3>4, <5>2 DEF OutputQuantityLimit
        <5> QED
          BY <4>1, <5>1, <5>3
      <4> QED
        BY <2>1, <2>3, <3>1, <3>2, <3>4, <4>2
    <3> QED
      BY <3>3, <3>4
  <2> QED
    BY <2>2, <2>3
<1> QED
  BY <1>5, <1>6

\* A step that start lets begin is READY after a refresh, hence gated.
LEMMA StartIsGated ==
  ASSUME FlowInvariant, NEW o \in Order, NEW i \in Route(o), Start(o, i)
  PROVE  /\ step[o][i].readiness \notin Started
         /\ PriorComplete(step[o], i)
         /\ \A s \in ChecksOfEarlierSteps(o, i) : inspection[o][s].verdict = "PASS"
         /\ step'[o][i].readiness = "IN_PROGRESS"
         /\ \A j \in Route(o) \ {i} :
              /\ step[o][j].readiness \in Started => step'[o][j] = step[o][j]
              /\ step[o][j].readiness \notin Started => step'[o][j].readiness \notin Started
<1> USE TypeParts DEF FlowInvariant, TypeInvariant
<1> DEFINE before == MaterialRefreshed(step[o], RequiresMaterial(o), EnoughMaterial(o))
           rows == RowsAtStart(o)
<1>1. before \in [Route(o) -> StepRow]
  BY MaterialRows
<1>2. rows = FlowRefreshed(before, inspection[o], Planned[o])
  BY DEF RowsAtStart
<1>3. \A j \in Route(o) :
        /\ step[o][j].readiness \in Started => before[j] = step[o][j]
        /\ step[o][j].readiness \notin Started => before[j].readiness \notin Started
  BY RouteNonempty, MaterialRefreshedKeepsStarted DEF OrdersTyped, StepsTyped
<1> HIDE DEF before
<1>4. rows \in [Route(o) -> StepRow]
  BY <1>1, <1>2, RouteNonempty, FlowRefreshedType
<1>5. \A j \in Route(o) :
        /\ before[j].readiness \in Started => rows[j] = before[j]
        /\ before[j].readiness \notin Started => rows[j].readiness \notin Started
  BY <1>1, <1>2, RouteNonempty, FlowRefreshedKeepsStarted
<1>6. rows[i].readiness = "READY"
  BY DEF Start, CanStart
<1>7. /\ before[i].readiness \notin Started
      /\ PriorComplete(before, i)
      /\ \A s \in GatesBefore(i) : InspectionReason(inspection[o][s]) = "NO_REASON"
  BY <1>1, <1>2, <1>6, RouteNonempty, ReadyIsGated
<1> HIDE DEF rows
<1>8. step[o][i].readiness \notin Started
  BY <1>3, <1>7
<1>9. PriorComplete(step[o], i)
  BY <1>3, <1>7, RoutePrefix DEF PriorComplete, Started
<1>10. ASSUME NEW s \in ChecksOfEarlierSteps(o, i) PROVE inspection[o][s].verdict = "PASS"
  <2>1. s \in SpecsOf[o] /\ s \in InspectionSpec /\ s \in GatesBefore(i)
    BY DatabaseAssumption DEF ChecksOfEarlierSteps, GatesBefore
  <2>2. inspection[o][s].execution \notin {"ABSENT", "CANCELLED"}
    BY <2>1 DEF Start, CanStart, Executable, ChecksOpened, Live
  <2>3. InspectionReason(inspection[o][s]) = "NO_REASON"
    BY <1>7, <2>1
  <2>4. inspection[o][s].verdict \in {"NONE", "PASS", "FAIL", "HOLD"}
    BY <2>1 DEF ChecksTyped, CheckRow
  <2> QED
    BY <2>2, <2>3, <2>4 DEF InspectionReason
<1>11. step' = [step EXCEPT ![o] = [rows EXCEPT ![i].readiness = "IN_PROGRESS"]]
  BY DEF Start, CanStart, rows
<1>12. step'[o] = [rows EXCEPT ![i].readiness = "IN_PROGRESS"]
  BY <1>11 DEF OrdersTyped, StepsTyped
<1>13. step'[o][i].readiness = "IN_PROGRESS"
  BY <1>4, <1>12 DEF StepRow
<1>14. \A j \in Route(o) \ {i} : step'[o][j] = rows[j]
  BY <1>4, <1>12
<1> QED
  BY <1>3, <1>5, <1>8, <1>9, <1>10, <1>13, <1>14

\* start keeps the gates and quantities of its order.
LEMMA StartOrder ==
  ASSUME FlowInvariant, NEW o \in Order, NEW i \in Route(o), Start(o, i)
  PROVE  GatedAt(o)' /\ QuantitiesAt(o)'
<1>1. GatedAt(o) /\ QuantitiesAt(o) /\ inspection' = inspection
  BY DEF FlowInvariant, Start, CanStart, inspectionVars
<1>2. ASSUME NEW j \in Route(o), step'[o][j].readiness \in Started
      PROVE  /\ PriorComplete(step[o], j)
             /\ \A k \in 1..(j-1) : step[o][k].readiness = "COMPLETED" /\ step'[o][k] = step[o][k]
             /\ \A s \in ChecksOfEarlierSteps(o, j) : inspection[o][s].verdict = "PASS"
             /\ j # i => step'[o][j] = step[o][j]
  <2>1. j # i => step[o][j].readiness \in Started /\ step'[o][j] = step[o][j]
    BY <1>2, StartIsGated
  <2>2. /\ PriorComplete(step[o], j)
        /\ \A s \in ChecksOfEarlierSteps(o, j) : inspection[o][s].verdict = "PASS"
    BY <1>1, <2>1, StartIsGated DEF GatedAt
  <2>3. \A k \in 1..(j-1) : step[o][k].readiness = "COMPLETED" /\ k \in Route(o)
    BY <2>2, RoutePrefix DEF PriorComplete
  <2>4. \A k \in 1..(j-1) : step'[o][k] = step[o][k]
    BY <2>3, StartIsGated DEF Started
  <2> QED
    BY <2>1, <2>2, <2>3, <2>4
<1>3. GatedAt(o)'
  BY <1>1, <1>2 DEF GatedAt, PriorComplete, ChecksOfEarlierSteps
<1>4. QuantitiesAt(o)'
  <2> SUFFICES ASSUME NEW j \in Route(o), step'[o][j].readiness = "COMPLETED"
               PROVE  /\ step'[o][j].good \in Nat /\ step'[o][j].good <= Planned[o]
                      /\ step'[o][j].good + step'[o][j].defect =
                           (IF j = 1 THEN Planned[o] ELSE step'[o][j-1].good)
    BY DEF QuantitiesAt
  <2>1. j # i
    BY StartIsGated
  <2>2. step'[o][j] = step[o][j] /\ (j # 1 => step'[o][j-1] = step[o][j-1])
    BY <1>2, <2>1, RoutePrefix DEF Started
  <2> QED
    BY <1>1, <2>2 DEF QuantitiesAt
<1> QED
  BY <1>3, <1>4

-----------------------------------------------------------------------------
(* THE FLOW OF A LOT *)

\* Commands on o do not touch the rows of another order.
LEMMA OthersUntouched ==
  ASSUME TypeOK, NEW o \in Order, OrderStep(o), NEW p \in Order \ {o}
  PROVE  /\ step'[p] = step[p] /\ order'[p] = order[p]
         /\ inspection'[p] = inspection[p] /\ decisions'[p] = decisions[p]
<1> USE TypeParts DEF ChecksTyped, inspectionVars
<1>1. ASSUME NEW checks, NEW enough, MaterialAndFlowProjected(o, checks, enough)
      PROVE  step'[p] = step[p] /\ order'[p] = order[p]
  BY <1>1, MaterialRows, ProjectedRows DEF MaterialAndFlowProjected
<1>2. CASE Release(o)
  BY <1>2 DEF Release, CanRelease, OrdersTyped, StepsTyped
<1>3. CASE Cancel(o)
  BY <1>3 DEF Cancel, CanCancel, OrdersTyped
<1>4. CASE \E l \in Lot, a \in Allocation, quantity \in Nat \ {0} : Reserve(o, l, a, quantity)
  BY <1>1, <1>4 DEF Reserve, CanReserve
<1>5. CASE \E i \in Route(o) : Start(o, i)
  BY <1>5 DEF Start, CanStart, OrdersTyped, StepsTyped
<1>6. CASE \E i \in Route(o), good, defect \in Nat : Complete(o, i, good, defect)
  BY <1>6, CompletedRowsType, ProjectedRows DEF Complete, CanComplete, CompletedRows
<1>7. ASSUME NEW s \in InspectionSpec, NEW verdict, Verdict(o, s, verdict) \/ Review(o, s, verdict)
      PROVE  /\ step'[p] = step[p] /\ order'[p] = order[p]
             /\ inspection'[p] = inspection[p] /\ decisions'[p] = decisions[p]
  BY <1>1, <1>7 DEF Verdict, CanDecide, Review, CanReview, VerdictProjected
<1> QED
  BY <1>2, <1>3, <1>4, <1>5, <1>6, <1>7, OrderStepCases

\* An order that another command leaves alone keeps its invariant.
LEMMA SameOrder ==
  ASSUME NEW p \in Order, ChecksOpened(p), GatedAt(p), QuantitiesAt(p),
         step'[p] = step[p], order'[p] = order[p], inspection'[p] = inspection[p]
  PROVE  ChecksOpened(p)' /\ GatedAt(p)' /\ QuantitiesAt(p)'
BY DEF ChecksOpened, Live, GatedAt, QuantitiesAt, ChecksOfEarlierSteps

\* A refresh brings no order to life, and verdicts open what they decide.
LEMMA RefreshKeepsChecksOpened ==
  ASSUME TypeOK, NEW o \in Order, ChecksOpened(o), NEW checks, NEW rows \in [Route(o) -> StepRow],
         FlowProjected(o, rows, checks),
         \A s \in SpecsOf[o] :
           inspection[o][s].execution \notin {"ABSENT", "CANCELLED"} =>
             inspection'[o][s].execution \notin {"ABSENT", "CANCELLED"}
  PROVE  ChecksOpened(o)'
<1>1. order[o].status \in {"DRAFT", "RELEASED", "IN_PROGRESS", "COMPLETED", "CANCELLED"}
  BY TypeParts DEF OrdersTyped, OrderRow
<1>2. Live(o)' => Live(o)
  BY <1>1, TypeParts, ProjectedRows DEF Live
<1> QED
  BY <1>2 DEF ChecksOpened

\* The commands on an order keep the inspections of a live order open or decided.
LEMMA OrderStepChecksOpened ==
  ASSUME FlowInvariant, NEW o \in Order, OrderStep(o) PROVE ChecksOpened(o)'
<1> USE TypeParts DEF FlowInvariant, TypeInvariant, ChecksTyped, inspectionVars
<1>1. CASE Release(o)
  BY <1>1, DatabaseAssumption DEF Release, CanRelease, ChecksOpened
<1>2. CASE Cancel(o)
  BY <1>2 DEF Cancel, CanCancel, ChecksOpened, Live, OrdersTyped, OrderRow
<1>3. CASE \E l \in Lot, a \in Allocation, quantity \in Nat \ {0} : Reserve(o, l, a, quantity)
  BY <1>3, MaterialRows, RefreshKeepsChecksOpened DEF Reserve, CanReserve,
                                                      MaterialAndFlowProjected
<1>4. CASE \E i \in Route(o) : Start(o, i)
  BY <1>4 DEF Start, CanStart, Executable, ChecksOpened, Live
<1>5. CASE \E i \in Route(o), good, defect \in Nat : Complete(o, i, good, defect)
  BY <1>5, CompletedRowsType, RefreshKeepsChecksOpened DEF Complete, CanComplete,
                                                           CompletedRows
<1>6. ASSUME NEW s \in InspectionSpec, NEW verdict, VerdictProjected(o, s, verdict)
      PROVE  ChecksOpened(o)'
  <2>1. \A r \in SpecsOf[o] :
          inspection[o][r].execution \notin {"ABSENT", "CANCELLED"} =>
            inspection'[o][r].execution \notin {"ABSENT", "CANCELLED"}
    BY <1>6, DatabaseAssumption DEF VerdictProjected
  <2> QED
    BY <1>6, <2>1, MaterialRows, RefreshKeepsChecksOpened
       DEF VerdictProjected, MaterialAndFlowProjected
<1> QED
  BY <1>1, <1>2, <1>3, <1>4, <1>5, <1>6, OrderStepCases DEF Verdict, CanDecide, Review,
                                                            CanReview

\* The commands on an order keep its gates and quantities.
LEMMA OrderStepGated ==
  ASSUME FlowInvariant, NEW o \in Order, OrderStep(o) PROVE GatedAt(o)' /\ QuantitiesAt(o)'
<1> USE TypeParts DEF FlowInvariant, TypeInvariant
<1>1. ChecksAdvance
  BY OrderStepVerdicts
<1>2. ASSUME KeepsStarted(o) PROVE GatedAt(o)' /\ QuantitiesAt(o)'
  BY <1>1, <1>2, StableOrder
<1>3. CASE Release(o)
  <2>1. \A i \in Route(o) : step'[o][i].readiness \notin Started
    BY <1>3 DEF Release, CanRelease, ReleasedStep, NoStep, Started, OrdersTyped,
                StepsTyped
  <2> QED
    BY <2>1 DEF GatedAt, QuantitiesAt, Started
<1>4. CASE Cancel(o)
  BY <1>2, <1>4 DEF Cancel, CanCancel, KeepsStarted
<1>5. CASE \E l \in Lot, a \in Allocation, quantity \in Nat \ {0} : Reserve(o, l, a, quantity)
  BY <1>2, <1>5, ProjectedKeepsStarted DEF Reserve, CanReserve
<1>6. CASE \E i \in Route(o) : Start(o, i)
  BY <1>6, StartOrder
<1>7. CASE \E i \in Route(o), good, defect \in Nat :
             good <= Planned[o] /\ defect <= Planned[o] /\ Complete(o, i, good, defect)
  BY <1>7, CompleteOrder
<1>8. ASSUME NEW s, NEW verdict, VerdictProjected(o, s, verdict)
      PROVE  GatedAt(o)' /\ QuantitiesAt(o)'
  BY <1>2, <1>8, ProjectedKeepsStarted DEF VerdictProjected
<1> QED
  BY <1>3, <1>4, <1>5, <1>6, <1>7, <1>8, OrderStepCases DEF Verdict, CanDecide, Review,
                                                            CanReview

\* The seeded orders, imported ones included, satisfy the invariant.
LEMMA InitFlowInvariant == Init => FlowInvariant
<1> SUFFICES ASSUME Init, NEW o \in Order PROVE ChecksOpened(o) /\ GatedAt(o) /\ QuantitiesAt(o)
  BY InitTypeInvariant DEF FlowInvariant
<1>1. \A i \in Route(o) :
        /\ step[o][i].readiness \in Started => i = 1
        /\ step[o][i].readiness # "COMPLETED"
  BY DEF Init, SeedStep, NoStep, Started
<1>2. ChecksOpened(o)
  BY DatabaseAssumption DEF Init, SeedCheck, ChecksOpened, Live
<1>3. GatedAt(o)
  BY <1>1 DEF GatedAt, PriorComplete, ChecksOfEarlierSteps
<1>4. QuantitiesAt(o)
  BY <1>1 DEF QuantitiesAt
<1> QED
  BY <1>2, <1>3, <1>4

\* Every step preserves the invariant.
LEMMA NextFlowInvariant == FlowInvariant /\ [Next]_vars => FlowInvariant'
<1> SUFFICES ASSUME FlowInvariant, [Next]_vars PROVE FlowInvariant'
  OBVIOUS
<1> USE DEF FlowInvariant
<1>1. TypeInvariant'
  BY NextTypeInvariant
<1>2. ASSUME NEW o \in Order, OrderStep(o), NEW p \in Order
      PROVE  ChecksOpened(p)' /\ GatedAt(p)' /\ QuantitiesAt(p)'
  <2>1. CASE p = o
    BY <1>2, <2>1, OrderStepChecksOpened, OrderStepGated
  <2>2. CASE p # o
    BY <1>2, <2>2, OthersUntouched, SameOrder DEF TypeInvariant
  <2> QED
    BY <2>1, <2>2
<1>3. ASSUME NEW a \in Allocation, ReleaseReservation(a), NEW p \in Order
      PROVE  ChecksOpened(p)' /\ GatedAt(p)' /\ QuantitiesAt(p)'
  <2>1. PICK o \in Order : o = alloc[a].order
    BY <1>3, TypeParts DEF ReleaseReservation, CanDissolve, AllocationsTyped, Active,
                           TypeInvariant
  <2>2. /\ \E enough : MaterialAndFlowProjected(o, inspection[o], enough)
        /\ inspection' = inspection /\ ChecksAdvance
    <3>1. MaterialAndFlowProjected(alloc[a].order, inspection[alloc[a].order],
                                   EnoughMaterial(alloc[a].order)')
      BY <1>3 DEF ReleaseReservation, CanDissolve, ReservationDissolved
    <3>2. inspection' = inspection /\ ChecksAdvance
      BY <1>3, NextVerdicts DEF ReleaseReservation, CanDissolve, inspectionVars
    <3> QED
      BY <2>1, <3>1, <3>2
  <2>3. CASE p = o
    <3>1. KeepsStarted(o)
      BY <2>2, ProjectedKeepsStarted DEF TypeInvariant
    <3>2. ChecksOpened(o)'
      BY <2>2, TypeParts, MaterialRows, RefreshKeepsChecksOpened
         DEF MaterialAndFlowProjected, TypeInvariant
    <3> QED
      BY <2>2, <2>3, <3>1, <3>2, StableOrder
  <2>4. CASE p # o
    <3>1. step'[p] = step[p] /\ order'[p] = order[p]
      BY <2>2, <2>4, TypeParts, MaterialRows, ProjectedRows
         DEF MaterialAndFlowProjected, TypeInvariant
    <3> QED
      BY <2>2, <3>1, SameOrder
  <2> QED
    BY <2>3, <2>4
<1>4. ASSUME UNCHANGED <<productionVars, inspectionVars>>, NEW p \in Order
      PROVE  ChecksOpened(p)' /\ GatedAt(p)' /\ QuantitiesAt(p)'
  BY <1>4, SameOrder DEF productionVars, inspectionVars
<1>5. Next \/ UNCHANGED vars =>
        \/ \E o \in Order : OrderStep(o)
        \/ \E a \in Allocation : ReleaseReservation(a)
        \/ UNCHANGED <<productionVars, inspectionVars>>
  BY DueDateKeepsRows
     DEF Next, Expire, InspectorStep, DecideRead, DecideCount, DecideUpdate, RegisterRead,
     QuarantineUpdate, CountIncidents, RegisterCommit, Rollback, productionVars,
     inspectionVars, vars
<1> QED
  BY <1>1, <1>2, <1>3, <1>4, <1>5

\* The gates and quantities of every order, for every interleaving of commands.
THEOREM FlowInvariantHolds == Spec => []FlowInvariant
<1> QED
  BY InitFlowInvariant, NextFlowInvariant, PTL DEF Spec

(***************************************************************************)
(* RULE-11 and RULE-30: a step that has begun has all its predecessors     *)
(* completed and all their gate inspections passed (start in               *)
(* process-commands.service.ts).                                           *)
(***************************************************************************)
THEOREM StepsAreGated == Spec => []StartedStepGated
<1>1. FlowInvariant => StartedStepGated
  BY DEF FlowInvariant, GatedAt, StartedStepGated
<1> QED
  BY <1>1, FlowInvariantHolds, PTL

(***************************************************************************)
(* RULE-12: the output of a completed step accounts for the good output of *)
(* its predecessor (outputQuantityLimit and complete).                     *)
(***************************************************************************)
THEOREM QuantitiesAddUp == Spec => []QuantityChain
<1>1. FlowInvariant => QuantityChain
  BY DEF FlowInvariant, QuantitiesAt, QuantityChain
<1> QED
  BY <1>1, FlowInvariantHolds, PTL

-----------------------------------------------------------------------------
(* DERIVED STATUS *)

StatusDerived(o) == Live(o) => order[o].status = StatusOf(step[o], inspection[o])

\* The rows of an order have the domain of its route.
LEMMA RowsOfRoute ==
  ASSUME StepsTyped, NEW o \in Order
  PROVE  /\ DOMAIN step[o] = Route(o)
         /\ AnyStarted(step[o]) <=> \E i \in Route(o) : step[o][i].readiness \in Started
         /\ AllCompleted(step[o]) <=> \A i \in Route(o) : step[o][i].readiness = "COMPLETED"
BY DEF StepsTyped, AnyStarted, AllCompleted

LEMMA RowsOfRouteNext ==
  ASSUME StepsTyped', NEW o \in Order
  PROVE  /\ AnyStarted(step'[o]) <=> \E i \in Route(o) : step'[o][i].readiness \in Started
         /\ AllCompleted(step'[o]) <=> \A i \in Route(o) : step'[o][i].readiness = "COMPLETED"
BY DEF StepsTyped, AnyStarted, AllCompleted

\* The status a refresh derives, by the rows it derives it from.
LEMMA StatusByRows ==
  ASSUME StepsTyped, NEW o \in Order, NEW checks
  PROVE  /\ StatusOf(step[o], checks) \in {"RELEASED", "IN_PROGRESS", "COMPLETED"}
         /\ StatusOf(step[o], checks) = "RELEASED" <=> ~ AnyStarted(step[o])
         /\ StatusOf(step[o], checks) = "COMPLETED" =>
              AllCompleted(step[o]) /\ InspectionReasons(checks, InspectionSpec) = {}
<1>1. AllCompleted(step[o]) => AnyStarted(step[o])
  BY RowsOfRoute, RouteNonempty DEF Started
<1> QED
  BY <1>1 DEF StatusOf

LEMMA StatusByRowsNext ==
  ASSUME StepsTyped', NEW o \in Order, NEW checks
  PROVE  /\ StatusOf(step'[o], checks) \in {"RELEASED", "IN_PROGRESS", "COMPLETED"}
         /\ StatusOf(step'[o], checks) = "RELEASED" <=> ~ AnyStarted(step'[o])
         /\ StatusOf(step'[o], checks) = "COMPLETED" => AllCompleted(step'[o])
<1>1. AllCompleted(step'[o]) => AnyStarted(step'[o])
  BY RowsOfRouteNext, RouteNonempty DEF Started
<1> QED
  BY <1>1 DEF StatusOf

\* A command that refreshes a live order, beginning and ending no step of it.
Refreshed(o) ==
  /\ Live(o)
  /\ KeepsStarted(o)
  /\ order'[o].status = StatusOf(step'[o], inspection'[o])

\* A refresh leaves a released order released, and one with an open step in progress.
LEMMA RefreshedStatus ==
  ASSUME StepsTyped, StepsTyped', NEW o \in Order, StatusDerived(o), Refreshed(o)
  PROVE  /\ order[o].status = "RELEASED" => order'[o].status = "RELEASED"
         /\ order[o].status = "IN_PROGRESS" => order'[o].status \in {"IN_PROGRESS", "COMPLETED"}
         /\ order[o].status = "IN_PROGRESS" /\ (\E i \in Route(o) : step[o][i].readiness \notin Started)
              => order'[o].status = "IN_PROGRESS"
<1>1. AnyStarted(step'[o]) <=> AnyStarted(step[o])
  BY RowsOfRoute, RowsOfRouteNext DEF Refreshed, KeepsStarted
<1>2. (\E i \in Route(o) : step[o][i].readiness \notin Started) => ~ AllCompleted(step'[o])
  BY RowsOfRouteNext DEF Refreshed, KeepsStarted, Started
<1>3. /\ order[o].status = StatusOf(step[o], inspection[o])
      /\ order'[o].status = StatusOf(step'[o], inspection'[o])
  BY DEF StatusDerived, Refreshed
<1> QED
  BY <1>1, <1>2, <1>3, StatusByRows, StatusByRowsNext

\* The refreshes of reserve, verdict, review and the release of a reservation.
LEMMA MaterialAndFlowRefreshes ==
  ASSUME TypeOK, NEW o \in Order, Live(o), NEW checks, NEW enough, checks = inspection'[o],
         MaterialAndFlowProjected(o, checks, enough)
  PROVE  Refreshed(o)
<1>1. KeepsStarted(o)
  BY ProjectedKeepsStarted
<1>2. order'[o] = OrderRefreshed(step'[o], checks)
  BY TypeParts, MaterialRows, ProjectedRows DEF MaterialAndFlowProjected, Live
<1>3. order'[o].status = StatusOf(step'[o], checks)
  BY <1>2 DEF OrderRefreshed
<1> QED
  BY <1>1, <1>3 DEF Refreshed

-----------------------------------------------------------------------------
(* RESERVATIONS *)

\* The order of an active reservation has not begun.  An imported order may
\* hold its seeded reservation until its second step begins.
ClaimJustified(a) ==
  LET o == alloc[a].order IN
  \/ order[o].status = "RELEASED"
  \/ /\ o \in Imported /\ a = SeedReservation[o].id
     /\ order[o].status = "IN_PROGRESS"
     /\ step[o][2].readiness \notin Started

ClaimsJustified == \A a \in Active : ClaimJustified(a)

\* Nothing was consumed for an order that has not begun.
NothingConsumed(o) ==
  order[o].status \in {"DRAFT", "RELEASED", "CANCELLED"} => \A l \in Lot : consumed[o][l] = 0

\* The inspections of a cancelled order are closed.
ChecksClosed(o) ==
  order[o].status = "CANCELLED" => \A s \in InspectionSpec : ~ Undecided(inspection[o][s])

LifeInvariant ==
  /\ FlowInvariant
  /\ ClaimsJustified
  /\ \A o \in Order : StatusDerived(o) /\ NothingConsumed(o) /\ ChecksClosed(o)

\* What a command does to its order, by kind.
OrderEffect(o) ==
  \/ Release(o)
  \/ Cancel(o)
  \/ /\ Refreshed(o) /\ order[o].status \in {"RELEASED", "IN_PROGRESS"}
     /\ alloc' = alloc /\ consumed' = consumed
  \/ /\ Refreshed(o) /\ order[o].status = "RELEASED"
     /\ consumed' = consumed
     /\ \E l \in Lot, a \in Allocation, quantity \in Nat \ {0} : Reserve(o, l, a, quantity)
  \/ \E i \in Route(o) : Start(o, i)
  \/ \E i \in Route(o), good, defect \in Nat : Complete(o, i, good, defect)

\* The commands on an order, seen from its life.
LEMMA OrderStepEffect ==
  ASSUME TypeOK, NEW o \in Order, OrderStep(o) PROVE OrderEffect(o)
<1>1. ASSUME NEW l \in Lot, NEW a \in Allocation, NEW quantity \in Nat \ {0},
             Reserve(o, l, a, quantity)
      PROVE  OrderEffect(o)
  <2>1. /\ order[o].status = "RELEASED" /\ consumed' = consumed
        /\ inspection' = inspection /\ Live(o)
    BY <1>1 DEF Reserve, CanReserve, Reservable, Live, inspectionVars
  <2>2. Refreshed(o)
    BY <1>1, <2>1, MaterialAndFlowRefreshes DEF Reserve, CanReserve
  <2> QED
    BY <1>1, <2>1, <2>2 DEF OrderEffect
<1>2. ASSUME NEW s \in InspectionSpec, NEW verdict, VerdictProjected(o, s, verdict),
             Eligible(o, s), UNCHANGED <<inventoryVars, consumed>>
      PROVE  OrderEffect(o)
  <2>1. /\ order[o].status \in {"RELEASED", "IN_PROGRESS"} /\ Live(o)
        /\ alloc' = alloc /\ consumed' = consumed
    BY <1>2 DEF Eligible, Live, inventoryVars
  <2>2. Refreshed(o)
    BY <1>2, <2>1, MaterialAndFlowRefreshes DEF VerdictProjected
  <2> QED
    BY <2>1, <2>2 DEF OrderEffect
<1> QED
  BY <1>1, <1>2, OrderStepCases DEF Verdict, CanDecide, Review, CanReview, OrderEffect

\* A started order is in progress.
LEMMA StartedStatus ==
  ASSUME TypeOK, NEW o \in Order, NEW i \in Route(o), Start(o, i)
  PROVE  order'[o].status = "IN_PROGRESS" /\ order[o].status \in {"RELEASED", "IN_PROGRESS"}
<1>1. [OrderRefreshed(RowsAtStart(o), inspection[o]) EXCEPT
         !.status = "IN_PROGRESS", !.currentStep = i].status = "IN_PROGRESS"
  BY DEF OrderRefreshed
<1> QED
  BY <1>1, TypeParts DEF Start, CanStart, Executable, OrdersTyped

\* A result keeps its order in progress or completes it.
LEMMA CompletedStatus ==
  ASSUME TypeOK, TypeOK', NEW o \in Order, NEW i \in Route(o), NEW good \in Nat,
         NEW defect \in Nat, Complete(o, i, good, defect)
  PROVE  /\ order[o].status = "IN_PROGRESS"
         /\ order'[o].status = StatusOf(step'[o], inspection'[o])
         /\ order'[o].status \in {"IN_PROGRESS", "COMPLETED"}
<1>1. order[o].status = "IN_PROGRESS" /\ inspection' = inspection
  BY DEF Complete, CanComplete, inspectionVars
<1>2. order'[o] = OrderRefreshed(step'[o], inspection[o])
  <2>1. /\ CompletedRows(o, i, good, defect) \in [Route(o) -> StepRow]
        /\ FlowProjected(o, CompletedRows(o, i, good, defect), inspection[o])
    BY TypeParts, CompletedRowsType DEF Complete, CanComplete, CompletedRows
  <2> QED
    BY <1>1, <2>1, TypeParts, ProjectedRows
<1>3. order'[o].status = StatusOf(step'[o], inspection'[o])
  BY <1>1, <1>2 DEF OrderRefreshed
<1>4. StepsTyped'
  BY TypeParts DEF OrdersTyped
<1>5. AnyStarted(step'[o])
  BY <1>4, ProjectedAfterComplete, RowsOfRouteNext DEF Started
<1> QED
  BY <1>1, <1>3, <1>4, <1>5, StatusByRowsNext

\* The status of an order moves along the documented edges.
LEMMA OrderStepStatus ==
  ASSUME LifeInvariant, TypeOK', NEW o \in Order, OrderStep(o)
  PROVE  order'[o].status # order[o].status => <<order[o].status, order'[o].status>> \in LegalStatus
<1> USE DEF LifeInvariant, FlowInvariant, TypeInvariant, LegalStatus
<1>1. CASE Release(o)
  <2>1. order[o].status = "DRAFT" /\ order'[o].status = "RELEASED"
    BY <1>1, TypeParts DEF Release, CanRelease, OrdersTyped
  <2> QED
    BY <2>1
<1>2. CASE Cancel(o)
  <2>1. order[o].status \in {"DRAFT", "RELEASED"} /\ order'[o].status = "CANCELLED"
    BY <1>2, TypeParts DEF Cancel, CanCancel, Cancellable, OrdersTyped, OrderRow
  <2> QED
    BY <2>1
<1>3. CASE Refreshed(o) /\ order[o].status \in {"RELEASED", "IN_PROGRESS"}
  BY <1>3, TypeParts, RefreshedStatus DEF OrdersTyped
<1>4. CASE \E i \in Route(o) : Start(o, i)
  BY <1>4, StartedStatus
<1>5. CASE \E i \in Route(o), good, defect \in Nat : Complete(o, i, good, defect)
  BY <1>5, CompletedStatus
<1> QED
  BY <1>1, <1>2, <1>3, <1>4, <1>5, OrderStepEffect DEF OrderEffect

-----------------------------------------------------------------------------
(* THE LIFE OF AN ORDER *)

\* Where no row of an order changes, what the invariant says of it holds on.
LEMMA SameLife ==
  ASSUME NEW p \in Order, StatusDerived(p), NothingConsumed(p), ChecksClosed(p),
         step'[p] = step[p], order'[p] = order[p], inspection'[p] = inspection[p],
         consumed'[p] = consumed[p]
  PROVE  StatusDerived(p)' /\ NothingConsumed(p)' /\ ChecksClosed(p)'
BY DEF StatusDerived, Live, NothingConsumed, ChecksClosed

\* The commands on an order write no CONSUME relation of another one.
LEMMA OthersNotConsumed ==
  ASSUME TypeOK, NEW o \in Order, OrderStep(o), NEW p \in Order \ {o}
  PROVE  consumed'[p] = consumed[p]
BY TypeParts, OrderStepCases
   DEF Release, CanRelease, Cancel, CanCancel, Reserve, CanReserve, Start, CanStart,
       Complete, CanComplete, Verdict, CanDecide, Review, CanReview, OrdersTyped

\* The status stays derived, an order that has not begun consumed nothing, and
\* the inspections of a cancelled order are closed.
LEMMA OrderStepLife ==
  ASSUME LifeInvariant, TypeOK', NEW o \in Order, OrderStep(o)
  PROVE  StatusDerived(o)' /\ NothingConsumed(o)' /\ ChecksClosed(o)'
<1> USE TypeParts DEF LifeInvariant, FlowInvariant, TypeInvariant
<1>1. CASE Release(o)
  <2>1. /\ order[o].status = "DRAFT" /\ order'[o].status = "RELEASED"
        /\ consumed' = consumed
    BY <1>1 DEF Release, CanRelease, OrdersTyped
  <2>2. \A i \in Route(o) : step'[o][i].readiness \notin Started
    BY <1>1 DEF Release, CanRelease, ReleasedStep, NoStep, Started, OrdersTyped,
                StepsTyped
  <2>3. StatusOf(step'[o], inspection'[o]) = "RELEASED"
    BY <2>2, RowsOfRouteNext, StatusByRowsNext DEF OrdersTyped
  <2> QED
    BY <2>1, <2>3 DEF StatusDerived, NothingConsumed, ChecksClosed
<1>2. CASE Cancel(o)
  <2>1. /\ order[o].status \in {"DRAFT", "RELEASED"} /\ order'[o].status = "CANCELLED"
        /\ consumed' = consumed
    BY <1>2 DEF Cancel, CanCancel, Cancellable, OrdersTyped, OrderRow
  <2>2. \A s \in InspectionSpec : ~ Undecided(inspection'[o][s])
    <3>1. inspection'[o] = OpenChecksCancelled(o)
      BY <1>2 DEF Cancel, CanCancel, ChecksTyped
    <3>2. \A s \in InspectionSpec : inspection[o][s] \in CheckRow
      BY DEF ChecksTyped
    <3> QED
      BY <3>1, <3>2 DEF OpenChecksCancelled, Undecided, CheckRow
  <2> QED
    BY <2>1, <2>2 DEF StatusDerived, Live, NothingConsumed, ChecksClosed
<1>3. CASE Refreshed(o) /\ order[o].status \in {"RELEASED", "IN_PROGRESS"} /\ consumed' = consumed
  <2>1. order'[o].status \in {"RELEASED", "IN_PROGRESS", "COMPLETED"}
    BY <1>3, RefreshedStatus DEF OrdersTyped
  <2>2. order'[o].status = "RELEASED" => order[o].status = "RELEASED"
    BY <1>3, RefreshedStatus DEF OrdersTyped
  <2> QED
    BY <1>3, <2>1, <2>2 DEF StatusDerived, Refreshed, NothingConsumed, ChecksClosed
<1>4. ASSUME NEW i \in Route(o), Start(o, i)
      PROVE  StatusDerived(o)' /\ NothingConsumed(o)' /\ ChecksClosed(o)'
  <2>1. order'[o].status = "IN_PROGRESS"
    BY <1>4, StartedStatus
  <2>2. step'[o][i].readiness = "IN_PROGRESS"
    BY <1>4, StartIsGated
  <2>3. StatusOf(step'[o], inspection'[o]) = "IN_PROGRESS"
    BY <2>2, RowsOfRouteNext, StatusByRowsNext DEF OrdersTyped, Started
  <2> QED
    BY <2>1, <2>3 DEF StatusDerived, NothingConsumed, ChecksClosed
<1>5. CASE \E i \in Route(o), good, defect \in Nat : Complete(o, i, good, defect)
  BY <1>5, CompletedStatus DEF StatusDerived, NothingConsumed, ChecksClosed
<1> QED
  BY <1>1, <1>2, <1>3, <1>4, <1>5, OrderStepEffect DEF OrderEffect

\* A refresh of the order of a reservation keeps the reservation justified.
LEMMA RefreshKeepsClaim ==
  ASSUME StepsTyped, StepsTyped', NEW o \in Order, StatusDerived(o), Refreshed(o),
         NEW a \in Allocation, alloc[a].order = o, alloc'[a].order = o, ClaimJustified(a)
  PROVE  ClaimJustified(a)'
<1>1. CASE order[o].status = "RELEASED"
  BY <1>1, RefreshedStatus DEF ClaimJustified
<1>2. CASE /\ o \in Imported /\ a = SeedReservation[o].id
           /\ order[o].status = "IN_PROGRESS" /\ step[o][2].readiness \notin Started
  <2>1. 2 \in Route(o)
    BY <1>2, DatabaseAssumption DEF Route
  <2>2. order'[o].status = "IN_PROGRESS"
    BY <1>2, <2>1, RefreshedStatus
  <2>3. step'[o][2].readiness \notin Started
    BY <1>2, <2>1 DEF Refreshed, KeepsStarted
  <2> QED
    BY <1>2, <2>2, <2>3 DEF ClaimJustified
<1> QED
  BY <1>1, <1>2 DEF ClaimJustified

\* Commands on an order keep every reservation justified: those of other orders
\* are untouched, its own are closed by cancel and start.
LEMMA OrderStepClaims ==
  ASSUME LifeInvariant, TypeOK', NEW o \in Order, OrderStep(o)
  PROVE  ClaimsJustified'
<1> USE TypeParts DEF LifeInvariant, FlowInvariant, TypeInvariant
<1>1. ASSUME NEW a \in Allocation, alloc'[a] = alloc[a], alloc[a].status = "ACTIVE",
             alloc[a].order # o
      PROVE  ClaimJustified(a)'
  <2>1. PICK p \in Order \ {o} : p = alloc[a].order
    BY <1>1 DEF AllocationsTyped, Active
  <2>2. step'[p] = step[p] /\ order'[p] = order[p]
    BY OthersUntouched
  <2>3. ClaimJustified(a)
    BY <1>1 DEF ClaimsJustified, Active
  <2> QED
    BY <1>1, <2>1, <2>2, <2>3 DEF ClaimJustified
<1>2. ASSUME alloc' = alloc, NEW a \in Allocation, alloc[a].status = "ACTIVE",
             alloc[a].order = o
      PROVE  ClaimJustified(a)'
  <2>1. ClaimJustified(a)
    BY <1>2 DEF ClaimsJustified, Active
  <2>2. ~ Release(o)
    BY <1>2, <2>1 DEF ClaimJustified, Release, CanRelease
  <2>3. CASE Refreshed(o)
    BY <1>2, <2>1, <2>3, RefreshKeepsClaim DEF OrdersTyped
  <2>4. ASSUME NEW i \in Route(o), NEW good \in Nat, NEW defect \in Nat,
               Complete(o, i, good, defect)
        PROVE  ClaimJustified(a)'
    <3>1. order[o].status = "IN_PROGRESS" /\ step[o][i].readiness = "IN_PROGRESS"
      BY <2>4 DEF Complete, CanComplete
    <3>2. /\ o \in Imported /\ a = SeedReservation[o].id
          /\ step[o][2].readiness \notin Started
      BY <1>2, <2>1, <3>1 DEF ClaimJustified
    <3>3. 2 \in Route(o) \ {i}
      BY <3>1, <3>2, DatabaseAssumption DEF Route, Started
    <3>4. step'[o][2].readiness \notin Started
      BY <2>4, <3>2, <3>3, ProjectedAfterComplete
    <3>5. order'[o].status = "IN_PROGRESS"
      BY <2>4, <3>3, <3>4, CompletedStatus, StatusByRowsNext, RowsOfRouteNext
         DEF OrdersTyped, Started
    <3> QED
      BY <1>2, <3>2, <3>4, <3>5 DEF ClaimJustified
  <2>5. ~ (\E i \in Route(o) : Start(o, i)) /\ ~ Cancel(o)
    <3>1. a \in HeldBy(o)
      BY <1>2 DEF HeldBy, Active
    <3>2. ASSUME Closed(HeldBy(o), "FULFILLED") = alloc \/ Closed(HeldBy(o), "CANCELLED") = alloc
          PROVE  FALSE
      <4>1. alloc[a] \in AllocationRow
        BY DEF AllocationsTyped
      <4> QED
        BY <1>2, <3>1, <3>2, <4>1 DEF Closed, AllocationRow
    <3> QED
      BY <1>2, <3>2 DEF Start, CanStart, Cancel, CanCancel
  <2>6. ~ \E l \in Lot, b \in Allocation, quantity \in Nat \ {0} : Reserve(o, l, b, quantity)
    BY <1>2 DEF Reserve, CanReserve, AllocationsTyped
  <2> QED
    BY <2>2, <2>3, <2>4, <2>5, <2>6, OrderStepEffect DEF OrderEffect
<1>3. CASE alloc' = alloc
  BY <1>1, <1>2, <1>3 DEF ClaimsJustified, Active
<1>4. ASSUME NEW reason, alloc' = Closed(HeldBy(o), reason)
      PROVE  ClaimsJustified'
  <2>1. ASSUME NEW a \in Allocation, alloc'[a].status = "ACTIVE"
        PROVE  alloc'[a] = alloc[a] /\ alloc[a].order # o
    <3>1. alloc[a] \in AllocationRow
      BY DEF AllocationsTyped
    <3>2. a \notin HeldBy(o)
      BY <1>4, <2>1, <3>1 DEF Closed, AllocationRow
    <3> QED
      BY <1>4, <2>1, <3>2 DEF Closed, HeldBy, Active
  <2> QED
    BY <1>1, <2>1 DEF ClaimsJustified, Active
<1>5. ASSUME Refreshed(o), order[o].status = "RELEASED",
             NEW l \in Lot, NEW b \in Allocation, NEW quantity \in Nat, Reserve(o, l, b, quantity)
      PROVE  ClaimsJustified'
  <2>1. order'[o].status = "RELEASED"
    BY <1>5, RefreshedStatus DEF OrdersTyped
  <2>2. /\ alloc'[b].order = o
        /\ \A a \in Allocation \ {b} : alloc'[a] = alloc[a]
    BY <1>5 DEF Reserve, CanReserve, AllocationsTyped
  <2>3. ASSUME NEW a \in Allocation, alloc'[a].order = o PROVE ClaimJustified(a)'
    BY <2>1, <2>3 DEF ClaimJustified
  <2> QED
    BY <1>1, <2>2, <2>3 DEF ClaimsJustified, Active
<1>6. alloc' = alloc \/ (\E reason : alloc' = Closed(HeldBy(o), reason))
        \/ \E l \in Lot, a \in Allocation, quantity \in Nat \ {0} : Reserve(o, l, a, quantity)
  BY OrderStepCases DEF Release, CanRelease, Cancel, CanCancel, Start, CanStart,
                        Complete, CanComplete, Verdict, CanDecide, Review, CanReview,
                        inventoryVars
<1>7. CASE \E l \in Lot, a \in Allocation, quantity \in Nat \ {0} : Reserve(o, l, a, quantity)
  <2>1. PICK l \in Lot, a \in Allocation, quantity \in Nat \ {0} : Reserve(o, l, a, quantity)
    BY <1>7
  <2>2. order[o].status = "RELEASED" /\ inspection' = inspection /\ Live(o)
    BY <2>1 DEF Reserve, CanReserve, Reservable, Live, inspectionVars
  <2>3. Refreshed(o)
    BY <2>1, <2>2, MaterialAndFlowRefreshes DEF Reserve, CanReserve
  <2> QED
    BY <1>5, <2>1, <2>2, <2>3
<1> QED
  BY <1>3, <1>4, <1>6, <1>7

\* The release of a reservation refreshes its order, which keeps its status, and
\* touches no other.
LEMMA ReleaseReservationLife ==
  ASSUME LifeInvariant, TypeOK', NEW a \in Allocation, ReleaseReservation(a)
  PROVE  /\ ClaimsJustified'
         /\ \A p \in Order :
              /\ StatusDerived(p)' /\ NothingConsumed(p)' /\ ChecksClosed(p)'
              /\ order'[p].status = order[p].status
              /\ order[p].status \notin {"RELEASED", "IN_PROGRESS"} =>
                   step'[p] = step[p] /\ HeldBy(p)' = HeldBy(p)
<1> USE TypeParts DEF LifeInvariant, FlowInvariant, TypeInvariant
<1>1. PICK o \in Order : o = alloc[a].order
  BY DEF ReleaseReservation, CanDissolve, AllocationsTyped, Active
<1>2. /\ \E enough : MaterialAndFlowProjected(o, inspection[o], enough)
      /\ inspection' = inspection /\ consumed' = consumed
      /\ alloc' = [alloc EXCEPT ![a].status = "CLOSED", ![a].reason = "RELEASED"]
      /\ a \in Active
  <2>1. MaterialAndFlowProjected(alloc[a].order, inspection[alloc[a].order],
                                 EnoughMaterial(alloc[a].order)')
    BY DEF ReleaseReservation, CanDissolve, ReservationDissolved
  <2>2. /\ inspection' = inspection /\ consumed' = consumed
        /\ alloc' = [alloc EXCEPT ![a].status = "CLOSED", ![a].reason = "RELEASED"]
        /\ a \in Active
    BY DEF ReleaseReservation, CanDissolve, ReservationDissolved, inspectionVars, Active
  <2> QED
    BY <1>1, <2>1, <2>2
<1>3. ClaimJustified(a)
  BY <1>2 DEF ClaimsJustified
<1>4. order[o].status \in {"RELEASED", "IN_PROGRESS"} /\ Live(o)
  BY <1>1, <1>3 DEF ClaimJustified, Live
<1>5. Refreshed(o)
  BY <1>2, <1>4, MaterialAndFlowRefreshes
<1>6. order'[o].status = order[o].status
  <2>1. CASE order[o].status = "RELEASED"
    BY <1>5, <2>1, RefreshedStatus DEF OrdersTyped
  <2>2. CASE order[o].status # "RELEASED"
    <3>1. o \in Imported /\ order[o].status = "IN_PROGRESS" /\ step[o][2].readiness \notin Started
      BY <1>1, <1>3, <2>2 DEF ClaimJustified
    <3>2. 2 \in Route(o)
      BY <3>1, DatabaseAssumption DEF Route
    <3> QED
      BY <1>5, <3>1, <3>2, RefreshedStatus DEF OrdersTyped
  <2> QED
    BY <2>1, <2>2
<1>7. \A p \in Order \ {o} : step'[p] = step[p] /\ order'[p] = order[p]
  BY <1>2, MaterialRows, ProjectedRows DEF MaterialAndFlowProjected
<1>8. \A b \in Allocation \ {a} : alloc'[b] = alloc[b]
  BY <1>2 DEF AllocationsTyped
<1>9. a \notin Active'
  <2>1. alloc'[a].status = "CLOSED"
    BY <1>2 DEF AllocationsTyped, AllocationRow
  <2> QED
    BY <2>1 DEF Active
<1>10. ASSUME NEW p \in Order
       PROVE  /\ StatusDerived(p)' /\ NothingConsumed(p)' /\ ChecksClosed(p)'
              /\ order'[p].status = order[p].status
  <2>1. CASE p = o
    BY <1>2, <1>4, <1>5, <1>6, <2>1
       DEF Refreshed, StatusDerived, NothingConsumed, ChecksClosed
  <2>2. CASE p # o
    <3>1. step'[p] = step[p] /\ order'[p] = order[p]
      BY <1>7, <2>2
    <3> QED
      BY <1>2, <3>1, SameLife
  <2> QED
    BY <2>1, <2>2
<1>11. ASSUME NEW p \in Order, order[p].status \notin {"RELEASED", "IN_PROGRESS"}
       PROVE  step'[p] = step[p] /\ HeldBy(p)' = HeldBy(p)
  <2>1. p # o
    BY <1>4, <1>11
  <2>2. HeldBy(p)' = HeldBy(p)
    BY <1>1, <1>8, <1>9, <2>1 DEF HeldBy, Active
  <2> QED
    BY <1>7, <2>1, <2>2
<1>12. ClaimsJustified'
  <2> SUFFICES ASSUME NEW b \in Active' PROVE ClaimJustified(b)'
    BY DEF ClaimsJustified
  <2>1. b \in Allocation \ {a} /\ alloc'[b] = alloc[b]
    BY <1>8, <1>9 DEF Active
  <2>2. b \in Active /\ ClaimJustified(b)
    BY <2>1 DEF ClaimsJustified, Active
  <2>3. PICK p \in Order : p = alloc[b].order
    BY <2>2 DEF AllocationsTyped
  <2>4. CASE p = o
    BY <1>5, <2>1, <2>2, <2>3, <2>4, RefreshKeepsClaim DEF OrdersTyped, Active
  <2>5. CASE p # o
    <3>1. step'[p] = step[p] /\ order'[p] = order[p]
      BY <1>7, <2>5
    <3> QED
      BY <2>1, <2>2, <2>3, <3>1 DEF ClaimJustified
  <2> QED
    BY <2>4, <2>5
<1> QED
  BY <1>10, <1>11, <1>12

\* The rows of an imported order: the first recorded step runs, the next is held.
LEMMA ImportedRows ==
  ASSUME Init, NEW o \in Imported
  PROVE  step[o][1].readiness = "IN_PROGRESS" /\ step[o][2].readiness = "BLOCKED"
<1>1. o \in Order /\ 1 \in Route(o) /\ 2 \in Route(o)
  BY DatabaseAssumption DEF Route
<1>2. step[o][1] = SeedStep(o, 1) /\ step[o][2] = SeedStep(o, 2)
  BY <1>1 DEF Init
<1>3. /\ [NoStep EXCEPT !.readiness = "IN_PROGRESS"].readiness = "IN_PROGRESS"
      /\ [NoStep EXCEPT !.readiness = "BLOCKED",
                        !.reasons = {"INSPECTION_HELD"}].readiness = "BLOCKED"
  BY DEF NoStep
<1>4. /\ SeedStep(o, 1) = [NoStep EXCEPT !.readiness = "IN_PROGRESS"]
      /\ SeedStep(o, 2) = [NoStep EXCEPT !.readiness = "BLOCKED",
                                         !.reasons = {"INSPECTION_HELD"}]
  BY DEF SeedStep
<1> QED
  BY <1>2, <1>3, <1>4

\* The seeded orders satisfy the invariant.
LEMMA InitLifeInvariant == Init => LifeInvariant
<1> SUFFICES ASSUME Init PROVE LifeInvariant
  OBVIOUS
<1>1. FlowInvariant
  BY InitFlowInvariant
<1>2. StepsTyped
  BY <1>1, TypeParts DEF FlowInvariant, TypeInvariant, OrdersTyped
<1>3. ASSUME NEW o \in Order
      PROVE  StatusDerived(o) /\ NothingConsumed(o) /\ ChecksClosed(o)
  <2>1. CASE o \in Imported
    <3>1. order[o].status = "IN_PROGRESS" /\ 1 \in Route(o) /\ 2 \in Route(o)
      BY <2>1, DatabaseAssumption DEF Init, Route
    <3>2. step[o][1].readiness = "IN_PROGRESS" /\ step[o][2].readiness = "BLOCKED"
      BY <2>1, ImportedRows
    <3>3. StatusOf(step[o], inspection[o]) = "IN_PROGRESS"
      BY <1>2, <3>1, <3>2, RowsOfRoute, StatusByRows DEF Started
    <3> QED
      BY <3>1, <3>3 DEF StatusDerived, NothingConsumed, ChecksClosed
  <2>2. CASE o \notin Imported
    BY <2>2 DEF Init, StatusDerived, Live, NothingConsumed, ChecksClosed
  <2> QED
    BY <2>1, <2>2
<1>4. ASSUME NEW a \in Active PROVE ClaimJustified(a)
  <2>1. a \in Allocation /\ SeedAllocation(a).status = "ACTIVE" /\ alloc[a] = SeedAllocation(a)
    BY <1>4 DEF Init, Active
  <2>2. PICK o \in Imported : SeedReservation[o].id = a /\ alloc[a].order = o
    BY <2>1 DEF SeedAllocation, FreeRow
  <2>3. o \in Order /\ 2 \in Route(o)
    BY DatabaseAssumption DEF Route
  <2>4. order[o].status = "IN_PROGRESS" /\ step[o][2].readiness = "BLOCKED"
    BY <2>3, ImportedRows DEF Init
  <2> QED
    BY <2>2, <2>4 DEF ClaimJustified, Started
<1> QED
  BY <1>1, <1>3, <1>4 DEF LifeInvariant, ClaimsJustified

\* Everything but the commands of orders and reservations leaves orders alone.
LEMMA StepKinds ==
  Next \/ UNCHANGED vars =>
    \/ \E o \in Order : OrderStep(o)
    \/ \E a \in Allocation : ReleaseReservation(a)
    \/ UNCHANGED <<order, step, consumed, inspection, alloc>>
BY DueDateKeepsRows
   DEF Next, Expire, InspectorStep, DecideRead, DecideCount, DecideUpdate, RegisterRead,
       QuarantineUpdate, CountIncidents, RegisterCommit, Rollback, productionVars,
       inspectionVars, inventoryVars, vars

\* Every step preserves the invariant.
LEMMA NextLifeInvariant == LifeInvariant /\ [Next]_vars => LifeInvariant'
<1> SUFFICES ASSUME LifeInvariant, [Next]_vars PROVE LifeInvariant'
  OBVIOUS
<1>1. FlowInvariant' /\ TypeOK' /\ TypeOK
  BY NextFlowInvariant DEF LifeInvariant, FlowInvariant, TypeInvariant
<1>2. ASSUME NEW o \in Order, OrderStep(o), NEW p \in Order
      PROVE  StatusDerived(p)' /\ NothingConsumed(p)' /\ ChecksClosed(p)'
  <2>1. CASE p = o
    BY <1>1, <1>2, <2>1, OrderStepLife
  <2>2. CASE p # o
    <3>1. /\ step'[p] = step[p] /\ order'[p] = order[p]
          /\ inspection'[p] = inspection[p] /\ consumed'[p] = consumed[p]
      BY <1>1, <1>2, <2>2, OthersUntouched, OthersNotConsumed
    <3> QED
      BY <3>1, SameLife DEF LifeInvariant
  <2> QED
    BY <2>1, <2>2
<1>3. CASE \E o \in Order : OrderStep(o)
  BY <1>1, <1>2, <1>3, OrderStepClaims DEF LifeInvariant
<1>4. CASE \E a \in Allocation : ReleaseReservation(a)
  BY <1>1, <1>4, ReleaseReservationLife DEF LifeInvariant
<1>5. CASE UNCHANGED <<order, step, consumed, inspection, alloc>>
  <2>1. \A p \in Order : StatusDerived(p)' /\ NothingConsumed(p)' /\ ChecksClosed(p)'
    BY <1>5, SameLife DEF LifeInvariant
  <2>2. ClaimsJustified'
    BY <1>5 DEF LifeInvariant, ClaimsJustified, ClaimJustified, Active
  <2> QED
    BY <1>1, <2>1, <2>2 DEF LifeInvariant
<1> QED
  BY <1>3, <1>4, <1>5, StepKinds

\* The life of every order, for every interleaving of commands.
THEOREM LifeInvariantHolds == Spec => []LifeInvariant
<1> QED
  BY InitLifeInvariant, NextLifeInvariant, PTL DEF Spec

-----------------------------------------------------------------------------
(* WHAT FOLLOWS *)

(***************************************************************************)
(* RULE-14: an order is completed by its derived state only, so it has all *)
(* steps completed, every inspection passed and nothing reserved           *)
(* (refreshProductionFlow derives the status in every command).            *)
(***************************************************************************)
THEOREM CompletedIsJustified == Spec => []CompletedOrderJustified
<1>1. LifeInvariant => CompletedOrderJustified
  <2> SUFFICES ASSUME LifeInvariant, NEW o \in Order, order[o].status = "COMPLETED"
               PROVE  /\ \A i \in Route(o) : step[o][i].readiness = "COMPLETED"
                      /\ \A s \in SpecsOf[o] : inspection[o][s].verdict = "PASS"
                      /\ HeldBy(o) = {}
    BY DEF CompletedOrderJustified
  <2> USE TypeParts DEF LifeInvariant, FlowInvariant, TypeInvariant
  <2>1. order[o].status = StatusOf(step[o], inspection[o])
    BY DEF StatusDerived, Live
  <2>2. AllCompleted(step[o]) /\ InspectionReasons(inspection[o], InspectionSpec) = {}
    BY <2>1, StatusByRows DEF OrdersTyped
  <2>3. \A i \in Route(o) : step[o][i].readiness = "COMPLETED"
    BY <2>2, RowsOfRoute DEF OrdersTyped
  <2>4. ASSUME NEW s \in SpecsOf[o] PROVE inspection[o][s].verdict = "PASS"
    <3>1. s \in InspectionSpec
      BY DatabaseAssumption
    <3>2. InspectionReason(inspection[o][s]) = "NO_REASON"
      BY <2>2, <3>1 DEF InspectionReasons
    <3>3. inspection[o][s].execution \notin {"ABSENT", "CANCELLED"}
      BY DEF ChecksOpened, Live
    <3>4. inspection[o][s].verdict \in {"NONE", "PASS", "FAIL", "HOLD"}
      BY <3>1 DEF ChecksTyped, CheckRow
    <3> QED
      BY <3>2, <3>3, <3>4 DEF InspectionReason
  <2>5. HeldBy(o) = {}
    BY DEF ClaimsJustified, ClaimJustified, HeldBy
  <2> QED
    BY <2>3, <2>4, <2>5
<1> QED
  BY <1>1, LifeInvariantHolds, PTL

(***************************************************************************)
(* Only orders that have not begun hold reservations, the seeded one of an *)
(* imported order excepted (reserve in material-reservations, start).      *)
(***************************************************************************)
THEOREM ReservationsEndAtStart == Spec => []ReservationsOnlyBeforeStart
<1>1. LifeInvariant => ReservationsOnlyBeforeStart
  BY DEF LifeInvariant, ClaimsJustified, ClaimJustified, ReservationsOnlyBeforeStart
<1> QED
  BY <1>1, LifeInvariantHolds, PTL

(***************************************************************************)
(* Although every command recomputes the status of its order, it moves     *)
(* along the edges of the domain contract only (refreshProductionFlow).    *)
(***************************************************************************)
THEOREM StatusOnlyAdvances == Spec => StatusAdvances
<1>1. LifeInvariant /\ [Next]_vars =>
        [\A o \in Order :
           order'[o].status # order[o].status =>
              <<order[o].status, order'[o].status>> \in LegalStatus]_vars
  <2> SUFFICES ASSUME LifeInvariant, [Next]_vars, NEW p \in Order,
                      order'[p].status # order[p].status
               PROVE  <<order[p].status, order'[p].status>> \in LegalStatus
    OBVIOUS
  <2>1. TypeOK /\ TypeOK'
    BY NextLifeInvariant DEF LifeInvariant, FlowInvariant, TypeInvariant
  <2>2. ~ \E a \in Allocation : ReleaseReservation(a)
    BY <2>1, ReleaseReservationLife
  <2>3. ~ UNCHANGED <<order, step, consumed, inspection, alloc>>
    OBVIOUS
  <2>4. PICK o \in Order : OrderStep(o)
    BY <2>2, <2>3, StepKinds
  <2>5. p = o
    BY <2>1, <2>4, OthersUntouched
  <2> QED
    BY <2>1, <2>4, <2>5, OrderStepStatus
<1> QED
  BY <1>1, LifeInvariantHolds, PTL DEF Spec, StatusAdvances

\* A closed order takes no command: a command needs a draft, a released order or
\* one in progress.
LEMMA ClosedTakesNoStep ==
  ASSUME TypeOK, NEW o \in Order, order[o].status \in {"COMPLETED", "CANCELLED"}
  PROVE  ~ OrderStep(o)
BY OrderStepCases
   DEF Release, CanRelease, Cancel, CanCancel, Cancellable, Reserve, CanReserve,
       Reservable, Start, CanStart, Executable, Complete, CanComplete,
       Verdict, CanDecide, Review, CanReview, Eligible

\* The commands on an order leave the reservations of another one alone.
LEMMA OthersReservations ==
  ASSUME TypeOK, NEW o \in Order, OrderStep(o), NEW p \in Order \ {o}
  PROVE  HeldBy(p)' = HeldBy(p)
<1> USE TypeParts
<1>1. CASE alloc' = alloc
  BY <1>1 DEF HeldBy, Active
<1>2. ASSUME NEW reason, alloc' = Closed(HeldBy(o), reason)
      PROVE  HeldBy(p)' = HeldBy(p)
  <2> SUFFICES ASSUME NEW a \in Allocation PROVE a \in HeldBy(p)' <=> a \in HeldBy(p)
    BY DEF HeldBy, Active
  <2>1. alloc[a] \in AllocationRow
    BY DEF AllocationsTyped
  <2>2. CASE a \in HeldBy(o)
    <3>1. alloc'[a].status = "CLOSED"
      BY <1>2, <2>1, <2>2 DEF Closed, AllocationRow
    <3> QED
      BY <2>2, <3>1 DEF HeldBy, Active
  <2>3. CASE a \notin HeldBy(o)
    BY <1>2, <2>3 DEF Closed, HeldBy, Active
  <2> QED
    BY <2>2, <2>3
<1>3. CASE \E l \in Lot, a \in Allocation, quantity \in Nat \ {0} : Reserve(o, l, a, quantity)
  <2>1. PICK l \in Lot, b \in Allocation, quantity \in Nat \ {0} : Reserve(o, l, b, quantity)
    BY <1>3
  <2>2. /\ alloc[b].status = "FREE" /\ alloc'[b].order = o
        /\ \A a \in Allocation \ {b} : alloc'[a] = alloc[a]
    BY <2>1 DEF Reserve, CanReserve, AllocationsTyped
  <2> QED
    BY <2>2 DEF HeldBy, Active
<1> QED
  BY <1>1, <1>2, <1>3, OrderStepCases
     DEF Release, CanRelease, Cancel, CanCancel, Start, CanStart, Complete,
         CanComplete, Verdict, CanDecide, Review, CanReview, inventoryVars

\* No step of the server touches a closed order.
LEMMA ClosedRests ==
  ASSUME LifeInvariant, [Next]_vars, NEW p \in Order, order[p].status \in {"COMPLETED", "CANCELLED"}
  PROVE  /\ step'[p] = step[p]
         /\ inspection'[p] = inspection[p]
         /\ consumed'[p] = consumed[p]
         /\ HeldBy(p)' = HeldBy(p)
<1>1. TypeOK /\ TypeOK'
  BY NextLifeInvariant DEF LifeInvariant, FlowInvariant, TypeInvariant
<1>2. ASSUME NEW o \in Order, OrderStep(o)
      PROVE  /\ step'[p] = step[p]
             /\ inspection'[p] = inspection[p]
             /\ consumed'[p] = consumed[p]
             /\ HeldBy(p)' = HeldBy(p)
  <2>1. p # o
    BY <1>1, <1>2, ClosedTakesNoStep
  <2> QED
    BY <1>1, <1>2, <2>1, OthersUntouched, OthersNotConsumed, OthersReservations
<1>3. ASSUME NEW a \in Allocation, ReleaseReservation(a)
      PROVE  /\ step'[p] = step[p]
             /\ inspection'[p] = inspection[p]
             /\ consumed'[p] = consumed[p]
             /\ HeldBy(p)' = HeldBy(p)
  <2>1. inspection' = inspection /\ consumed' = consumed
    BY <1>3 DEF ReleaseReservation, CanDissolve, inspectionVars
  <2> QED
    BY <1>1, <1>3, <2>1, ReleaseReservationLife
<1>4. CASE UNCHANGED <<order, step, consumed, inspection, alloc>>
  BY <1>4 DEF HeldBy, Active
<1> QED
  BY <1>2, <1>3, <1>4, StepKinds

(***************************************************************************)
(* RULE-10 and RULE-16: no command of any client touches the steps,        *)
(* verdicts, material or reservations of a completed or cancelled order,   *)
(* not even the release of a reservation, which does not ask for its       *)
(* order's status: a closed order has none.                                *)
(***************************************************************************)
THEOREM ClosedIsFrozen == Spec => ClosedOrderFrozen
<1>1. LifeInvariant /\ [Next]_vars =>
        [\A o \in Order :
           order[o].status \in {"COMPLETED", "CANCELLED"} =>
              /\ step'[o] = step[o]
              /\ inspection'[o] = inspection[o]
              /\ consumed'[o] = consumed[o]
              /\ HeldBy(o)' = HeldBy(o)]_vars
  BY ClosedRests
<1> QED
  BY <1>1, LifeInvariantHolds, PTL DEF Spec, ClosedOrderFrozen

\* Nothing of a cancelled order was ever executed.
CancelledIdle == \A o \in Order : order[o].status = "CANCELLED" => NoExecution(o)

LEMMA NextCancelledIdle == LifeInvariant /\ CancelledIdle /\ [Next]_vars => CancelledIdle'
<1> SUFFICES ASSUME LifeInvariant, CancelledIdle, [Next]_vars, NEW p \in Order,
                    order'[p].status = "CANCELLED"
             PROVE  ~AnyStarted(step'[p])
  BY DEF CancelledIdle, NoExecution
<1>1. TypeOK /\ TypeOK'
  BY NextLifeInvariant DEF LifeInvariant, FlowInvariant, TypeInvariant
<1>2. CASE order[p].status = "CANCELLED"
  BY <1>2, ClosedRests DEF CancelledIdle, NoExecution
<1>3. CASE order[p].status # "CANCELLED"
  <2>1. ~ \E a \in Allocation : ReleaseReservation(a)
    BY <1>1, <1>3, ReleaseReservationLife
  <2>2. PICK o \in Order : OrderStep(o)
    BY <1>3, <2>1, StepKinds
  <2>3. o = p
    BY <1>1, <1>3, <2>2, OthersUntouched
  <2>4. ~Refreshed(p)
    BY <1>1, TypeParts, StatusByRowsNext DEF Refreshed, OrdersTyped
  <2>5. ~Release(p)
    BY <1>1, TypeParts DEF Release, OrdersTyped
  <2>6. Cancel(p)
    BY <1>1, <2>2, <2>3, <2>4, <2>5, OrderStepEffect, StartedStatus, CompletedStatus DEF OrderEffect
  <2> QED
    BY <2>6 DEF Cancel, CanCancel, NoExecution
<1> QED
  BY <1>2, <1>3

(***************************************************************************)
(* RULE-10: a cancelled order holds no reservation and no open inspection, *)
(* and nothing was executed or consumed (cancel in work-orders.service.ts).*)
(***************************************************************************)
THEOREM CancelledIsClean == Spec => []CancelledOrderClean
<1>1. Init => CancelledIdle
  BY DEF Init, CancelledIdle
<1>2. LifeInvariant /\ CancelledIdle => CancelledOrderClean
  BY DEF LifeInvariant, ClaimsJustified, ClaimJustified, HeldBy, ChecksClosed,
         NothingConsumed, CancelledIdle, CancelledOrderClean
<1> QED
  BY <1>1, <1>2, NextCancelledIdle, LifeInvariantHolds, PTL DEF Spec

-----------------------------------------------------------------------------
(* THE DERIVED ROWS *)

\* DerivedRowsCurrent, at one order.
Current(o) ==
  Live(o) /\ order[o].blocked # ReservationNeeded =>
    /\ step[o] = FlowRefreshed(step[o], inspection[o], Planned[o])
    /\ order[o] = OrderRefreshed(step[o], inspection[o])

\* Rows that a command has refreshed are current.
LEMMA ProjectedIsCurrent ==
  ASSUME OrdersTyped, NEW o \in Order, Live(o), NEW rows \in [Route(o) -> StepRow],
         NEW checks, checks = inspection'[o], FlowProjected(o, rows, checks)
  PROVE  Current(o)'
<1>1. /\ step'[o] = FlowRefreshed(rows, checks, Planned[o])
      /\ order'[o] = OrderRefreshed(step'[o], checks)
  BY ProjectedRows DEF Live
<1>2. FlowRefreshed(rows, checks, Planned[o]) =
        FlowRefreshed(FlowRefreshed(rows, checks, Planned[o]), checks, Planned[o])
  BY RouteNonempty, RefreshedIsCurrent
<1>3. step'[o] = FlowRefreshed(step'[o], checks, Planned[o])
  BY <1>1, <1>2
<1> QED
  BY <1>1, <1>3 DEF Current

LEMMA MaterialProjectedIsCurrent ==
  ASSUME OrdersTyped, NEW o \in Order, Live(o), NEW checks, NEW enough,
         checks = inspection'[o], MaterialAndFlowProjected(o, checks, enough)
  PROVE  Current(o)'
BY MaterialRows, ProjectedIsCurrent DEF MaterialAndFlowProjected

\* start writes the order row and one step itself, as a refresh would.
LEMMA StartIsCurrent ==
  ASSUME LifeInvariant, TypeOK', NEW o \in Order, NEW i \in Route(o), Start(o, i)
  PROVE  Current(o)'
<1> USE TypeParts DEF LifeInvariant, FlowInvariant, TypeInvariant
<1> DEFINE before == MaterialRefreshed(step[o], RequiresMaterial(o), EnoughMaterial(o))
           rows == FlowRefreshed(before, inspection[o], Planned[o])
           new == step'[o]
<1>1. before \in [Route(o) -> StepRow]
  BY MaterialRows
<1> HIDE DEF before
<1>2. rows \in [Route(o) -> StepRow] /\ rows = FlowRefreshed(rows, inspection[o], Planned[o])
  BY <1>1, RouteNonempty, FlowRefreshedType, RefreshedIsCurrent
<1>3. rows = RowsAtStart(o)
  BY DEF RowsAtStart, before
<1> HIDE DEF rows
<1>4. rows[i].readiness = "READY"
  BY <1>3 DEF Start, CanStart
<1>5. PriorComplete(rows, i)
  <2>1. PriorComplete(before, i)
    BY <1>1, <1>4, RouteNonempty, ReadyIsGated DEF rows
  <2>2. \A j \in Route(o) : before[j].readiness \in Started => rows[j] = before[j]
    BY <1>1, RouteNonempty, FlowRefreshedKeepsStarted DEF rows
  <2> QED
    BY <2>1, <2>2, RoutePrefix DEF PriorComplete, Started
<1>6. /\ step' = [step EXCEPT ![o] = [rows EXCEPT ![i].readiness = "IN_PROGRESS"]]
      /\ order' = [order EXCEPT ![o] =
           [OrderRefreshed(rows, inspection[o]) EXCEPT !.status = "IN_PROGRESS", !.currentStep = i]]
      /\ inspection' = inspection
  BY <1>3 DEF Start, CanStart, inspectionVars
<1>7. new \in [Route(o) -> StepRow] /\ StepBegins(rows, new, i)
  <2>1. new = [rows EXCEPT ![i].readiness = "IN_PROGRESS"]
    BY <1>6 DEF OrdersTyped, StepsTyped
  <2>2. new[i].readiness = "IN_PROGRESS"
    BY StartIsGated
  <2> QED
    BY <1>2, <2>1, <2>2 DEF StepBegins, OrdersTyped, StepsTyped
<1>8. order'[o].currentStep = i /\ order'[o].blocked = BlockedOf(rows, inspection[o])
  BY <1>6 DEF OrdersTyped, OrderRefreshed
<1>9. order'[o].status = "IN_PROGRESS" /\ order'[o] \in OrderRow
  BY StartedStatus DEF OrdersTyped
<1> HIDE DEF new
<1>10. new = FlowRefreshed(new, inspection[o], Planned[o])
  BY <1>2, <1>4, <1>7, RouteNonempty, BegunIsCurrent
<1>11. OrderBegins(OrderRefreshed(new, inspection[o]), rows, inspection[o], i)
  <2>1. /\ RouteLength[o] \in Nat /\ i \in 1..RouteLength[o]
        /\ rows \in [1..RouteLength[o] -> StepRow] /\ new \in [1..RouteLength[o] -> StepRow]
    BY <1>2, <1>7, RouteNonempty
  <2>2. StepBegins(rows, new, i)
    BY <1>7
  <2> QED
    BY <1>4, <1>5, <2>1, <2>2, BegunOrderRow
<1>12. order'[o] = OrderRefreshed(new, inspection[o])
  <2>1. OrderRefreshed(new, inspection[o]) \in OrderRow
    BY <1>7, RouteNonempty, OrderRefreshedType
  <2> QED
    BY <1>8, <1>9, <1>11, <2>1 DEF OrderRow, OrderBegins
<1> QED
  BY <1>6, <1>10, <1>12 DEF Current, new

\* Every command on an order leaves its derived rows current.
LEMMA OrderStepCurrent ==
  ASSUME LifeInvariant, TypeOK', NEW o \in Order, OrderStep(o) PROVE Current(o)'
<1> USE TypeParts DEF LifeInvariant, FlowInvariant, TypeInvariant
<1>1. CASE Release(o)
  <2>1. order'[o].blocked = ReservationNeeded
    BY <1>1 DEF Release, CanRelease, OrdersTyped
  <2> QED
    BY <2>1 DEF Current
<1>2. CASE Cancel(o)
  BY <1>2 DEF Cancel, CanCancel, OrdersTyped, OrderRow, Current, Live
<1>3. CASE \E i \in Route(o) : Start(o, i)
  BY <1>3, StartIsCurrent
<1>4. ASSUME NEW i \in Route(o), NEW good \in Nat, NEW defect \in Nat, Complete(o, i, good, defect)
      PROVE  Current(o)'
  <2>1. /\ CompletedRows(o, i, good, defect) \in [Route(o) -> StepRow]
        /\ FlowProjected(o, CompletedRows(o, i, good, defect), inspection[o])
        /\ Live(o) /\ inspection' = inspection
    BY <1>4, CompletedRowsType DEF Complete, CanComplete, CompletedRows, Live,
                                   inspectionVars
  <2> QED
    BY <2>1, ProjectedIsCurrent
<1>5. ASSUME NEW l \in Lot, NEW a \in Allocation, NEW quantity \in Nat \ {0}, Reserve(o, l, a, quantity)
      PROVE  Current(o)'
  <2>1. Live(o) /\ inspection' = inspection
    BY <1>5 DEF Reserve, CanReserve, Reservable, Live, inspectionVars
  <2> QED
    BY <1>5, <2>1, MaterialProjectedIsCurrent DEF Reserve, CanReserve
<1>6. ASSUME NEW s \in InspectionSpec, NEW verdict, VerdictProjected(o, s, verdict), Eligible(o, s)
      PROVE  Current(o)'
  <2>1. Live(o)
    BY <1>6 DEF Eligible, Live
  <2> QED
    BY <1>6, <2>1, MaterialProjectedIsCurrent DEF VerdictProjected
<1> QED
  BY <1>1, <1>2, <1>3, <1>4, <1>5, <1>6, OrderStepCases DEF Verdict, CanDecide, Review,
                                                            CanReview

\* The release of a reservation refreshes its order and touches no other.
LEMMA ReleaseReservationCurrent ==
  ASSUME LifeInvariant, NEW a \in Allocation, ReleaseReservation(a),
         NEW p \in Order, Current(p)
  PROVE  Current(p)'
<1> USE TypeParts DEF LifeInvariant, FlowInvariant, TypeInvariant
<1>1. a \in Active /\ ClaimJustified(a)
  BY DEF ReleaseReservation, CanDissolve, Active, ClaimsJustified
<1>2. PICK o \in Order : o = alloc[a].order
  BY <1>1 DEF AllocationsTyped
<1>3. PICK enough : MaterialAndFlowProjected(o, inspection[o], enough)
  <2>1. MaterialAndFlowProjected(alloc[a].order, inspection[alloc[a].order],
                                 EnoughMaterial(alloc[a].order)')
    BY DEF ReleaseReservation, CanDissolve, ReservationDissolved
  <2> QED
    BY <1>2, <2>1
<1>4. Live(o) /\ inspection' = inspection
  BY <1>1, <1>2 DEF ClaimJustified, Live, ReleaseReservation, CanDissolve,
                    inspectionVars
<1>5. CASE p = o
  BY <1>3, <1>4, <1>5, MaterialProjectedIsCurrent
<1>6. CASE p # o
  <2>1. step'[p] = step[p] /\ order'[p] = order[p]
    BY <1>3, <1>6, MaterialRows, ProjectedRows DEF MaterialAndFlowProjected
  <2> QED
    BY <1>4, <2>1 DEF Current, Live
<1> QED
  BY <1>5, <1>6

\* The seeded orders wait for the verdict on a HOLD at their first step, and
\* their rows say so.
LEMMA ImportedIsCurrent ==
  ASSUME Init, NEW o \in Imported PROVE Current(o)
<1>1. /\ o \in Order /\ RouteLength[o] = 2 /\ Route(o) = 1..2
      /\ step[o] \in [1..2 -> StepRow]
  BY InitTypeOK, DatabaseAssumption DEF Route, TypeOK
<1>2. /\ step[o][1].readiness = "IN_PROGRESS"
      /\ step[o][2].readiness = "BLOCKED" /\ step[o][2].reasons = {"INSPECTION_HELD"}
  <2>1. step[o][2] = [NoStep EXCEPT !.readiness = "BLOCKED", !.reasons = {"INSPECTION_HELD"}]
    BY <1>1 DEF Init, SeedStep
  <2> QED
    BY <2>1, ImportedRows DEF NoStep
<1>3. InspectionReasons(inspection[o], GatesBefore(2)) = {"INSPECTION_HELD"}
  <2>1. PICK t \in SpecsOf[o] : Gate[t] = "ROUTE_ADVANCE" /\ StepOf[t] = 1
    BY DatabaseAssumption
  <2>2. SpecsOf[o] \subseteq InspectionSpec /\ t \in InspectionSpec
    BY <1>1, DatabaseAssumption
  <2>3. \A s \in InspectionSpec : s \in GatesBefore(2) <=> Gate[s] = "ROUTE_ADVANCE" /\ StepOf[s] = 1
    BY FlowAssumption DEF GatesBefore
  <2>4. GatesBefore(2) \subseteq InspectionSpec
    BY DEF GatesBefore
  <2>5. ASSUME NEW s \in GatesBefore(2)
        PROVE  InspectionReason(inspection[o][s]) =
                 IF s \in SpecsOf[o] THEN "INSPECTION_HELD" ELSE "NO_REASON"
    <3>1. inspection[o][s] = SeedCheck(o, s)
      BY <1>1, <2>4 DEF Init
    <3> QED
      BY <2>3, <2>4, <3>1 DEF SeedCheck, NoCheck, InspectionReason
  <2> QED
    BY <2>1, <2>2, <2>3, <2>5 DEF InspectionReasons
<1>4. step[o] = FlowRefreshed(step[o], inspection[o], Planned[o])
  <2>1. ~ PriorComplete(step[o], 2)
    BY <1>2 DEF PriorComplete
  <2>2. StepReasons(step[o], 2, inspection[o], Planned[o]) = {"INSPECTION_HELD"}
    BY <1>2, <1>3, <2>1 DEF StepReasons, NoOutputReasons, FlowReasons
  <2>3. ASSUME NEW i \in 1..2, step[o][i].readiness \notin Started
        PROVE  /\ step[o][i].reasons = StepReasons(step[o], i, inspection[o], Planned[o])
               /\ step[o][i].readiness = ReadinessOf(step[o], i, step[o][i].reasons)
    <3>1. i = 2
      BY <1>2, <2>3 DEF Started
    <3> QED
      BY <1>2, <2>2, <3>1 DEF ReadinessOf
  <2>4. PICK n \in Nat : n = 2
    OBVIOUS
  <2>5. /\ step[o] \in [1..n -> StepRow]
        /\ \A i \in 1..n : step[o][i].readiness \notin Started =>
             /\ step[o][i].reasons = StepReasons(step[o], i, inspection[o], Planned[o])
             /\ step[o][i].readiness = ReadinessOf(step[o], i, step[o][i].reasons)
    BY <1>1, <2>3, <2>4
  <2> QED
    BY <2>5, CurrentByRows
<1>5. order[o] = OrderRefreshed(step[o], inspection[o])
  <2>1. order[o] = [status |-> "IN_PROGRESS", currentStep |-> 1,
                    blocked |-> [step |-> 2, codes |-> {"INSPECTION_HELD"}]]
    BY <1>1 DEF Init
  <2>2. DOMAIN step[o] = 1..2
    BY <1>1
  <2>3. StatusOf(step[o], inspection[o]) = "IN_PROGRESS"
    BY <1>2, <2>2 DEF StatusOf, AllCompleted, AnyStarted, Started
  <2>4. FirstOf({i \in DOMAIN step[o] : step[o][i].readiness # "COMPLETED"}) = 1
    <3>1. {i \in DOMAIN step[o] : step[o][i].readiness # "COMPLETED"} = {1, 2}
      BY <1>2, <2>2
    <3>2. FirstOf({1, 2}) = 1
      BY FirstIs
    <3> QED
      BY <3>1, <3>2
  <2>5. BlockedOf(step[o], inspection[o]) = [step |-> 2, codes |-> {"INSPECTION_HELD"}]
    <3>1. {i \in DOMAIN step[o] : step[o][i].readiness = "BLOCKED"} = {2}
      BY <1>2, <2>2
    <3>2. FirstOf({2}) = 2
      BY FirstIs
    <3> DEFINE first == FirstOf({i \in DOMAIN step[o] : step[o][i].readiness = "BLOCKED"})
    <3>3. first # 0 => BlockedOf(step[o], inspection[o]) = [step |-> first, codes |-> step[o][first].reasons]
      BY Zenon DEF BlockedOf
    <3>4. first = 2
      BY <3>1, <3>2
    <3> HIDE DEF first
    <3> QED
      BY <1>2, <3>3, <3>4
  <2> QED
    BY <2>1, <2>3, <2>4, <2>5 DEF OrderRefreshed
<1> QED
  BY <1>4, <1>5 DEF Current

\* The other orders are drafts.
LEMMA InitCurrent == Init => \A o \in Order : Current(o)
<1> SUFFICES ASSUME Init, NEW o \in Order PROVE Current(o)
  OBVIOUS
<1>1. CASE o \in Imported
  BY <1>1, ImportedIsCurrent
<1>2. CASE o \notin Imported
  BY <1>2 DEF Init, Current, Live
<1> QED
  BY <1>1, <1>2

LEMMA NextCurrent ==
  LifeInvariant /\ (\A o \in Order : Current(o)) /\ [Next]_vars => (\A o \in Order : Current(o))'
<1> SUFFICES ASSUME LifeInvariant, \A o \in Order : Current(o), [Next]_vars, NEW p \in Order
             PROVE  Current(p)'
  OBVIOUS
<1>1. TypeOK /\ TypeOK'
  BY NextLifeInvariant DEF LifeInvariant, FlowInvariant, TypeInvariant
<1>2. ASSUME NEW o \in Order, OrderStep(o) PROVE Current(p)'
  <2>1. CASE p = o
    BY <1>1, <1>2, <2>1, OrderStepCurrent
  <2>2. CASE p # o
    BY <1>1, <1>2, <2>2, OthersUntouched DEF Current, Live
  <2> QED
    BY <2>1, <2>2
<1>3. ASSUME NEW a \in Allocation, ReleaseReservation(a) PROVE Current(p)'
  BY <1>3, ReleaseReservationCurrent
<1>4. CASE UNCHANGED <<order, step, consumed, inspection, alloc>>
  BY <1>4 DEF Current, Live
<1> QED
  BY <1>2, <1>3, <1>4, StepKinds

(***************************************************************************)
(* The cached columns of an order and of its steps never go stale: after   *)
(* any interleaving of commands, running refreshProductionFlow again would *)
(* change nothing, unless the order was just released and not reserved     *)
(* for.                                                                    *)
(***************************************************************************)
THEOREM DerivedRowsAreCurrent == Spec => []DerivedRowsCurrent
<1>1. (\A o \in Order : Current(o)) => DerivedRowsCurrent
  BY DEF Current, Live, DerivedRowsCurrent
<1> QED
  BY <1>1, InitCurrent, NextCurrent, LifeInvariantHolds, PTL DEF Spec
=============================================================================
