----------------------------- MODULE CommandProofs -----------------------------
(***************************************************************************)
(* Commands, from the page that offers them to the plant that runs them,   *)
(* for any routes, inspections, reservations and users.                    *)
(*                                                                         *)
(* The commands implement the contract of the plant: the seeded tables map *)
(* to an initial state of it, and every step of every interleaving to a    *)
(* step of it or to none.  The pages that send them add nothing to what    *)
(* the plant can do; no form waits for ever, no command that took effect   *)
(* does so again, whatever the server accepts some page offers, and what   *)
(* an up-to-date page offers the server accepts.                           *)
(***************************************************************************)
EXTENDS MaterialProofs, CommandContract, CommandForms

-----------------------------------------------------------------------------
(* THE VIEWS *)

\* What the contract sees of one order.
LEMMA ViewsRead ==
  ASSUME NEW o \in Order
  PROVE  /\ StatusView[o] = order[o].status
         /\ \A i \in Route(o) : WorkView[o][i] = Work(step[o][i])
         /\ \A s \in InspectionSpec : OutcomeView[o][s] = Outcome(inspection[o][s])
         /\ ClaimView[o] = HeldBy(o)
BY DEF StatusView, WorkView, OutcomeView, ClaimView

\* A command on o writes its status and its claims and leaves those of others alone.
LEMMA StatusWritten ==
  ASSUME NEW o \in Order, NEW value, order'[o].status = value,
         \A p \in Order \ {o} : order'[p].status = order[p].status
  PROVE  StatusView' = [StatusView EXCEPT ![o] = value]
BY DEF StatusView

LEMMA ClaimsWritten ==
  ASSUME NEW o \in Order, NEW value, HeldBy(o)' = value,
         \A p \in Order \ {o} : HeldBy(p)' = HeldBy(p)
  PROVE  ClaimView' = [ClaimView EXCEPT ![o] = value]
BY DEF ClaimView

LEMMA WorkWritten ==
  ASSUME NEW o \in Order, NEW i \in Route(o), NEW value, Work(step'[o][i]) = value,
         \A j \in Route(o) \ {i} : Work(step'[o][j]) = Work(step[o][j]),
         \A p \in Order \ {o} : step'[p] = step[p]
  PROVE  WorkView' = [WorkView EXCEPT ![o][i] = value]
<1>1. WorkView'[o] = [WorkView[o] EXCEPT ![i] = value]
  BY DEF WorkView
<1>2. \A p \in Order \ {o} : WorkView'[p] = WorkView[p]
  BY DEF WorkView
<1> QED
  BY <1>1, <1>2 DEF WorkView

LEMMA WorkKept ==
  ASSUME NEW o \in Order,
         \A j \in Route(o) : Work(step'[o][j]) = Work(step[o][j]),
         \A p \in Order \ {o} : step'[p] = step[p]
  PROVE  WorkView' = WorkView
<1>1. \A p \in Order : \A i \in Route(p) : Work(step'[p][i]) = Work(step[p][i])
  OBVIOUS
<1> QED
  BY <1>1 DEF WorkView

LEMMA OutcomeWritten ==
  ASSUME NEW o \in Order, NEW s \in InspectionSpec, NEW value,
         Outcome(inspection'[o][s]) = value,
         \A r \in InspectionSpec \ {s} : Outcome(inspection'[o][r]) = Outcome(inspection[o][r]),
         \A p \in Order \ {o} : inspection'[p] = inspection[p]
  PROVE  OutcomeView' = [OutcomeView EXCEPT ![o][s] = value]
<1>1. OutcomeView'[o] = [OutcomeView[o] EXCEPT ![s] = value]
  BY DEF OutcomeView
<1>2. \A p \in Order \ {o} : OutcomeView'[p] = OutcomeView[p]
  BY DEF OutcomeView
<1> QED
  BY <1>1, <1>2 DEF OutcomeView

LEMMA OutcomeKept ==
  ASSUME NEW o \in Order,
         \A r \in InspectionSpec : Outcome(inspection'[o][r]) = Outcome(inspection[o][r]),
         \A p \in Order \ {o} : inspection'[p] = inspection[p]
  PROVE  OutcomeView' = OutcomeView
<1>1. \A p \in Order : \A s \in InspectionSpec :
        Outcome(inspection'[p][s]) = Outcome(inspection[p][s])
  OBVIOUS
<1> QED
  BY <1>1 DEF OutcomeView

-----------------------------------------------------------------------------
(* THE INVARIANT *)

\* An order has no inspection but those of its product.
ChecksBelong ==
  \A o \in Order : \A s \in InspectionSpec \ SpecsOf[o] : inspection[o][s].execution = "ABSENT"

LEMMA InitChecksBelong == Init => ChecksBelong
BY DEF Init, SeedCheck, NoCheck, ChecksBelong

\* No command gives an order an inspection of another product.
LEMMA OrderStepChecksBelong ==
  ASSUME TypeOK, ChecksBelong, NEW o \in Order, OrderStep(o) PROVE ChecksBelong'
<1> USE TypeParts DEF ChecksTyped
<1>1. CASE UNCHANGED inspection
  BY <1>1 DEF ChecksBelong
<1>2. CASE Release(o)
  BY <1>2 DEF Release, CanRelease, NoCheck, ChecksBelong
<1>3. CASE Cancel(o)
  BY <1>3 DEF Cancel, CanCancel, OpenChecksCancelled, ChecksBelong
<1>4. CASE \E s \in SpecsOf[o] : \E verdict : VerdictProjected(o, s, verdict)
  BY <1>4, DatabaseAssumption DEF VerdictProjected, ChecksBelong
<1> QED
  BY <1>1, <1>2, <1>3, <1>4
     DEF OrderStep, Reserve, CanReserve, Start, CanStart, Complete, CanComplete,
         Verdict, CanDecide, Review, CanReview, inspectionVars

LEMMA NextChecksBelong == TypeOK /\ ChecksBelong /\ [Next]_vars => ChecksBelong'
<1> SUFFICES ASSUME TypeOK, ChecksBelong, [Next]_vars PROVE ChecksBelong'
  OBVIOUS
<1>1. CASE UNCHANGED inspection
  BY <1>1 DEF ChecksBelong
<1>2. ASSUME NEW a \in Allocation, ReleaseReservation(a) PROVE ChecksBelong'
  BY <1>1, <1>2 DEF ReleaseReservation, CanDissolve, inspectionVars
<1> QED
  BY <1>1, <1>2, StepKinds, OrderStepChecksBelong

ContractInvariant == LifeInvariant /\ ChecksBelong

-----------------------------------------------------------------------------
(* THE STATUS THE COMMANDS DERIVE IS THE ONE THE CONTRACT SETTLES *)

\* The derivation of refreshProductionFlow, on the rows of an order that has begun.
LEMMA DerivedIsSettled ==
  ASSUME NEW o \in Order, NEW rows \in [Route(o) -> StepRow],
         NEW checks \in [InspectionSpec -> CheckRow],
         \A s \in SpecsOf[o] : checks[s].execution \notin {"ABSENT", "CANCELLED"},
         \A s \in InspectionSpec \ SpecsOf[o] : checks[s].execution = "ABSENT",
         AnyStarted(rows)
  PROVE  StatusOf(rows, checks)
           = Contract!Settled(o, [i \in Route(o) |-> Work(rows[i])],
                                 [s \in InspectionSpec |-> Outcome(checks[s])])
<1> DEFINE works == [i \in Route(o) |-> Work(rows[i])]
           outcomes == [s \in InspectionSpec |-> Outcome(checks[s])]
<1>1. AllCompleted(rows) <=> \A i \in Route(o) : works[i] = "done"
  BY DEF Work, AllCompleted
<1>2. ASSUME NEW s \in SpecsOf[o]
      PROVE  InspectionReason(checks[s]) = "NO_REASON" <=> outcomes[s] = "PASS"
  <2>1. s \in InspectionSpec
    BY DatabaseAssumption
  <2>2. outcomes[s] = Outcome(checks[s]) /\ checks[s] \in CheckRow
    BY <2>1
  <2> QED
    BY <2>2 DEF Outcome, InspectionReason, CheckRow
<1>3. \A s \in InspectionSpec \ SpecsOf[o] : InspectionReason(checks[s]) = "NO_REASON"
  BY DEF InspectionReason
<1>4. InspectionReasons(checks, InspectionSpec) = {}
        <=> \A s \in SpecsOf[o] : outcomes[s] = "PASS"
  <2>1. InspectionReasons(checks, InspectionSpec) = {}
          <=> \A s \in InspectionSpec : InspectionReason(checks[s]) = "NO_REASON"
    BY DEF InspectionReasons
  <2>2. SpecsOf[o] \subseteq InspectionSpec
    BY DatabaseAssumption
  <2> QED
    BY <1>2, <1>3, <2>1, <2>2
<1> HIDE DEF works, outcomes
<1>5. StatusOf(rows, checks) = Contract!Settled(o, works, outcomes)
  BY <1>1, <1>4 DEF StatusOf, Contract!Settled, Contract!Steps, Route
<1> QED
  BY <1>5 DEF works, outcomes

\* A command that leaves the derived status on an order that has begun settles it.
LEMMA SettledNext ==
  ASSUME StepsTyped', ChecksTyped', NEW o \in Order, Live(o)', ChecksOpened(o)', ChecksBelong',
         AnyStarted(step'[o]), order'[o].status = StatusOf(step'[o], inspection'[o])
  PROVE  order'[o].status = Contract!Settled(o, WorkView'[o], OutcomeView'[o])
<1>1. /\ step'[o] \in [Route(o) -> StepRow]
      /\ inspection'[o] \in [InspectionSpec -> CheckRow]
      /\ \A s \in SpecsOf[o] : inspection'[o][s].execution \notin {"ABSENT", "CANCELLED"}
      /\ \A s \in InspectionSpec \ SpecsOf[o] : inspection'[o][s].execution = "ABSENT"
  BY DEF StepsTyped, ChecksTyped, ChecksOpened, ChecksBelong
<1>2. /\ WorkView'[o] = [i \in Route(o) |-> Work(step'[o][i])]
      /\ OutcomeView'[o] = [s \in InspectionSpec |-> Outcome(inspection'[o][s])]
  BY DEF WorkView, OutcomeView
<1> QED
  BY <1>1, <1>2, DerivedIsSettled

-----------------------------------------------------------------------------
(* EVERY COMMAND IS A STEP OF THE CONTRACT *)

\* A row that neither begins nor ends keeps its work.
LEMMA KeptWork ==
  ASSUME NEW o \in Order, KeepsStarted(o)
  PROVE  \A i \in Route(o) : Work(step'[o][i]) = Work(step[o][i])
BY DEF KeepsStarted, Started, Work

\* What the commands on o leave alone.
LEMMA OthersViews ==
  ASSUME TypeOK, NEW o \in Order, OrderStep(o)
  PROVE  \A p \in Order \ {o} :
           /\ order'[p].status = order[p].status /\ step'[p] = step[p]
           /\ inspection'[p] = inspection[p] /\ HeldBy(p)' = HeldBy(p)
BY OthersUntouched, OthersReservations

\* Closing the reservations of o leaves it none.
LEMMA ClosedHoldsNothing ==
  ASSUME AllocationsTyped, NEW o \in Order, NEW reason, alloc' = Closed(HeldBy(o), reason)
  PROVE  HeldBy(o)' = {}
<1> SUFFICES ASSUME NEW a \in Allocation PROVE a \notin HeldBy(o)'
  BY DEF HeldBy, Active
<1>1. alloc[a] \in AllocationRow
  BY DEF AllocationsTyped
<1>2. CASE a \in HeldBy(o)
  <2>1. alloc'[a].status = "CLOSED"
    BY <1>1, <1>2 DEF Closed, AllocationRow
  <2> QED
    BY <2>1 DEF HeldBy, Active
<1>3. CASE a \notin HeldBy(o)
  BY <1>3 DEF Closed, HeldBy, Active
<1> QED
  BY <1>2, <1>3

LEMMA ReleaseRefines ==
  ASSUME ContractInvariant, NEW o \in Order, OrderStep(o), Release(o)
  PROVE  Contract!Release(o)
<1> USE TypeParts DEF ContractInvariant, LifeInvariant, FlowInvariant, TypeInvariant
<1>1. order[o].status = "DRAFT" /\ order'[o].status = "RELEASED" /\ alloc' = alloc
  BY DEF Release, CanRelease, OrdersTyped, inventoryVars
<1>2. \A i \in Route(o) : Work(step[o][i]) = "waiting" /\ Work(step'[o][i]) = "waiting"
  BY <1>1 DEF DraftUntouched, Release, CanRelease, ReleasedStep, NoStep, Work,
              OrdersTyped, StepsTyped
<1>3. \A s \in InspectionSpec :
        Outcome(inspection[o][s]) = "open" /\ Outcome(inspection'[o][s]) = "open"
  <2>1. \A s \in InspectionSpec : inspection[o][s] = NoCheck
    BY <1>1 DEF DraftUntouched
  <2>2. inspection'[o] = [s \in InspectionSpec |->
          IF s \in SpecsOf[o] THEN [execution |-> "PENDING", verdict |-> "NONE"] ELSE NoCheck]
    BY DEF Release, CanRelease, ChecksTyped
  <2> QED
    BY <2>1, <2>2 DEF NoCheck, Outcome
<1>4. StatusView[o] = "DRAFT" /\ StatusView' = [StatusView EXCEPT ![o] = "RELEASED"]
  BY <1>1, ViewsRead, OthersViews, StatusWritten
<1>5. WorkView' = WorkView
  BY <1>2, OthersViews, WorkKept
<1>6. OutcomeView' = OutcomeView
  BY <1>3, OthersViews, OutcomeKept
<1>7. ClaimView' = ClaimView
  BY <1>1 DEF ClaimView, HeldBy, Active
<1> QED
  BY <1>4, <1>5, <1>6, <1>7 DEF Contract!Release

LEMMA CancelRefines ==
  ASSUME ContractInvariant, NEW o \in Order, OrderStep(o), Cancel(o)
  PROVE  Contract!Cancel(o)
<1> USE TypeParts DEF ContractInvariant, LifeInvariant, FlowInvariant, TypeInvariant
<1>1. /\ order[o].status \in {"DRAFT", "RELEASED"} /\ order'[o].status = "CANCELLED"
      /\ step' = step
  BY DEF Cancel, CanCancel, Cancellable, OrdersTyped, OrderRow
<1>2. \A i \in Route(o) : WorkView[o][i] = "waiting"
  BY RowsOfRoute, ViewsRead DEF Cancel, CanCancel, NoExecution, OrdersTyped, Started,
                                Work
<1>3. \A s \in InspectionSpec : Outcome(inspection'[o][s]) = Outcome(inspection[o][s])
  <2>1. inspection'[o] = OpenChecksCancelled(o)
    BY DEF Cancel, CanCancel, ChecksTyped
  <2>2. \A s \in InspectionSpec : inspection[o][s] \in CheckRow
    BY DEF ChecksTyped
  <2> QED
    BY <2>1, <2>2 DEF OpenChecksCancelled, Outcome, CheckRow
<1>4. /\ StatusView[o] \in {"DRAFT", "RELEASED"}
      /\ StatusView' = [StatusView EXCEPT ![o] = "CANCELLED"]
  BY <1>1, ViewsRead, OthersViews, StatusWritten
<1>5. WorkView' = WorkView
  BY <1>1 DEF WorkView
<1>6. OutcomeView' = OutcomeView
  BY <1>3, OthersViews, OutcomeKept
<1>7. ClaimView' = [ClaimView EXCEPT ![o] = {}]
  <2>1. HeldBy(o)' = {}
    BY ClosedHoldsNothing DEF Cancel, CanCancel
  <2> QED
    BY <2>1, OthersViews, ClaimsWritten
<1> QED
  BY <1>2, <1>4, <1>5, <1>6, <1>7 DEF Contract!Cancel, Contract!Steps, Route

\* Material is claimed for a released order only.
LEMMA ReserveRefines ==
  ASSUME ContractInvariant, TypeOK', NEW o \in Order, OrderStep(o),
         NEW l \in Lot, NEW a \in Allocation, NEW quantity \in Nat \ {0}, Reserve(o, l, a, quantity)
  PROVE  Contract!Allot(o, HeldBy(o)')
<1> USE TypeParts DEF ContractInvariant, LifeInvariant, FlowInvariant, TypeInvariant
<1>1. order[o].status = "RELEASED" /\ inspection' = inspection /\ Live(o)
  BY DEF Reserve, CanReserve, Reservable, Live, inspectionVars
<1>2. Refreshed(o)
  BY <1>1, MaterialAndFlowRefreshes DEF Reserve, CanReserve
<1>3. order'[o].status = "RELEASED"
  BY <1>1, <1>2, RefreshedStatus DEF OrdersTyped
<1>4. StatusView[o] = "RELEASED" /\ StatusView' = StatusView
  BY <1>1, <1>3, ViewsRead, OthersViews DEF StatusView
<1>5. WorkView' = WorkView
  BY <1>2, KeptWork, OthersViews, WorkKept DEF Refreshed
<1>6. OutcomeView' = OutcomeView
  BY <1>1 DEF OutcomeView
<1>7. ClaimView' = [ClaimView EXCEPT ![o] = HeldBy(o)']
  BY OthersViews, ClaimsWritten
<1> QED
  BY <1>4, <1>5, <1>6, <1>7 DEF Contract!Allot

\* A reservation is given back by an order that still may work.
LEMMA ReleaseReservationRefines ==
  ASSUME ContractInvariant, TypeOK', NEW a \in Allocation, ReleaseReservation(a)
  PROVE  \E o \in Order : HeldBy(o)' \subseteq HeldBy(o) /\ Contract!Allot(o, HeldBy(o)')
<1> USE TypeParts DEF ContractInvariant, LifeInvariant, FlowInvariant, TypeInvariant
<1>1. a \in Active /\ alloc[a].order \in Order
  BY DEF ReleaseReservation, CanDissolve, AllocationsTyped, Active
<1>0. PICK o \in Order : o = alloc[a].order
  BY <1>1
<1>2. order[o].status \in {"RELEASED", "IN_PROGRESS"} /\ Live(o)
  BY <1>0, <1>1 DEF ClaimsJustified, ClaimJustified, Live
<1>3. /\ \E enough : MaterialAndFlowProjected(o, inspection[o], enough)
      /\ inspection' = inspection
      /\ alloc' = [alloc EXCEPT ![a].status = "CLOSED", ![a].reason = "RELEASED"]
  <2>1. MaterialAndFlowProjected(alloc[a].order, inspection[alloc[a].order],
                                 EnoughMaterial(alloc[a].order)')
    BY DEF ReleaseReservation, CanDissolve, ReservationDissolved
  <2> QED
    BY <1>0, <2>1 DEF ReleaseReservation, CanDissolve, ReservationDissolved,
                      inspectionVars
<1>4. KeepsStarted(o)
  BY <1>3, ProjectedKeepsStarted
<1>5. \A p \in Order \ {o} : step'[p] = step[p]
  BY <1>3, MaterialRows, ProjectedRows DEF MaterialAndFlowProjected
<1>6. \A p \in Order : order'[p].status = order[p].status
  BY ReleaseReservationLife
<1>7. \A b \in Allocation \ {a} : alloc'[b] = alloc[b]
  BY <1>3 DEF AllocationsTyped
<1>8. a \notin Active'
  <2>1. alloc'[a].status = "CLOSED"
    BY <1>3 DEF AllocationsTyped, AllocationRow
  <2> QED
    BY <2>1 DEF Active
<1>9. HeldBy(o)' \subseteq HeldBy(o) /\ \A p \in Order \ {o} : HeldBy(p)' = HeldBy(p)
  BY <1>0, <1>7, <1>8 DEF HeldBy, Active
<1>10. StatusView[o] \in {"RELEASED", "IN_PROGRESS"} /\ StatusView' = StatusView
  BY <1>2, <1>6, ViewsRead DEF StatusView
<1>11. WorkView' = WorkView
  BY <1>4, <1>5, KeptWork, WorkKept
<1>12. OutcomeView' = OutcomeView
  BY <1>3 DEF OutcomeView
<1>13. ClaimView[o] = HeldBy(o) /\ ClaimView' = [ClaimView EXCEPT ![o] = HeldBy(o)']
  BY <1>9, ViewsRead, ClaimsWritten
<1>14. Contract!Allot(o, HeldBy(o)')
  BY <1>9, <1>10, <1>11, <1>12, <1>13 DEF Contract!Allot
<1> QED
  BY <1>9, <1>14

\* A verdict on an inspection is a completed one, so the contract sees it.
LEMMA PassIsSeen ==
  ASSUME TypeInvariant, NEW o \in Order, NEW s \in InspectionSpec, inspection[o][s].verdict = "PASS"
  PROVE  OutcomeView[o][s] = "PASS"
<1>1. inspection[o][s].execution = "COMPLETED"
  BY UndecidedHasNoVerdict DEF TypeInvariant
<1> QED
  BY <1>1, ViewsRead DEF Outcome

LEMMA StartRefines ==
  ASSUME ContractInvariant, TypeOK', NEW o \in Order, OrderStep(o), NEW i \in Route(o), Start(o, i)
  PROVE  Contract!Begin(o, i)
<1> USE TypeParts DEF ContractInvariant, LifeInvariant, FlowInvariant, TypeInvariant
<1>1. /\ StatusView[o] \in {"RELEASED", "IN_PROGRESS"}
      /\ StatusView' = [StatusView EXCEPT ![o] = "IN_PROGRESS"]
  BY StartedStatus, ViewsRead, OthersViews, StatusWritten
<1>2. /\ WorkView[o][i] = "waiting"
      /\ \A j \in 1..(i-1) : WorkView[o][j] = "done"
  BY StartIsGated, RoutePrefix, ViewsRead DEF PriorComplete, Work, Started
<1>3. ASSUME NEW s \in SpecsOf[o], Gate[s] = "ROUTE_ADVANCE", StepOf[s] \in 1..(i-1)
      PROVE  OutcomeView[o][s] = "PASS"
  <2>1. s \in InspectionSpec /\ s \in ChecksOfEarlierSteps(o, i)
    BY <1>3, DatabaseAssumption DEF ChecksOfEarlierSteps
  <2> QED
    BY <2>1, StartIsGated, PassIsSeen
<1>4. WorkView' = [WorkView EXCEPT ![o][i] = "begun"]
  <2>1. Work(step'[o][i]) = "begun"
    BY StartIsGated DEF Work
  <2>2. \A j \in Route(o) \ {i} : Work(step'[o][j]) = Work(step[o][j])
    BY StartIsGated DEF Work, Started
  <2> QED
    BY <2>1, <2>2, OthersViews, WorkWritten
<1>5. OutcomeView' = OutcomeView
  BY DEF Start, CanStart, inspectionVars, OutcomeView
<1>6. ClaimView' = [ClaimView EXCEPT ![o] = {}]
  <2>1. HeldBy(o)' = {}
    BY ClosedHoldsNothing DEF Start, CanStart
  <2> QED
    BY <2>1, OthersViews, ClaimsWritten
<1> QED
  BY <1>1, <1>2, <1>3, <1>4, <1>5, <1>6 DEF Contract!Begin

LEMMA CompleteRefines ==
  ASSUME ContractInvariant, ContractInvariant', NEW o \in Order, OrderStep(o), NEW i \in Route(o),
         NEW good \in Nat, NEW defect \in Nat, Complete(o, i, good, defect)
  PROVE  Contract!Finish(o, i)
<1> USE TypeParts DEF ContractInvariant, LifeInvariant, FlowInvariant, TypeInvariant
<1>1. /\ order[o].status = "IN_PROGRESS" /\ step[o][i].readiness = "IN_PROGRESS"
      /\ inspection' = inspection /\ alloc' = alloc
  BY DEF Complete, CanComplete, inspectionVars, inventoryVars
<1>2. WorkView' = [WorkView EXCEPT ![o][i] = "done"]
  <2>1. Work(step'[o][i]) = "done"
    BY ProjectedAfterComplete DEF Work
  <2>2. \A j \in Route(o) \ {i} : Work(step'[o][j]) = Work(step[o][j])
    BY ProjectedAfterComplete DEF Work, Started
  <2> QED
    BY <2>1, <2>2, OthersViews, WorkWritten
<1>3. OutcomeView' = OutcomeView /\ ClaimView' = ClaimView
  BY <1>1 DEF OutcomeView, ClaimView, HeldBy, Active
<1>4. order'[o].status = Contract!Settled(o, WorkView'[o], OutcomeView[o])
  <2>1. /\ order'[o].status = StatusOf(step'[o], inspection'[o])
        /\ order'[o].status \in {"IN_PROGRESS", "COMPLETED"}
    BY CompletedStatus
  <2>2. Live(o)'
    BY <2>1 DEF Live
  <2>3. AnyStarted(step'[o])
    <3>1. step'[o][i].readiness = "COMPLETED"
      BY ProjectedAfterComplete
    <3> QED
      BY <3>1, RowsOfRouteNext DEF OrdersTyped, Started
  <2> QED
    BY <1>3, <2>1, <2>2, <2>3, SettledNext DEF OrdersTyped
<1>5. /\ StatusView[o] = "IN_PROGRESS" /\ WorkView[o][i] = "begun"
      /\ StatusView' = [StatusView EXCEPT ![o] =
           Contract!Settled(o, WorkView'[o], OutcomeView[o])]
  BY <1>1, <1>4, ViewsRead, OthersViews, StatusWritten DEF Work
<1> QED
  BY <1>2, <1>3, <1>5 DEF Contract!Finish

\* The verdict a first decision or a review leaves on the inspection of an order
\* that has begun.
LEMMA VerdictRefines ==
  ASSUME ContractInvariant, ContractInvariant', NEW o \in Order, OrderStep(o),
         NEW s \in SpecsOf[o], NEW verdict \in {"PASS", "FAIL", "HOLD"},
         Eligible(o, s), VerdictProjected(o, s, verdict), alloc' = alloc,
         \/ Undecided(inspection[o][s])
         \/ Held(inspection[o][s]) /\ verdict # "HOLD"
  PROVE  Contract!Decide(o, s, verdict)
<1> USE TypeParts DEF ContractInvariant, LifeInvariant, FlowInvariant, TypeInvariant
<1>1. s \in InspectionSpec /\ order[o].status \in {"RELEASED", "IN_PROGRESS"} /\ Live(o)
  BY DatabaseAssumption DEF Eligible, Live
<1>2. Refreshed(o)
  BY <1>1, MaterialAndFlowRefreshes DEF VerdictProjected
<1>3. /\ AnyStarted(step[o])
      /\ IF Gate[s] = "LOT_COMPLETE" THEN \A i \in Route(o) : WorkView[o][i] = "done"
         ELSE StepOf[s] \in Route(o) /\ WorkView[o][StepOf[s]] # "waiting"
  <2>1. CASE Gate[s] = "LOT_COMPLETE"
    <3>1. AllCompleted(step[o])
      BY <2>1 DEF Eligible
    <3>2. AnyStarted(step[o])
      BY <3>1, RowsOfRoute, RouteNonempty DEF OrdersTyped, Started
    <3>3. \A i \in Route(o) : WorkView[o][i] = "done"
      BY <3>1, RowsOfRoute, ViewsRead DEF OrdersTyped, Work
    <3> QED
      BY <2>1, <3>2, <3>3
  <2>2. CASE Gate[s] # "LOT_COMPLETE"
    <3>1. StartedAt(o, StepOf[s])
      BY <2>2 DEF Eligible
    <3> QED
      BY <2>2, <3>1, RowsOfRoute, ViewsRead DEF OrdersTyped, StartedAt, Started, Work
  <2> QED
    BY <2>1, <2>2
<1>4. order[o].status = "IN_PROGRESS"
  BY <1>1, <1>3, StatusByRows DEF StatusDerived, OrdersTyped
<1>5. \/ OutcomeView[o][s] = "open"
      \/ OutcomeView[o][s] = "HOLD" /\ verdict # "HOLD"
  BY <1>1, ViewsRead DEF Undecided, Held, Outcome
<1>6. OutcomeView' = [OutcomeView EXCEPT ![o][s] = verdict]
  <2>1. inspection' = [inspection EXCEPT ![o][s] =
          [execution |-> "COMPLETED", verdict |-> verdict]]
    BY DEF VerdictProjected
  <2>2. /\ inspection'[o][s] = [execution |-> "COMPLETED", verdict |-> verdict]
        /\ \A r \in InspectionSpec \ {s} : inspection'[o][r] = inspection[o][r]
    BY <1>1, <2>1 DEF ChecksTyped
  <2>3. Outcome(inspection'[o][s]) = verdict
    BY <2>2 DEF Outcome
  <2> QED
    BY <1>1, <2>2, <2>3, OthersViews, OutcomeWritten
<1>7. WorkView' = WorkView
  BY <1>2, KeptWork, OthersViews, WorkKept DEF Refreshed
<1>8. ClaimView' = ClaimView
  BY DEF ClaimView, HeldBy, Active
<1>9. order'[o].status = Contract!Settled(o, WorkView[o], OutcomeView'[o])
  <2>1. order'[o].status = StatusOf(step'[o], inspection'[o])
    BY <1>2 DEF Refreshed
  <2>2. order'[o].status \in {"IN_PROGRESS", "COMPLETED"}
    BY <1>2, <1>4, RefreshedStatus DEF OrdersTyped
  <2>3. AnyStarted(step'[o])
    BY <2>1, <2>2, StatusByRowsNext DEF OrdersTyped
  <2> QED
    BY <1>7, <2>1, <2>2, <2>3, SettledNext DEF Live, OrdersTyped
<1>10. /\ StatusView[o] = "IN_PROGRESS"
       /\ StatusView' = [StatusView EXCEPT ![o] =
            Contract!Settled(o, WorkView[o], OutcomeView'[o])]
  BY <1>4, <1>9, ViewsRead, OthersViews, StatusWritten
<1> QED
  BY <1>3, <1>5, <1>6, <1>7, <1>8, <1>10 DEF Contract!Decide, Contract!Steps, Route

LEMMA OrderStepRefines ==
  ASSUME ContractInvariant, ContractInvariant', NEW o \in Order, OrderStep(o)
  PROVE  Contract!Course(o)
<1>1. TypeOK /\ TypeOK'
  BY DEF ContractInvariant, LifeInvariant, FlowInvariant, TypeInvariant
<1>2. CASE Release(o)
  BY <1>2, ReleaseRefines DEF Contract!Course
<1>3. CASE Cancel(o)
  BY <1>3, CancelRefines DEF Contract!Course
<1>4. CASE \E l \in Lot, a \in Allocation, quantity \in Nat \ {0} : Reserve(o, l, a, quantity)
  <2>1. Contract!Allot(o, HeldBy(o)')
    BY <1>1, <1>4, ReserveRefines
  <2>2. HeldBy(o)' \in SUBSET Allocation
    BY DEF HeldBy, Active
  <2> QED
    BY <2>1, <2>2 DEF Contract!Course
<1>5. CASE \E i \in Route(o) : Start(o, i)
  BY <1>1, <1>5, StartRefines DEF Contract!Course, Contract!Steps, Route
<1>6. CASE \E i \in Route(o), good, defect \in Nat : Complete(o, i, good, defect)
  BY <1>6, CompleteRefines DEF Contract!Course, Contract!Steps, Route
<1>7. CASE \E s \in SpecsOf[o], verdict \in {"PASS", "FAIL", "HOLD"} : Verdict(o, s, verdict)
  BY <1>7, VerdictRefines DEF Verdict, CanDecide, inventoryVars, Contract!Course
<1>8. CASE \E s \in SpecsOf[o], verdict \in {"PASS", "FAIL"} : Review(o, s, verdict)
  BY <1>8, VerdictRefines DEF Review, CanReview, inventoryVars, Contract!Course
<1>9. \/ Release(o) \/ Cancel(o)
      \/ \E l \in Lot, a \in Allocation, quantity \in Nat \ {0} : Reserve(o, l, a, quantity)
      \/ \E i \in Route(o) : Start(o, i)
      \/ \E i \in Route(o), good, defect \in Nat : Complete(o, i, good, defect)
      \/ \E s \in SpecsOf[o], verdict \in {"PASS", "FAIL", "HOLD"} : Verdict(o, s, verdict)
      \/ \E s \in SpecsOf[o], verdict \in {"PASS", "FAIL"} : Review(o, s, verdict)
  <2>1. Planned[o] \in Nat /\ 0..Planned[o] \subseteq Nat
    BY DatabaseAssumption
  <2>2. \A l \in Lot : 1..lot[l].onHand \subseteq Nat \ {0}
    BY <1>1, TypeParts DEF LotsTyped, LotRow
  <2> QED
    BY <2>1, <2>2 DEF OrderStep
<1> QED
  BY <1>2, <1>3, <1>4, <1>5, <1>6, <1>7, <1>8, <1>9

LEMMA StepRefines ==
  ASSUME ContractInvariant, ContractInvariant', [Next]_vars
  PROVE  [Contract!Next]_(Contract!contractVars)
<1>1. CASE \E o \in Order : OrderStep(o)
  BY <1>1, OrderStepRefines DEF Contract!Next
<1>2. CASE \E a \in Allocation : ReleaseReservation(a)
  <2>1. TypeOK'
    BY DEF ContractInvariant, LifeInvariant, FlowInvariant, TypeInvariant
  <2>2. PICK o \in Order : Contract!Allot(o, HeldBy(o)')
    BY <1>2, <2>1, ReleaseReservationRefines
  <2>3. HeldBy(o)' \in SUBSET Allocation
    BY DEF HeldBy, Active
  <2> QED
    BY <2>2, <2>3 DEF Contract!Next, Contract!Course
<1>3. CASE UNCHANGED <<order, step, consumed, inspection, alloc>>
  BY <1>3 DEF Contract!contractVars, StatusView, WorkView, OutcomeView, ClaimView, HeldBy, Active
<1> QED
  BY <1>1, <1>2, <1>3, StepKinds

-----------------------------------------------------------------------------
(* THE SEEDED TABLES *)

LEMMA InitRefines == Init => Contract!Init
<1> SUFFICES ASSUME Init PROVE Contract!Init
  OBVIOUS
<1>1. StatusView = [o \in Order |-> IF o \in Imported THEN "IN_PROGRESS" ELSE "DRAFT"]
  BY DEF Init, StatusView
<1>2. WorkView = [o \in Order |-> [i \in Route(o) |->
                    IF o \in Imported /\ i = 1 THEN "begun" ELSE "waiting"]]
  BY DEF Init, WorkView, Work, SeedStep, NoStep
<1>3. OutcomeView \in [Order -> [InspectionSpec -> {"open", "HOLD"}]]
  BY DEF Init, OutcomeView, Outcome, SeedCheck, NoCheck
<1>4. ClaimView \in [Order -> SUBSET Allocation]
  BY DEF ClaimView, HeldBy, Active
<1>5. ASSUME NEW o \in Order \ Imported
      PROVE  ClaimView[o] = {} /\ \A s \in InspectionSpec : OutcomeView[o][s] = "open"
  <2>1. \A s \in InspectionSpec : OutcomeView[o][s] = "open"
    BY DEF Init, OutcomeView, Outcome, SeedCheck, NoCheck
  <2>2. ASSUME NEW a \in HeldBy(o) PROVE FALSE
    <3>1. alloc[a] = SeedAllocation(a) /\ alloc[a].status = "ACTIVE" /\ alloc[a].order = o
      BY <2>2 DEF Init, HeldBy, Active
    <3> QED
      BY <3>1 DEF SeedAllocation, FreeRow
  <2> QED
    BY <2>1, <2>2 DEF ClaimView
<1> QED
  BY <1>1, <1>2, <1>3, <1>4, <1>5 DEF Contract!Init, Contract!Steps, Route

(***************************************************************************)
(* The commands implement the contract: whatever is reserved, executed,    *)
(* inspected, reviewed, cancelled and put under quality control, in        *)
(* whatever order, every order takes only the course the contract allows   *)
(* (all controllers that write orders, steps, inspections, reservations).  *)
(***************************************************************************)
THEOREM CommandsKeepContract == Spec => ContractKept
<1>1. Init => ContractInvariant
  BY InitLifeInvariant, InitChecksBelong DEF ContractInvariant
<1>2. ContractInvariant /\ [Next]_vars => ContractInvariant'
  BY NextLifeInvariant, NextChecksBelong
     DEF ContractInvariant, LifeInvariant, FlowInvariant, TypeInvariant
<1>3. ContractInvariant /\ ContractInvariant' /\ [Next]_vars
        => [Contract!Next]_(Contract!contractVars)
  BY StepRefines
<1> QED
  BY <1>1, <1>2, <1>3, InitRefines, PTL DEF Spec, ContractKept, Contract!Spec

-----------------------------------------------------------------------------
(* THE PAGES OF THE CLIENT *)

Verdicts == {"PASS", "FAIL", "HOLD"}

FormRow == [kind : {"none", "reservation", "completion", "verdict", "start"},
            pending : BOOLEAN, target : Nat \cup InspectionSpec, limit : Quantity,
            verdict : Verdicts,
            rows : SUBSET [row : Allocation, lot : Lot \cup {NoLot}, quantity : Nat],
            lots : [Lot -> Nat], reading : SUBSET {"rows", "lots"}]

PageExists(p) ==
  /\ p.at \in {"order", "reservations", "queue", "inspections", "process", "inspection"}
  /\ p.order \in Order
  /\ p.at = "process" => p.item \in Route(p.order)
  /\ p.at = "inspection" => p.item \in SpecsOf[p.order]

\* A detail is the answer to a reading of its page, some time or other.
DetailFits(p, d) ==
  /\ p.at = "process" => d \in [readiness : Readiness, limit : Quantity]
  /\ p.at = "queue" => d \in [Route(p.order) -> [readiness : Readiness, limit : Quantity]]
  /\ p.at = "inspection" => d \in [undecided : BOOLEAN, held : BOOLEAN, eligible : BOOLEAN]
  /\ p.at = "inspections" => d \subseteq SpecsOf[p.order]

\* A form belongs to its page; that of a detail page is about its one row.
FormFits(p, f) ==
  /\ f.kind = "reservation" => p.at \in {"order", "reservations"}
  /\ f.kind = "completion" => p.at \in {"process", "queue"} /\ f.target \in Route(p.order)
  /\ f.kind = "verdict" => p.at \in {"inspection", "inspections"} /\ f.target \in SpecsOf[p.order]
  /\ f.kind = "start" => p.at = "queue" /\ f.target \in Route(p.order)
  /\ p.at \in {"process", "inspection"} /\ f.kind # "none" => f.target = p.item

\* The pages of an order always show the reservation panel with it.
PanelShown(p, phase, f) ==
  phase = "shown" /\ p.at \in {"order", "reservations"} => f.kind = "reservation"

\* A command names what there is in the plant.
Sendable(c) ==
  /\ c.order \in Order
  /\ c.do \in {"release", "cancel", "reserve", "dissolve", "start", "complete", "verdict", "review"}
  /\ c.do = "reserve" => c.item \in Lot /\ c.arg \in Nat \ {0}
  /\ c.do = "dissolve" => c.item \in Allocation
  /\ c.do \in {"start", "complete"} => c.item \in Route(c.order)
  /\ c.do = "complete" => c.arg[1] \in Nat /\ c.arg[2] \in Nat
  /\ c.do \in {"verdict", "review"} => c.item \in SpecsOf[c.order] /\ c.arg \in Verdicts

CallFits ==
  /\ call = [command |-> call.command, state |-> call.state]
  /\ call # NoCall => call.state \in {"sent", "done"} /\ Sendable(call.command)

ClientTyped ==
  /\ PageExists(page)
  /\ view = [phase |-> view.phase, detail |-> view.detail]
  /\ view.phase = "shown" => DetailFits(page, view.detail)
  /\ form \in FormRow /\ FormFits(page, form) /\ PanelShown(page, view.phase, form)
  /\ CallFits

\* A command has taken effect, as far as its order's contract tells.
Took(c) ==
  /\ c.do = "release" => StatusView[c.order] # "DRAFT"
  /\ c.do = "cancel" => StatusView[c.order] = "CANCELLED"
  /\ c.do = "dissolve" => alloc[c.item].status = "CLOSED"
  /\ c.do = "start" => WorkView[c.order][c.item] # "waiting"
  /\ c.do = "complete" => WorkView[c.order][c.item] = "done"
  /\ c.do \in {"verdict", "review"} =>
       /\ OutcomeView[c.order][c.item] # "open"
       /\ c.arg # "HOLD" => OutcomeView[c.order][c.item] \in {"PASS", "FAIL"}

\* The answer to an executed command is still true.
AnswerTrue == call.state = "done" /\ call.command.do # "reserve" => Took(call.command)

\* c is what form f of page p sends.
SentBy(p, f, c) ==
  /\ c.order = p.order
  /\ f.kind = "reservation" => c.do \in {"reserve", "dissolve"}
  /\ f.kind = "completion" => c.do = "complete" /\ c.item = f.target
  /\ f.kind = "start" => c.do = "start" /\ c.item = f.target
  /\ f.kind = "verdict" => c.do \in {"verdict", "review"} /\ c.item = f.target /\ c.arg = f.verdict

\* The effect of what a form sent.
Served(p, f) ==
  /\ f.kind = "completion" => WorkView[p.order][f.target] = "done"
  /\ f.kind = "start" => WorkView[p.order][f.target] # "waiting"
  /\ f.kind = "verdict" =>
       /\ OutcomeView[p.order][f.target] # "open"
       /\ f.verdict # "HOLD" => OutcomeView[p.order][f.target] \in {"PASS", "FAIL"}

PendingExplained ==
  form.pending =>
    /\ form.kind # "none"
    /\ call # NoCall => SentBy(page, form, call.command)
    /\ call = NoCall =>
         /\ form.kind # "reservation" /\ ~IsDialog(page, form)
         /\ Served(page, form)
         /\ due \/ HeldFormKept

\* What the server answers to the reading of a page fits that page.
LEMMA LimitType ==
  ASSUME TypeOK, NEW o \in Order, NEW i \in Route(o)
  PROVE  OutputQuantityLimit(step[o], i, Planned[o]) \in Quantity
<1>1. Planned[o] \in Nat /\ step[o] \in [Route(o) -> StepRow]
  BY DatabaseAssumption, TypeParts DEF OrdersTyped, StepsTyped
<1>2. CASE i = 1
  BY <1>1, <1>2 DEF OutputQuantityLimit, Quantity
<1>3. CASE i # 1
  <2>1. step[o][i-1].good \in Quantity
    BY <1>1, <1>3, RoutePrefix DEF StepRow
  <2> QED
    BY <1>1, <1>3, <2>1 DEF OutputQuantityLimit, Quantity
<1> QED
  BY <1>2, <1>3

\* The detail of a step.
LEMMA StepDetailType ==
  ASSUME TypeOK, NEW o \in Order, NEW i \in Route(o)
  PROVE  StepDetail(o, i) \in [readiness : Readiness, limit : Quantity]
<1>1. step[o][i].readiness \in Readiness
  BY TypeParts DEF OrdersTyped, StepsTyped, StepRow
<1> QED
  BY <1>1, LimitType DEF StepDetail

\* Every answer to the reading of a page fits the page.
LEMMA AnswerFits ==
  ASSUME TypeOK, NEW p, PageExists(p)
  PROVE  DetailFits(p, Detail(p))
<1>1. CASE p.at = "process"
  BY <1>1, StepDetailType DEF PageExists, DetailFits, Detail
<1>2. CASE p.at = "queue"
  <2>1. Detail(p) = [i \in Route(p.order) |-> StepDetail(p.order, i)]
    BY <1>2 DEF Detail
  <2> QED
    BY <1>2, <2>1, StepDetailType DEF PageExists, DetailFits
<1>3. CASE p.at = "inspection"
  BY <1>3 DEF DetailFits, Detail, InspectionDetail, Undecided, Held, Eligible
<1>4. CASE p.at = "inspections"
  BY <1>4 DEF DetailFits, Detail
<1> QED
  BY <1>1, <1>2, <1>3, <1>4 DEF DetailFits

\* The forms that a page renders by itself.
LEMMA FormsType ==
  /\ NoForm \in FormRow
  /\ ReservationForm \in FormRow
  /\ \A i \in Nat, limit \in Quantity : CompletionForm(i, limit) \in FormRow
  /\ \A s \in InspectionSpec : VerdictForm(s) \in FormRow
BY DEF NoForm, ReservationForm, CompletionForm, VerdictForm, FormRow, NoLots, Verdicts, Quantity,
       Null

\* They are fresh: nothing was sent yet.
LEMMA FormKinds ==
  /\ NoForm.kind = "none" /\ ReservationForm.kind = "reservation"
  /\ \A i, limit : CompletionForm(i, limit).kind = "completion" /\ CompletionForm(i, limit).target = i
  /\ \A s : VerdictForm(s).kind = "verdict" /\ VerdictForm(s).target = s
  /\ ~NoForm.pending /\ ~ReservationForm.pending
  /\ \A i, limit : ~CompletionForm(i, limit).pending
  /\ \A s : ~VerdictForm(s).pending
BY DEF NoForm, ReservationForm, CompletionForm, VerdictForm

\* What a page renders by itself fits the page.
LEMMA FormOnFits ==
  ASSUME NEW p, PageExists(p), NEW d, DetailFits(p, d)
  PROVE  /\ FormOn(p, d) \in FormRow /\ FormFits(p, FormOn(p, d))
         /\ ~FormOn(p, d).pending
<1>1. CASE p.at \in {"order", "reservations"}
  <2>1. FormOn(p, d) = ReservationForm
    BY <1>1 DEF FormOn
  <2> QED
    BY <1>1, <2>1, FormsType, FormKinds DEF FormFits
<1>2. CASE p.at = "process" /\ d.readiness = "IN_PROGRESS"
  <2>1. FormOn(p, d) = CompletionForm(p.item, d.limit)
    BY <1>2 DEF FormOn
  <2>2. p.item \in Route(p.order) /\ p.item \in Nat /\ d.limit \in Quantity
    BY <1>2, RouteNonempty DEF PageExists, DetailFits
  <2> QED
    BY <1>2, <2>1, <2>2, FormsType, FormKinds DEF FormFits
<1>3. CASE p.at = "inspection" /\ VerdictOrReview(d)
  <2>1. FormOn(p, d) = VerdictForm(p.item)
    BY <1>3 DEF FormOn
  <2>2. p.item \in SpecsOf[p.order] /\ p.item \in InspectionSpec
    BY <1>3, DatabaseAssumption DEF PageExists
  <2> QED
    BY <1>3, <2>1, <2>2, FormsType, FormKinds DEF FormFits
<1>4. CASE ~ \/ p.at \in {"order", "reservations"}
             \/ p.at = "process" /\ d.readiness = "IN_PROGRESS"
             \/ p.at = "inspection" /\ VerdictOrReview(d)
  <2>1. FormOn(p, d) = NoForm
    BY <1>4 DEF FormOn
  <2> QED
    BY <2>1, FormsType, FormKinds DEF FormFits
<1> QED
  BY <1>1, <1>2, <1>3, <1>4

\* A form that survives a reading is the one from before, else it is fresh.
LEMMA RenderedFits ==
  ASSUME NEW p, PageExists(p), NEW d, DetailFits(p, d), NEW f \in FormRow, FormFits(p, f)
  PROVE  /\ Rendered(p, d, f) \in FormRow /\ FormFits(p, Rendered(p, d, f))
         /\ Rendered(p, d, f).pending => FormKept(p, d, f) /\ Rendered(p, d, f) = f
         /\ \A phase : PanelShown(p, phase, Rendered(p, d, f))
<1>1. p.at \in {"order", "reservations"} => FormOn(p, d).kind = "reservation"
  BY FormKinds DEF FormOn
<1>2. p.at \in {"order", "reservations"} /\ FormKept(p, d, f) => f.kind = "reservation"
  BY <1>1 DEF FormKept, FormFits, IsDialog
<1> QED
  BY <1>1, <1>2, FormOnFits DEF Rendered, PanelShown

\* The rows and the lots a reservation panel reads.
LEMMA PanelType ==
  ASSUME TypeOK, NEW o \in Order
  PROVE  /\ ReservationRows(o) \subseteq [row : Allocation, lot : Lot \cup {NoLot}, quantity : Nat]
         /\ AvailableLots \in [Lot -> Nat]
         /\ NoLots \in [Lot -> Nat]
<1>1. \A a \in HeldBy(o) : a \in Allocation /\ alloc[a] \in AllocationRow
  BY TypeParts DEF HeldBy, Active, AllocationsTyped
<1>2. \A a \in HeldBy(o) : alloc[a].lot \in Lot \cup {NoLot} /\ alloc[a].quantity \in Nat
  BY <1>1 DEF AllocationRow
<1>3. \A l \in Lot : lot[l].onHand \in Int /\ lot[l].reserved \in Int
  BY TypeParts DEF LotsTyped, LotRow
<1>4. \A l \in Lot : Available(l) \in Nat
  BY <1>3 DEF Available
<1>5. AvailableLots \in [Lot -> Nat]
  BY <1>4 DEF AvailableLots
<1> QED
  BY <1>1, <1>2, <1>5 DEF ReservationRows, NoLots

-----------------------------------------------------------------------------
(* WHAT A PAGE OFFERS, THE SERVER UNDERSTANDS *)

LEMMA CommandFields ==
  ASSUME NEW do, NEW o, NEW item, NEW arg
  PROVE  /\ Command(do, o, item, arg).do = do /\ Command(do, o, item, arg).order = o
         /\ Command(do, o, item, arg).item = item /\ Command(do, o, item, arg).arg = arg
BY DEF Command

\* A form that sends something is the one on the screen.
FormSends(p, f, c) ==
  /\ Sendable(c)
  /\ c.do \in {"release", "cancel"} \/ c.do = "start" \/ SentBy(p, f, c)
  /\ c.do = "start" => p.at = "queue" /\ c.order = p.order
  /\ c.order = p.order
  /\ c.do \in {"release", "cancel"} => p.at = "order"
  /\ c.do \in {"reserve", "dissolve"} => p.at \in {"order", "reservations"}
  /\ c.do = "complete" => f.kind = "completion"
  /\ c.do \in {"verdict", "review"} => f.kind = "verdict"

\* The reservation panel.
LEMMA ReservationSends ==
  ASSUME NEW p, PageExists(p), p.at \in {"order", "reservations"}, NEW d,
         NEW f \in FormRow, FormFits(p, f), NEW c \in ReservationCommands(p.order, d, f)
  PROVE  FormSends(p, f, c)
<1>0. /\ f.kind \in {"none", "reservation"} /\ p.order \in Order
      /\ f.rows \subseteq [row : Allocation, lot : Lot \cup {NoLot}, quantity : Nat]
  BY DEF FormFits, FormRow, PageExists
<1>1. CASE \E r \in f.rows : c = Command("dissolve", p.order, r.row, 0)
  <2>1. PICK r \in f.rows : c = Command("dissolve", p.order, r.row, 0)
    BY <1>1
  <2>2. c.do = "dissolve" /\ c.order = p.order /\ c.item \in Allocation
    BY <1>0, <2>1, CommandFields
  <2> QED
    BY <1>0, <2>2 DEF FormSends, Sendable, SentBy
<1>2. CASE \E l \in Lot : \E n \in 1..MaxQuantity(p.order, f, l) : c = Command("reserve", p.order, l, n)
  <2>1. PICK l \in Lot : \E n \in 1..MaxQuantity(p.order, f, l) : c = Command("reserve", p.order, l, n)
    BY <1>2
  <2>2. PICK n \in 1..MaxQuantity(p.order, f, l) : c = Command("reserve", p.order, l, n)
    BY <2>1
  <2>3. n \in Nat \ {0}
    OBVIOUS
  <2>4. c.do = "reserve" /\ c.order = p.order /\ c.item \in Lot /\ c.arg \in Nat \ {0}
    BY <2>2, <2>3, CommandFields
  <2> QED
    BY <1>0, <2>4 DEF FormSends, Sendable, SentBy
<1> QED
  BY <1>1, <1>2 DEF ReservationCommands

\* The buttons of the order page.
LEMMA OrderSends ==
  ASSUME NEW p, PageExists(p), p.at = "order", NEW d, NEW f, NEW c \in OrderCommands(p.order, d)
  PROVE  FormSends(p, f, c)
<1>1. c = Command("release", p.order, 0, 0) \/ c = Command("cancel", p.order, 0, 0)
  BY DEF OrderCommands
<1>2. c.do \in {"release", "cancel"} /\ c.order = p.order
  BY <1>1, CommandFields
<1> QED
  BY <1>2 DEF FormSends, Sendable, PageExists

\* The completion form.
LEMMA CompletionSends ==
  ASSUME NEW p, PageExists(p), NEW f \in FormRow, FormFits(p, f), f.kind = "completion",
         NEW c \in CompletionCommands(p.order, f.target, f.limit)
  PROVE  FormSends(p, f, c)
<1>1. f.target \in Route(p.order) /\ f.limit \in Nat
  BY DEF FormFits, FormRow, CompletionCommands, Quantity
<1>2. PICK good \in 0..f.limit : c = Command("complete", p.order, f.target, <<good, f.limit - good>>)
  BY DEF CompletionCommands
<1>3. good \in Nat /\ f.limit - good \in Nat
  BY <1>1
<1>4. c.do = "complete" /\ c.order = p.order /\ c.item = f.target /\ c.arg = <<good, f.limit - good>>
  BY <1>2, CommandFields
<1>5. c.arg[1] = good /\ c.arg[2] = f.limit - good
  BY <1>4
<1> QED
  BY <1>1, <1>3, <1>4, <1>5 DEF FormSends, Sendable, SentBy, PageExists

\* The verdict form.
LEMMA VerdictSends ==
  ASSUME NEW p, PageExists(p), NEW d, NEW f \in FormRow, FormFits(p, f), f.kind = "verdict",
         NEW c \in VerdictCommands(p, d, f)
  PROVE  FormSends(p, f, c)
<1>1. f.target \in SpecsOf[p.order] /\ f.verdict \in Verdicts
  BY DEF FormFits, FormRow
<1>2. c.do \in {"verdict", "review"} /\ c.order = p.order /\ c.item = f.target /\ c.arg = f.verdict
  BY CommandFields DEF VerdictCommands
<1> QED
  BY <1>1, <1>2 DEF FormSends, Sendable, SentBy, PageExists

\* The rows of the queue.
LEMMA StartSends ==
  ASSUME NEW p, PageExists(p), p.at = "queue", NEW d, DetailFits(p, d), NEW f,
         NEW c \in StartCommands(p.order, d)
  PROVE  FormSends(p, f, c)
<1>1. PICK i \in DOMAIN d : c = Command("start", p.order, i, 0)
  BY DEF StartCommands
<1>2. DOMAIN d = Route(p.order)
  BY DEF DetailFits
<1>3. c.do = "start" /\ c.order = p.order /\ c.item = i
  BY <1>1, CommandFields
<1> QED
  BY <1>1, <1>2, <1>3 DEF FormSends, Sendable, PageExists

\* Every command a page offers names what there is, and matches the form in use.
LEMMA OfferedSends ==
  ASSUME NEW p, PageExists(p), NEW d, DetailFits(p, d), NEW f \in FormRow, FormFits(p, f),
         NEW c \in Offered(p, d, f)
  PROVE  FormSends(p, f, c)
<1>1. CASE p.at = "order"
  <2>1. Offered(p, d, f) = OrderCommands(p.order, d) \cup ReservationCommands(p.order, d, f)
    BY <1>1 DEF Offered
  <2> QED
    BY <1>1, <2>1, OrderSends, ReservationSends
<1>2. CASE p.at = "reservations"
  <2>1. Offered(p, d, f) = ReservationCommands(p.order, d, f)
    BY <1>2 DEF Offered
  <2> QED
    BY <1>2, <2>1, ReservationSends
<1>3. CASE p.at \in {"process", "queue"} /\ f.kind = "completion"
  <2>1. Offered(p, d, f) = CompletionCommands(p.order, f.target, f.limit)
    BY <1>3 DEF Offered
  <2> QED
    BY <1>3, <2>1, CompletionSends
<1>4. CASE p.at = "queue" /\ f.kind # "completion"
  <2>1. Offered(p, d, f) = StartCommands(p.order, d)
    BY <1>4 DEF Offered
  <2> QED
    BY <1>4, <2>1, StartSends
<1>5. CASE p.at \in {"inspection", "inspections"} /\ f.kind = "verdict"
  <2>1. Offered(p, d, f) = VerdictCommands(p, d, f)
    BY <1>5 DEF Offered
  <2> QED
    BY <1>5, <2>1, VerdictSends
<1>6. CASE ~ \/ p.at \in {"order", "reservations", "queue"}
             \/ p.at = "process" /\ f.kind = "completion"
             \/ p.at \in {"inspection", "inspections"} /\ f.kind = "verdict"
  <2>1. Offered(p, d, f) = {}
    BY <1>6 DEF Offered
  <2> QED
    BY <2>1
<1> QED
  BY <1>1, <1>2, <1>3, <1>4, <1>5, <1>6

-----------------------------------------------------------------------------
(* WHAT THE SERVER DOES FOR A PAGE, IT DOES FOR ANYBODY *)

PlantInvariant == ContractInvariant /\ Books

LEMMA PlantTyped == PlantInvariant => TypeOK
BY DEF PlantInvariant, ContractInvariant, LifeInvariant, FlowInvariant, TypeInvariant

\* What is available in a lot is part of what it holds.
LEMMA ReservedQuantity ==
  ASSUME PlantInvariant, NEW l \in Lot, NEW n \in Nat \ {0}, n <= Available(l)
  PROVE  n \in 1..lot[l].onHand
<1>1. lot[l].onHand \in Int /\ lot[l].reserved \in Nat
  <2>1. AllocationsTyped /\ ReservedOn(l) \in SUBSET Allocation
    BY PlantTyped, TypeParts DEF ReservedOn, Active
  <2>2. Total(ReservedOn(l)) \in Nat
    BY <2>1, TotalType
  <2> QED
    BY <2>2, PlantTyped, TypeParts
       DEF PlantInvariant, Books, ReservedMatchesAllocations, LotsTyped, LotRow
<1> QED
  BY <1>1 DEF Available

\* What accounts for the input of a step is part of what was planned.
LEMMA CompletedQuantities ==
  ASSUME TypeOK, NEW o \in Order, NEW i \in Route(o), NEW good \in Nat, NEW defect \in Nat,
         QuantityAccounted(o, i, good, defect)
  PROVE  good \in 0..Planned[o] /\ defect \in 0..Planned[o]
<1>1. Planned[o] \in Nat
  BY DatabaseAssumption
<1>2. OutputQuantityLimit(step[o], i, Planned[o]) \in Quantity
  BY LimitType
<1>3. OutputQuantityLimit(step[o], i, Planned[o]) # Null
        => OutputQuantityLimit(step[o], i, Planned[o]) <= Planned[o]
  <2>1. i # 1 => step[o][i-1].good \in Quantity
    BY TypeParts, RoutePrefix DEF OrdersTyped, StepsTyped, StepRow
  <2> QED
    BY <1>1, <2>1 DEF OutputQuantityLimit, Quantity, Null
<1> QED
  BY <1>1, <1>2, <1>3 DEF QuantityAccounted, Quantity, Null

\* A command of a page is a command on its order, or the end of a reservation.
LEMMA ServerSteps ==
  ASSUME PlantInvariant, NEW c, Sendable(c), ServerDoes(c)
  PROVE  IF c.do = "dissolve" THEN ReleaseReservation(c.item) /\ c.item \in Allocation
         ELSE OrderStep(c.order)
<1>0. TypeOK /\ c.order \in Order
  BY PlantTyped DEF Sendable
<1>1. CASE WorkOrderCommand(c)
  BY <1>1 DEF WorkOrderCommand, OrderStep
<1>2. CASE c.do = "reserve" /\ \E a \in Allocation : Reserve(c.order, c.item, a, c.arg)
  <2>1. PICK a \in Allocation : Reserve(c.order, c.item, a, c.arg)
    BY <1>2
  <2>2. c.item \in Lot /\ c.arg \in Nat \ {0} /\ c.arg <= Available(c.item)
    BY <1>2, <2>1 DEF Sendable, Reserve, CanReserve
  <2>3. c.arg \in 1..lot[c.item].onHand
    BY <2>2, ReservedQuantity
  <2> QED
    BY <1>2, <2>1, <2>2, <2>3 DEF OrderStep
<1>3. CASE c.do = "dissolve" /\ ReleaseReservation(c.item)
  BY <1>3 DEF Sendable
<1>4. CASE c.do = "start" /\ Start(c.order, c.item)
  BY <1>4 DEF Sendable, OrderStep
<1>5. CASE c.do = "complete" /\ Complete(c.order, c.item, c.arg[1], c.arg[2])
  <2>1. c.item \in Route(c.order) /\ c.arg[1] \in Nat /\ c.arg[2] \in Nat
    BY <1>5 DEF Sendable
  <2>2. QuantityAccounted(c.order, c.item, c.arg[1], c.arg[2])
    BY <1>5 DEF Complete, CanComplete
  <2>3. c.arg[1] \in 0..Planned[c.order] /\ c.arg[2] \in 0..Planned[c.order]
    BY <1>0, <2>1, <2>2, CompletedQuantities
  <2> QED
    BY <1>5, <2>1, <2>3 DEF OrderStep
<1>6. CASE InspectionCommand(c)
  <2>1. c.do # "dissolve" /\ c.item \in SpecsOf[c.order] /\ c.arg \in Verdicts
    BY <1>6 DEF InspectionCommand, Sendable
  <2> QED
    BY <1>6, <2>1 DEF InspectionCommand, Verdicts, OrderStep
<1> QED
  BY <1>1, <1>2, <1>3, <1>4, <1>5, <1>6 DEF ServerDoes, MaterialCommand, ProcessCommand

LEMMA ServerIsPlant ==
  ASSUME PlantInvariant, NEW c, Sendable(c), ServerDoes(c)
  PROVE  Next
BY ServerSteps DEF Next, Sendable

-----------------------------------------------------------------------------
(* A COMMAND TAKES EFFECT ONCE *)

\* No command but a reservation can take effect on what it already did.
LEMMA TakesEffect ==
  ASSUME PlantInvariant, PlantInvariant', NEW c, Sendable(c), c.do # "reserve", ServerDoes(c)
  PROVE  ~Took(c) /\ Took(c)'
<1>0. /\ ContractInvariant /\ ContractInvariant' /\ TypeOK /\ TypeOK' /\ c.order \in Order
      /\ c.do # "dissolve" => OrderStep(c.order)
  BY ServerSteps
     DEF PlantInvariant, Sendable, ContractInvariant, LifeInvariant, FlowInvariant, TypeInvariant
<1>1. CASE c.do = "release" /\ Release(c.order)
  <2>1. Contract!Release(c.order)
    BY <1>0, <1>1, ReleaseRefines
  <2>2. StatusView[c.order] = "DRAFT" /\ StatusView'[c.order] = "RELEASED"
    BY <1>0, <2>1 DEF Contract!Release, StatusView
  <2> QED
    BY <1>1, <2>2 DEF Took
<1>2. CASE c.do = "cancel" /\ Cancel(c.order)
  <2>1. Contract!Cancel(c.order)
    BY <1>0, <1>2, CancelRefines
  <2>2. StatusView[c.order] # "CANCELLED" /\ StatusView'[c.order] = "CANCELLED"
    BY <1>0, <2>1 DEF Contract!Cancel, StatusView
  <2> QED
    BY <1>2, <2>2 DEF Took
<1>3. CASE c.do = "dissolve" /\ ReleaseReservation(c.item)
  <2>1. c.item \in Allocation /\ alloc[c.item] \in AllocationRow
    BY <1>0, <1>3, TypeParts DEF Sendable, AllocationsTyped
  <2>2. alloc[c.item].status = "ACTIVE" /\ alloc'[c.item].status = "CLOSED"
    BY <1>0, <1>3, <2>1, TypeParts DEF ReleaseReservation, CanDissolve,
                                       ReservationDissolved, AllocationsTyped,
                                       AllocationRow
  <2> QED
    BY <1>3, <2>2 DEF Took
<1>4. CASE c.do = "start" /\ Start(c.order, c.item)
  <2>1. c.item \in Route(c.order)
    BY <1>4 DEF Sendable
  <2>2. Contract!Begin(c.order, c.item)
    BY <1>0, <1>4, <2>1, StartRefines
  <2>3. WorkView[c.order][c.item] = "waiting" /\ WorkView'[c.order][c.item] = "begun"
    BY <1>0, <2>1, <2>2 DEF Contract!Begin, WorkView
  <2> QED
    BY <1>4, <2>3 DEF Took
<1>5. CASE c.do = "complete" /\ Complete(c.order, c.item, c.arg[1], c.arg[2])
  <2>1. c.item \in Route(c.order) /\ c.arg[1] \in Nat /\ c.arg[2] \in Nat
    BY <1>5 DEF Sendable
  <2>2. Contract!Finish(c.order, c.item)
    BY <1>0, <1>5, <2>1, CompleteRefines
  <2>3. WorkView[c.order][c.item] = "begun" /\ WorkView'[c.order][c.item] = "done"
    BY <1>0, <2>1, <2>2 DEF Contract!Finish, WorkView
  <2> QED
    BY <1>5, <2>3 DEF Took
<1>6. CASE InspectionCommand(c)
  <2>1. /\ c.do \in {"verdict", "review"} /\ c.item \in SpecsOf[c.order] /\ c.arg \in Verdicts
        /\ c.item \in InspectionSpec
    BY <1>0, <1>6, DatabaseAssumption DEF InspectionCommand, Sendable
  <2>2. Contract!Decide(c.order, c.item, c.arg)
    <3>1. /\ Eligible(c.order, c.item) /\ VerdictProjected(c.order, c.item, c.arg) /\ alloc' = alloc
          /\ \/ Undecided(inspection[c.order][c.item])
             \/ Held(inspection[c.order][c.item]) /\ c.arg # "HOLD"
      BY <1>6 DEF InspectionCommand, Verdict, CanDecide, Review, CanReview,
                  inventoryVars
    <3> QED
      BY <1>0, <2>1, <3>1, VerdictRefines DEF Verdicts
  <2>3. /\ \/ OutcomeView[c.order][c.item] = "open"
           \/ OutcomeView[c.order][c.item] = "HOLD" /\ c.arg # "HOLD"
        /\ OutcomeView'[c.order][c.item] = c.arg
    BY <1>0, <2>1, <2>2 DEF Contract!Decide, OutcomeView
  <2> QED
    BY <2>1, <2>3 DEF Took, Verdicts
<1> QED
  BY <1>1, <1>2, <1>3, <1>4, <1>5, <1>6
     DEF ServerDoes, WorkOrderCommand, MaterialCommand, ProcessCommand

\* What took effect is never undone, and what is closed stays closed.
LEMMA ClosedStaysClosed ==
  ASSUME TypeOK, TypeOK', [Next]_vars, NEW a \in Allocation, alloc[a].status = "CLOSED"
  PROVE  alloc'[a].status = "CLOSED"
<1>0. alloc[a] \in AllocationRow
  BY TypeParts DEF AllocationsTyped
<1>1. ASSUME NEW o \in Order, OrderStep(o) PROVE alloc'[a].status = "CLOSED"
  <2>1. CASE \E A, reason : alloc' = Closed(A, reason)
    BY <1>0, <2>1 DEF Closed, AllocationRow
  <2>2. CASE \E l \in Lot, b \in Allocation, quantity \in Nat \ {0} : Reserve(o, l, b, quantity)
    BY <2>2, TypeParts DEF Reserve, CanReserve, AllocationsTyped
  <2>3. CASE alloc' = alloc
    BY <2>3
  <2> QED
    BY <1>1, <2>1, <2>2, <2>3, OrderStepCases
       DEF Release, CanRelease, Cancel, CanCancel, Start, CanStart, Complete,
           CanComplete, Verdict, CanDecide, Review, CanReview, inventoryVars
<1>2. ASSUME NEW b \in Allocation, ReleaseReservation(b) PROVE alloc'[a].status = "CLOSED"
  BY <1>0, <1>2, TypeParts DEF ReleaseReservation, CanDissolve, ReservationDissolved,
                               AllocationsTyped, AllocationRow
<1> QED
  BY <1>1, <1>2, StepKinds

\* The contract of an order never takes back a status, a step or a verdict.
LEMMA OrdersAdvance ==
  ASSUME PlantInvariant, PlantInvariant', [Next]_vars, NEW o \in Order
  PROVE  /\ StatusView[o] # "DRAFT" => StatusView'[o] # "DRAFT"
         /\ StatusView[o] = "CANCELLED" => StatusView'[o] = "CANCELLED"
         /\ \A i \in Route(o) :
              /\ WorkView[o][i] # "waiting" => WorkView'[o][i] # "waiting"
              /\ WorkView[o][i] = "done" => WorkView'[o][i] = "done"
         /\ \A s \in InspectionSpec :
              /\ OutcomeView[o][s] # "open" => OutcomeView'[o][s] # "open"
              /\ OutcomeView[o][s] \in {"PASS", "FAIL"} => OutcomeView'[o][s] \in {"PASS", "FAIL"}
<1>1. CASE UNCHANGED Contract!contractVars
  BY <1>1 DEF Contract!contractVars
<1>2. ASSUME NEW p \in Order, Contract!Course(p)
      PROVE  /\ StatusView[o] # "DRAFT" => StatusView'[o] # "DRAFT"
             /\ StatusView[o] = "CANCELLED" => StatusView'[o] = "CANCELLED"
             /\ \A i \in Route(o) :
                  /\ WorkView[o][i] # "waiting" => WorkView'[o][i] # "waiting"
                  /\ WorkView[o][i] = "done" => WorkView'[o][i] = "done"
             /\ \A s \in InspectionSpec :
                  /\ OutcomeView[o][s] # "open" => OutcomeView'[o][s] # "open"
                  /\ OutcomeView[o][s] \in {"PASS", "FAIL"} =>
                       OutcomeView'[o][s] \in {"PASS", "FAIL"}
  <2>0. /\ StatusView = [q \in Order |-> StatusView[q]]
        /\ WorkView = [q \in Order |-> WorkView[q]]
        /\ OutcomeView = [q \in Order |-> OutcomeView[q]]
        /\ WorkView[p] = [i \in Route(p) |-> WorkView[p][i]]
        /\ OutcomeView[p] = [s \in InspectionSpec |-> OutcomeView[p][s]]
    BY DEF StatusView, WorkView, OutcomeView
  <2>1. CASE Contract!Release(p)
    BY <2>0, <2>1 DEF Contract!Release
  <2>2. CASE Contract!Cancel(p)
    BY <2>0, <2>2 DEF Contract!Cancel
  <2>3. CASE \E C : Contract!Allot(p, C)
    BY <2>3 DEF Contract!Allot
  <2>4. CASE \E i \in Route(p) : Contract!Begin(p, i)
    <3>1. PICK i \in Route(p) : Contract!Begin(p, i)
      BY <2>4
    <3>2. WorkView'[p][i] = "begun" /\ \A j \in Route(p) \ {i} : WorkView'[p][j] = WorkView[p][j]
      BY <2>0, <3>1 DEF Contract!Begin
    <3>3. \A q \in Order \ {p} : WorkView'[q] = WorkView[q] /\ StatusView'[q] = StatusView[q]
      BY <2>0, <3>1 DEF Contract!Begin
    <3>4. /\ StatusView[p] # "CANCELLED" /\ StatusView'[p] = "IN_PROGRESS"
          /\ WorkView[p][i] = "waiting" /\ OutcomeView' = OutcomeView
      BY <2>0, <3>1 DEF Contract!Begin
    <3> QED
      BY <3>2, <3>3, <3>4
  <2>5. CASE \E i \in Route(p) : Contract!Finish(p, i)
    <3>1. PICK i \in Route(p) : Contract!Finish(p, i)
      BY <2>5
    <3>2. WorkView'[p][i] = "done" /\ \A j \in Route(p) \ {i} : WorkView'[p][j] = WorkView[p][j]
      BY <2>0, <3>1 DEF Contract!Finish
    <3>3. \A q \in Order \ {p} : WorkView'[q] = WorkView[q] /\ StatusView'[q] = StatusView[q]
      BY <2>0, <3>1 DEF Contract!Finish
    <3>4. /\ StatusView[p] = "IN_PROGRESS" /\ StatusView'[p] \in {"COMPLETED", "IN_PROGRESS"}
          /\ OutcomeView' = OutcomeView
      BY <2>0, <3>1 DEF Contract!Finish, Contract!Settled
    <3> QED
      BY <3>2, <3>3, <3>4
  <2>6. CASE \E s \in SpecsOf[p], verdict \in Verdicts : Contract!Decide(p, s, verdict)
    BY <2>0, <2>6 DEF Contract!Decide, Contract!Settled, Verdicts
  <2> QED
    BY <1>2, <2>1, <2>2, <2>3, <2>4, <2>5, <2>6
       DEF Contract!Course, Contract!Steps, Route, Verdicts
<1> QED
  BY <1>1, <1>2, StepRefines DEF PlantInvariant, Contract!Next

\* What a command did stays done, whatever others do.
LEMMA TookKept ==
  ASSUME PlantInvariant, PlantInvariant', [Next]_vars, NEW c, Sendable(c), Took(c)
  PROVE  Took(c)'
<1>1. TypeOK /\ TypeOK' /\ c.order \in Order
  BY DEF PlantInvariant, ContractInvariant, LifeInvariant, FlowInvariant, TypeInvariant, Sendable
<1>2. c.do = "dissolve" => alloc'[c.item].status = "CLOSED"
  BY <1>1, ClosedStaysClosed DEF Took, Sendable
<1>3. c.do \in {"verdict", "review"} => c.item \in InspectionSpec
  BY <1>1, DatabaseAssumption DEF Sendable
<1> QED
  BY <1>1, <1>2, <1>3, OrdersAdvance DEF Took, Sendable

-----------------------------------------------------------------------------
(* THE CLIENT STAYS WELL FORMED *)

\* A page that can be opened is one of a record that exists.
LEMMA PagesExist ==
  ASSUME NEW p \in Pages PROVE PageExists(p)
<1>1. CASE \E at \in {"order", "reservations", "queue", "inspections"}, o \in Order : p = Page(at, o, 0)
  BY <1>1 DEF Page, PageExists
<1>2. CASE \E o \in Order : \E i \in Route(o) : p = Page("process", o, i)
  BY <1>2 DEF Page, PageExists
<1>3. CASE \E o \in Order : \E s \in SpecsOf[o] : p = Page("inspection", o, s)
  <2>1. PICK o \in Order, s \in InspectionSpec : s \in SpecsOf[o] /\ p = Page("inspection", o, s)
    BY <1>3, DatabaseAssumption
  <2>2. p.at = "inspection" /\ p.order = o /\ p.item = s
    BY <2>1 DEF Page
  <2> QED
    BY <2>1, <2>2 DEF PageExists
<1>4. CASE p \in UNION {{Page("process", o, i) : i \in {j \in Route(o) : step[o][j] # NoStep}} : o \in Order}
  BY <1>2, <1>4
<1>5. CASE p \in UNION {{Page("inspection", o, s) :
                           s \in {t \in SpecsOf[o] : inspection[o][t] # NoCheck}} : o \in Order}
  BY <1>3, <1>5
<1>6. CASE p \in {Page(at, o, 0) : at \in {"order", "reservations", "queue", "inspections"}, o \in Order}
  BY <1>1, <1>6
<1> QED
  BY <1>4, <1>5, <1>6 DEF Pages

\* A state of the client, given by its parts.
LEMMA TypedNext ==
  ASSUME NEW p, page' = p, PageExists(p),
         NEW phase, NEW d, view' = [phase |-> phase, detail |-> d],
         phase = "shown" => DetailFits(p, d),
         NEW f \in FormRow, form' = f, FormFits(p, f), PanelShown(p, phase, f), CallFits'
  PROVE  ClientTyped'
<1>1. view'.phase = phase /\ view'.detail = d
  OBVIOUS
<1>2. PageExists(page') /\ (view'.phase = "shown" => DetailFits(page', view'.detail))
      /\ form' \in FormRow /\ FormFits(page', form') /\ PanelShown(page', view'.phase, form')
  BY <1>1
<1>3. view' = [phase |-> view'.phase, detail |-> view'.detail]
  BY <1>1
<1> QED
  BY <1>2, <1>3 DEF ClientTyped

LEMMA NoCallFits == call' = NoCall => CallFits'
BY DEF CallFits, NoCall

\* Changing one thing of a form.
LEMMA PendingChanged ==
  ASSUME NEW f \in FormRow, NEW p, FormFits(p, f), NEW b \in BOOLEAN,
         NEW g, g = [f EXCEPT !.pending = b]
  PROVE  /\ g \in FormRow /\ FormFits(p, g) /\ g.pending = b
         /\ g.kind = f.kind /\ g.target = f.target /\ g.verdict = f.verdict
<1>1. g \in FormRow
  BY DEF FormRow
<1>2. g.pending = b /\ g.kind = f.kind /\ g.target = f.target /\ g.verdict = f.verdict
  BY DEF FormRow
<1> QED
  BY <1>1, <1>2 DEF FormFits

LEMMA VerdictChanged ==
  ASSUME NEW f \in FormRow, NEW p, FormFits(p, f), NEW v \in Verdicts,
         NEW g, g = [f EXCEPT !.verdict = v]
  PROVE  g \in FormRow /\ FormFits(p, g) /\ g.pending = f.pending /\ g.kind = f.kind
<1>1. g \in FormRow
  BY DEF FormRow
<1>2. g.pending = f.pending /\ g.kind = f.kind /\ g.target = f.target
  BY DEF FormRow
<1> QED
  BY <1>1, <1>2 DEF FormFits

PanelRows == [row : Allocation, lot : Lot \cup {NoLot}, quantity : Nat]

\* The steps of the client, one by one.
LEMMA OpenTyped ==
  ASSUME NEW p \in Pages, Open(p) PROVE ClientTyped'
<1>1. PageExists(p) /\ FormFits(p, NoForm) /\ NoForm \in FormRow
  BY PagesExist, FormsType, FormKinds DEF FormFits
<1>2. /\ page' = p /\ view' = [phase |-> "loading", detail |-> {}]
      /\ form' = NoForm /\ call' = NoCall
  BY DEF Open
<1> QED
  BY <1>1, <1>2, NoCallFits, TypedNext DEF PanelShown

\* Keeping the call.
LEMMA SameCall ==
  ASSUME ClientTyped, UNCHANGED call PROVE CallFits'
BY DEF ClientTyped, CallFits

LEMMA NoFormFits ==
  ASSUME NEW p PROVE FormFits(p, NoForm) /\ NoForm \in FormRow
BY FormsType, FormKinds DEF FormFits

LEMMA ReadTyped ==
  ASSUME TypeOK, ClientTyped, Read \/ ReadFails \/ Retry PROVE ClientTyped'
<1>0. PageExists(page) /\ form \in FormRow /\ FormFits(page, form) /\ page' = page /\ CallFits'
  BY SameCall DEF ClientTyped, Read, ReadFails, Retry
<1>1. CASE Read
  <2>1. DetailFits(page, Detail(page))
    BY <1>0, AnswerFits
  <2>2. /\ Rendered(page, Detail(page), form) \in FormRow
        /\ FormFits(page, Rendered(page, Detail(page), form))
        /\ PanelShown(page, "shown", Rendered(page, Detail(page), form))
    BY <1>0, <2>1, RenderedFits
  <2>3. /\ view' = [phase |-> "shown", detail |-> Detail(page)]
        /\ form' = Rendered(page, Detail(page), form)
    BY <1>1 DEF Read
  <2> QED
    BY <1>0, <2>1, <2>2, <2>3, TypedNext
<1>2. CASE ReadFails
  <2>1. view' = [phase |-> "error", detail |-> {}] /\ (form' = form \/ form' = NoForm)
    BY <1>2 DEF ReadFails
  <2> QED
    BY <1>0, <2>1, NoFormFits, TypedNext DEF PanelShown
<1>3. CASE Retry
  <2>1. view' = [phase |-> "loading", detail |-> {}] /\ form' = form
    BY <1>3 DEF Retry
  <2> QED
    BY <1>0, <2>1, TypedNext DEF PanelShown
<1> QED
  BY <1>1, <1>2, <1>3

\* Steps that leave the page and its detail alone.
LEMMA SameViewTyped ==
  ASSUME ClientTyped, UNCHANGED <<page, view>>, CallFits',
         NEW f \in FormRow, form' = f, FormFits(page, f),
         f.kind = form.kind \/ page.at \notin {"order", "reservations"}
  PROVE  ClientTyped'
<1>1. /\ PageExists(page) /\ view' = [phase |-> view.phase, detail |-> view.detail]
      /\ view.phase = "shown" => DetailFits(page, view.detail)
      /\ PanelShown(page, view.phase, f)
  BY DEF ClientTyped, PanelShown
<1> QED
  BY <1>1, TypedNext

LEMMA FormStepTyped ==
  ASSUME TypeOK, ClientTyped,
         \/ \E ok \in BOOLEAN : ReadRows(ok) \/ ReadLots(ok)
         \/ OpenDialog \/ Dismiss \/ CloseSheet
         \/ \E verdict \in {"PASS", "FAIL", "HOLD"} : Choose(verdict)
  PROVE  ClientTyped'
<1>0. /\ PageExists(page) /\ form \in FormRow /\ FormFits(page, form)
      /\ UNCHANGED <<page, view>> /\ CallFits'
  BY SameCall DEF ClientTyped, ReadRows, ReadLots, OpenDialog, Dismiss, Done, CloseSheet, Choose
<1>1. ASSUME NEW ok \in BOOLEAN, ReadRows(ok) PROVE ClientTyped'
  <2>1. PICK rows \in SUBSET PanelRows, parts \in SUBSET {"rows", "lots"} :
          form' = [form EXCEPT !.reading = parts, !.rows = rows]
    <3>1. form.reading \ {"rows"} \in SUBSET {"rows", "lots"}
      BY <1>0 DEF FormRow
    <3> QED
      BY <1>0, <1>1, <3>1, PanelType DEF ReadRows, PanelRows, PageExists
  <2>2. form' \in FormRow
    BY <1>0, <2>1 DEF FormRow, PanelRows
  <2>3. form'.kind = form.kind /\ form'.target = form.target
    BY <1>0, <2>1 DEF FormRow
  <2>4. FormFits(page, form')
    BY <1>0, <2>3 DEF FormFits
  <2> QED
    BY <1>0, <2>2, <2>3, <2>4, SameViewTyped
<1>2. ASSUME NEW ok \in BOOLEAN, ReadLots(ok) PROVE ClientTyped'
  <2>1. PICK lots \in [Lot -> Nat], parts \in SUBSET {"rows", "lots"} :
          form' = [form EXCEPT !.reading = parts, !.lots = lots]
    <3>1. form.reading \ {"lots"} \in SUBSET {"rows", "lots"}
      BY <1>0 DEF FormRow
    <3> QED
      BY <1>0, <1>2, <3>1, PanelType DEF ReadLots, PageExists
  <2>2. form' \in FormRow
    BY <1>0, <2>1 DEF FormRow, PanelRows
  <2>3. form'.kind = form.kind /\ form'.target = form.target
    BY <1>0, <2>1 DEF FormRow
  <2>4. FormFits(page, form')
    BY <1>0, <2>3 DEF FormFits
  <2> QED
    BY <1>0, <2>2, <2>3, <2>4, SameViewTyped
<1>3. CASE OpenDialog
  <2>1. view.phase = "shown" /\ DetailFits(page, view.detail)
    BY <1>3 DEF OpenDialog, ClientTyped
  <2>2. ASSUME page.at = "queue", NEW i \in DOMAIN view.detail,
               form' = CompletionForm(i, view.detail[i].limit)
        PROVE  ClientTyped'
    <3>1. i \in Route(page.order) /\ i \in Nat /\ view.detail[i].limit \in Quantity
      BY <1>0, <2>1, <2>2, RouteNonempty DEF DetailFits, PageExists
    <3>2. form' \in FormRow /\ FormFits(page, form')
      BY <2>2, <3>1, FormsType, FormKinds DEF FormFits
    <3> QED
      BY <1>0, <2>2, <3>2, SameViewTyped
  <2>3. ASSUME page.at = "inspections", NEW s \in view.detail, form' = VerdictForm(s)
        PROVE  ClientTyped'
    <3>1. s \in SpecsOf[page.order] /\ s \in InspectionSpec
      BY <1>0, <2>1, <2>3, DatabaseAssumption DEF DetailFits, PageExists
    <3>2. form' \in FormRow /\ FormFits(page, form')
      BY <2>3, <3>1, FormsType, FormKinds DEF FormFits
    <3> QED
      BY <1>0, <2>3, <3>2, SameViewTyped
  <2> QED
    BY <1>3, <2>2, <2>3 DEF OpenDialog
<1>4. CASE form' = form \/ (form' = NoForm /\ IsDialog(page, form))
  BY <1>0, <1>4, NoFormFits, SameViewTyped DEF IsDialog
<1>5. ASSUME NEW verdict \in Verdicts, form' = [form EXCEPT !.verdict = verdict] PROVE ClientTyped'
  <2>1. form' \in FormRow /\ FormFits(page, form') /\ form'.kind = form.kind
    BY <1>0, <1>5, VerdictChanged
  <2> QED
    BY <1>0, <2>1, SameViewTyped
<1> QED
  BY <1>1, <1>2, <1>3, <1>4, <1>5 DEF Dismiss, Done, CloseSheet, Choose, Verdicts

\* What a submission leaves: the command under way and the form that waits for it.
LEMMA SubmitEffect ==
  ASSUME ClientTyped, NEW c, Submit(c)
  PROVE  /\ FormSends(page, form, c)
         /\ call' = [command |-> c, state |-> "sent"]
         /\ form' \in FormRow /\ FormFits(page, form')
         /\ form'.kind = form.kind \/ page.at = "queue"
         /\ form'.pending => form'.kind # "none" /\ SentBy(page, form', c)
<1>1. /\ PageExists(page) /\ form \in FormRow /\ FormFits(page, form)
      /\ DetailFits(page, view.detail) /\ c \in Offered(page, view.detail, form)
      /\ ~form.pending /\ (page.at \in {"order", "reservations"} => form.kind = "reservation")
      /\ call' = [command |-> c, state |-> "sent"]
  BY DEF ClientTyped, Submit, PanelShown
<1>2. FormSends(page, form, c)
  BY <1>1, OfferedSends
<1>3. CASE c.do = "start"
  <2>1. /\ form' = [NoForm EXCEPT !.kind = "start", !.target = c.item, !.pending = TRUE]
        /\ page.at = "queue" /\ c.item \in Route(page.order) /\ page.order \in Order
        /\ c.order = page.order
    BY <1>1, <1>2, <1>3 DEF Submit, FormSends, Sendable, PageExists
  <2>2. c.item \in Nat
    BY <2>1, RouteNonempty
  <2>3. form' \in FormRow
    BY <2>1, <2>2, FormsType DEF FormRow
  <2>4. form'.kind = "start" /\ form'.target = c.item
    BY <2>1, FormsType DEF FormRow
  <2>5. FormFits(page, form')
    BY <2>1, <2>4 DEF FormFits
  <2> QED
    BY <1>1, <1>2, <1>3, <2>1, <2>3, <2>4, <2>5 DEF SentBy
<1>4. CASE c.do \in {"release", "cancel"}
  <2>1. form' = form
    BY <1>4 DEF Submit
  <2> QED
    BY <1>1, <1>2, <2>1
<1>5. CASE c.do \notin {"start", "release", "cancel"}
  <2>1. form' = [form EXCEPT !.pending = TRUE]
    BY <1>5 DEF Submit
  <2>2. /\ form' \in FormRow /\ FormFits(page, form') /\ form'.kind = form.kind
        /\ form'.target = form.target /\ form'.verdict = form.verdict
    BY <1>1, <2>1, PendingChanged
  <2>3. SentBy(page, form, c)
    BY <1>2, <1>5 DEF FormSends
  <2>4. SentBy(page, form', c)
    BY <2>2, <2>3 DEF SentBy
  <2>5. form.kind # "none"
    BY <1>1, <1>2, <1>5 DEF FormSends, Sendable
  <2> QED
    BY <1>1, <1>2, <2>2, <2>4, <2>5
<1> QED
  BY <1>3, <1>4, <1>5

\* Submit, Execute and the two ends of a call.
LEMMA SubmitTyped ==
  ASSUME ClientTyped, NEW c, Submit(c) PROVE ClientTyped'
<1>1. /\ FormSends(page, form, c) /\ call' = [command |-> c, state |-> "sent"]
      /\ form' \in FormRow /\ FormFits(page, form')
      /\ form'.kind = form.kind \/ page.at = "queue"
  BY SubmitEffect
<1>2. UNCHANGED <<page, view>>
  BY DEF Submit
<1>3. CallFits'
  <2>1. call'.command = c /\ call'.state = "sent" /\ Sendable(c)
    BY <1>1 DEF FormSends
  <2> QED
    BY <1>1, <2>1 DEF CallFits
<1> QED
  BY <1>1, <1>2, <1>3, SameViewTyped

\* A command under way, and what it becomes.
LEMMA CallSent ==
  ASSUME ClientTyped, call.state \in {"sent", "done"}
  PROVE  /\ Sendable(call.command) /\ call # NoCall
         /\ call = [command |-> call.command, state |-> call.state]
<1>1. call # NoCall
  BY DEF NoCall
<1> QED
  BY <1>1 DEF ClientTyped, CallFits

LEMMA ExecuteEffect ==
  ASSUME ClientTyped, Execute
  PROVE  /\ call.state = "sent" /\ Sendable(call.command)
         /\ \E c : c = call.command /\ ServerDoes(c)
         /\ call' = [command |-> call.command, state |-> "done"]
         /\ UNCHANGED <<page, view, due, form>>
<1>1. call.state = "sent" /\ call' = [call EXCEPT !.state = "done"]
  BY DEF Execute
<1>2. call = [command |-> call.command, state |-> call.state] /\ Sendable(call.command)
  BY <1>1, CallSent
<1>3. call' = [command |-> call.command, state |-> "done"]
  BY <1>1, <1>2
<1> QED
  BY <1>1, <1>2, <1>3 DEF Execute

LEMMA ExecuteTyped ==
  ASSUME ClientTyped, Execute PROVE ClientTyped'
<1>1. /\ Sendable(call.command) /\ call' = [command |-> call.command, state |-> "done"]
      /\ UNCHANGED <<page, view, form>>
  BY ExecuteEffect
<1>2. CallFits'
  <2>1. call'.command = call.command /\ call'.state = "done"
    BY <1>1
  <2>2. Sendable(call'.command)
    BY <1>1, <2>1
  <2> QED
    BY <1>1, <2>1, <2>2 DEF CallFits
<1>3. form \in FormRow /\ FormFits(page, form)
  BY DEF ClientTyped
<1> QED
  BY <1>1, <1>2, <1>3, SameViewTyped

LEMMA AnsweredTyped ==
  ASSUME TypeOK, ClientTyped, Answered PROVE ClientTyped'
<1>0. /\ PageExists(page) /\ form \in FormRow /\ FormFits(page, form) /\ page' = page
      /\ call' = NoCall /\ CallFits'
  BY NoCallFits DEF ClientTyped, Answered, Replaced, RowsReplaced, Done
<1>1. CASE Replaced
  <2>1. DetailFits(page, Detail(page))
    BY <1>0, AnswerFits
  <2>2. /\ Rendered(page, Detail(page), form) \in FormRow
        /\ FormFits(page, Rendered(page, Detail(page), form))
        /\ PanelShown(page, "shown", Rendered(page, Detail(page), form))
    BY <1>0, <2>1, RenderedFits
  <2>3. /\ view' = [phase |-> "shown", detail |-> Detail(page)]
        /\ form' = Rendered(page, Detail(page), form)
    BY <1>1 DEF Replaced
  <2> QED
    BY <1>0, <2>1, <2>2, <2>3, TypedNext
<1>2. CASE RowsReplaced
  <2>0. view' = view
    BY <1>2 DEF RowsReplaced
  <2>1. CASE form' = form
    BY <1>0, <2>0, <2>1, SameViewTyped
  <2>2. CASE form' = [form EXCEPT !.rows = ReservationRows(page.order), !.pending = FALSE]
    <3>1. ReservationRows(page.order) \subseteq PanelRows
      BY <1>0, PanelType DEF PageExists, PanelRows
    <3>2. form' \in FormRow
      BY <1>0, <2>2, <3>1 DEF FormRow, PanelRows
    <3>3. form'.kind = form.kind /\ form'.target = form.target
      BY <1>0, <2>2 DEF FormRow
    <3>4. FormFits(page, form')
      BY <1>0, <3>3 DEF FormFits
    <3> QED
      BY <1>0, <2>0, <3>2, <3>3, <3>4, SameViewTyped
  <2> QED
    BY <1>2, <2>1, <2>2 DEF RowsReplaced
<1>3. CASE Done
  <2>1. view' = view /\ (form' = form \/ (form' = NoForm /\ IsDialog(page, form)))
    BY <1>3 DEF Done
  <2> QED
    BY <1>0, <2>1, NoFormFits, SameViewTyped DEF IsDialog
<1> QED
  BY <1>1, <1>2, <1>3 DEF Answered

LEMMA FailedTyped ==
  ASSUME ClientTyped, Failed PROVE ClientTyped'
<1>0. /\ form \in FormRow /\ FormFits(page, form) /\ UNCHANGED <<page, view>>
      /\ call' = NoCall /\ CallFits'
  BY NoCallFits DEF ClientTyped, Failed
<1>1. CASE form.kind = "start" /\ form' = NoForm
  BY <1>0, <1>1, NoFormFits, SameViewTyped DEF FormFits
<1>2. CASE form' = PendingCleared
  <2>1. form' \in FormRow /\ FormFits(page, form') /\ form'.kind = form.kind
    BY <1>0, <1>2, PendingChanged DEF PendingCleared
  <2> QED
    BY <1>0, <2>1, SameViewTyped
<1> QED
  BY <1>1, <1>2 DEF Failed

\* All steps of the client, and those of others.
LEMMA FormsCases ==
  ASSUME [FormsNext]_formVars
  PROVE  \/ \E p \in Pages : Open(p)
         \/ Read \/ ReadFails \/ Retry
         \/ \E ok \in BOOLEAN : ReadRows(ok) \/ ReadLots(ok)
         \/ OpenDialog \/ Dismiss \/ CloseSheet
         \/ \E verdict \in {"PASS", "FAIL", "HOLD"} : Choose(verdict)
         \/ \E c \in Offered(page, view.detail, form) : Submit(c)
         \/ Execute \/ Answered \/ Failed
         \/ [Next]_vars /\ UNCHANGED clientVars
BY DEF FormsNext, Client, Others, formVars

\* No step breaks the client.
LEMMA NextClientTyped ==
  ASSUME TypeOK, ClientTyped, [FormsNext]_formVars PROVE ClientTyped'
<1>1. CASE UNCHANGED clientVars
  <2>1. /\ PageExists(page) /\ view = [phase |-> view.phase, detail |-> view.detail]
        /\ view.phase = "shown" => DetailFits(page, view.detail)
        /\ form \in FormRow /\ FormFits(page, form) /\ PanelShown(page, view.phase, form)
        /\ UNCHANGED <<page, view, form>> /\ CallFits'
    BY <1>1, SameCall DEF ClientTyped, clientVars
  <2> QED
    BY <2>1, TypedNext
<1> QED
  BY <1>1, FormsCases, OpenTyped, ReadTyped, FormStepTyped, SubmitTyped, ExecuteTyped,
     AnsweredTyped, FailedTyped

\* Whatever the client does is a step of the plant, or none.
LEMMA FormsStepIsPlantStep ==
  ASSUME PlantInvariant, ClientTyped, [FormsNext]_formVars PROVE [Next]_vars
<1>1. CASE Execute
  <2>1. PICK c : c = call.command /\ ServerDoes(c) /\ Sendable(c)
    BY <1>1, ExecuteEffect
  <2> QED
    BY <2>1, ServerIsPlant
<1>2. CASE UNCHANGED vars
  BY <1>2
<1> QED
  BY <1>1, <1>2, FormsCases
     DEF Open, Read, ReadFails, Retry, ReadRows, ReadLots, OpenDialog, Dismiss, CloseSheet, Choose,
         Submit, Answered, Failed

\* The plant keeps its invariants.
LEMMA NextPlantInvariant ==
  ASSUME PlantInvariant, [Next]_vars PROVE PlantInvariant'
BY PlantTyped, NextLifeInvariant, NextChecksBelong, NextBooks
   DEF PlantInvariant, ContractInvariant

-----------------------------------------------------------------------------
(* ANSWERS STAY TRUE, AND FORMS WAIT FOR A REASON *)

\* The answer to an executed command stays true until it arrives.
LEMMA NextAnswerTrue ==
  ASSUME PlantInvariant, PlantInvariant', ClientTyped, AnswerTrue, [FormsNext]_formVars
  PROVE  AnswerTrue'
<1>0. [Next]_vars
  BY FormsStepIsPlantStep
<1>1. CASE Execute
  <2>1. PICK c : c = call.command /\ ServerDoes(c) /\ Sendable(c)
    BY <1>1, ExecuteEffect
  <2>2. call'.command = c
    BY <1>1, <2>1, ExecuteEffect
  <2>3. c.do # "reserve" => Took(c)'
    BY <2>1, TakesEffect
  <2> QED
    BY <2>2, <2>3 DEF AnswerTrue, Took
<1>2. CASE call'.state # "done"
  BY <1>2 DEF AnswerTrue
<1>3. CASE UNCHANGED call /\ call.state = "done"
  <2>1. PICK c : c = call.command /\ Sendable(c)
    BY <1>3, CallSent
  <2>2. c.do # "reserve" => Took(c)'
    BY <1>0, <1>3, <2>1, TookKept DEF AnswerTrue
  <2>3. call'.command = c
    BY <1>3, <2>1
  <2> QED
    BY <2>2, <2>3 DEF AnswerTrue, Took
<1>4. NoCall.state # "done"
  BY DEF NoCall
<1>5. \A c : Submit(c) => call'.state # "done"
  BY DEF Submit
<1> QED
  BY <1>1, <1>2, <1>3, <1>4, <1>5, FormsCases
     DEF Open, Read, ReadFails, Retry, ReadRows, ReadLots, OpenDialog, Dismiss, Done, CloseSheet,
         Choose, Answered, Failed, clientVars

\* The effect of what a form sent is not undone either.
LEMMA ServedKept ==
  ASSUME PlantInvariant, PlantInvariant', [Next]_vars, NEW p, PageExists(p),
         NEW f \in FormRow, FormFits(p, f), Served(p, f)
  PROVE  Served(p, f)'
<1>1. /\ p.order \in Order
      /\ f.kind \in {"completion", "start"} => f.target \in Route(p.order)
      /\ f.kind = "verdict" => f.target \in InspectionSpec
  BY DatabaseAssumption DEF PageExists, FormFits
<1> QED
  BY <1>1, OrdersAdvance DEF Served

\* Nothing that a waiting form depends on changes, or it is about to be read again.
LEMMA WaitsOn ==
  ASSUME PlantInvariant, PlantInvariant', [Next]_vars, ClientTyped, PendingExplained,
         page' = page,
         form'.pending => /\ form.pending /\ form'.kind = form.kind
                          /\ form'.target = form.target /\ form'.verdict = form.verdict,
         call' = NoCall <=> call = NoCall, call'.command = call.command,
         due' \/ (UNCHANGED <<view, due>>) \/ call # NoCall
  PROVE  PendingExplained'
<1> SUFFICES ASSUME form'.pending PROVE PendingExplained'
  BY DEF PendingExplained
<1>1. /\ form.pending /\ form'.kind = form.kind
      /\ form'.target = form.target /\ form'.verdict = form.verdict /\ form.kind # "none"
  BY DEF PendingExplained
<1>2. CASE call # NoCall
  BY <1>1, <1>2 DEF PendingExplained, SentBy
<1>3. CASE call = NoCall
  <2>1. /\ form.kind # "reservation" /\ ~IsDialog(page, form) /\ Served(page, form)
        /\ due \/ HeldFormKept
    BY <1>1, <1>3 DEF PendingExplained
  <2>2. PICK p, f : p = page /\ f = form
    OBVIOUS
  <2>3. PageExists(p) /\ f \in FormRow /\ FormFits(p, f) /\ Served(p, f)
    BY <2>1, <2>2 DEF ClientTyped
  <2>4. Served(p, f)'
    BY <2>3, ServedKept
  <2>5. Served(page, form)'
    BY <1>1, <2>2, <2>4 DEF Served
  <2>6. ~IsDialog(page, form)'
    BY <1>1, <2>1 DEF IsDialog
  <2>7. (due \/ HeldFormKept)'
    BY <1>1, <1>3, <2>1 DEF HeldFormKept
  <2> QED
    BY <1>1, <1>3, <2>1, <2>5, <2>6, <2>7 DEF PendingExplained
<1> QED
  BY <1>2, <1>3

\* A form that was served is unmounted by the next reading, unless it recorded a hold.
LEMMA ReadAfterAnswer ==
  ASSUME PlantInvariant, ClientTyped, Read, form.pending, form'.pending, call = NoCall,
         PendingExplained
  PROVE  form' = form /\ HeldFormKept'
<1>0. /\ PageExists(page) /\ form \in FormRow /\ FormFits(page, form) /\ page.order \in Order
      /\ form.kind # "reservation" /\ form.kind # "none" /\ ~IsDialog(page, form)
      /\ Served(page, form) /\ page' = page
  BY DEF ClientTyped, PendingExplained, PageExists, Read
<1>1. /\ view' = [phase |-> "shown", detail |-> Detail(page)]
      /\ form' = Rendered(page, Detail(page), form)
  BY DEF Read
<1>2. DetailFits(page, Detail(page))
  BY <1>0, PlantTyped, AnswerFits
<1>3. FormKept(page, Detail(page), form) /\ form' = form
  BY <1>0, <1>1, <1>2, RenderedFits
<1>4. CASE form.kind = "start"
  <2>1. page.at = "queue" /\ form.target \in Route(page.order)
    BY <1>0, <1>4 DEF FormFits
  <2>2. Detail(page)[form.target].readiness = step[page.order][form.target].readiness
    BY <2>1 DEF Detail, StepDetail
  <2>3. FormOn(page, Detail(page)).kind = "none"
    BY <2>1, FormKinds DEF FormOn
  <2>4. step[page.order][form.target].readiness = "READY"
    BY <1>0, <1>3, <1>4, <2>2, <2>3 DEF FormKept
  <2>5. WorkView[page.order][form.target] = "waiting"
    BY <1>0, <2>1, <2>4, ViewsRead DEF Work
  <2> QED
    BY <1>0, <1>4, <2>5 DEF Served
<1>5. CASE form.kind = "completion"
  <2>1. page.at = "process" /\ form.target = page.item /\ form.target \in Route(page.order)
    BY <1>0, <1>5 DEF FormFits, IsDialog
  <2>2. Detail(page).readiness = step[page.order][form.target].readiness
    BY <2>1 DEF Detail, StepDetail
  <2>3. FormOn(page, Detail(page)).kind = "completion"
    BY <1>0, <1>3, <1>5 DEF FormKept
  <2>4. Detail(page).readiness = "IN_PROGRESS"
    BY <2>1, <2>3, FormKinds DEF FormOn
  <2>5. step[page.order][form.target].readiness = "IN_PROGRESS"
    BY <2>2, <2>4
  <2>6. Work(step[page.order][form.target]) = "begun"
    BY <2>5 DEF Work
  <2>7. WorkView[page.order][form.target] = "begun"
    BY <1>0, <2>1, <2>6, ViewsRead
  <2> QED
    BY <1>0, <1>5, <2>7 DEF Served
<1>6. CASE form.kind = "verdict"
  <2>1. page.at = "inspection" /\ form.target = page.item /\ form.target \in InspectionSpec
    BY <1>0, <1>6, DatabaseAssumption DEF FormFits, IsDialog
  <2>2. /\ Detail(page).undecided = Undecided(inspection[page.order][form.target])
        /\ Detail(page).held = Held(inspection[page.order][form.target])
    BY <2>1 DEF Detail, InspectionDetail
  <2>3. FormOn(page, Detail(page)).kind = "verdict"
    BY <1>0, <1>3, <1>6 DEF FormKept
  <2>4. VerdictOrReview(Detail(page))
    BY <2>1, <2>3, FormKinds DEF FormOn
  <2>5. OutcomeView[page.order][form.target] = Outcome(inspection[page.order][form.target])
    BY <1>0, <2>1, ViewsRead
  <2>6. ~Undecided(inspection[page.order][form.target])
    BY <1>0, <1>6, <2>5 DEF Served, Undecided, Outcome
  <2>7. Held(inspection[page.order][form.target])
    BY <2>2, <2>4, <2>6 DEF VerdictOrReview
  <2>8. form.verdict = "HOLD"
    BY <1>0, <1>6, <2>5, <2>7 DEF Served, Held, Outcome
  <2>9. view'.phase = "shown" /\ view'.detail = Detail(page)
    BY <1>1
  <2> QED
    BY <1>0, <1>3, <1>6, <2>1, <2>2, <2>7, <2>8, <2>9 DEF HeldFormKept
<1> QED
  BY <1>0, <1>4, <1>5, <1>6 DEF FormRow

\* A form that was sent has had its effect when the server has done what it sent.
LEMMA TookServed ==
  ASSUME NEW p, NEW f \in FormRow, NEW c, SentBy(p, f, c), Took(c)
  PROVE  Served(p, f)
<1>1. f.kind = "completion" => c.do = "complete" /\ c.item = f.target /\ c.order = p.order
  BY DEF SentBy
<1>2. f.kind = "start" => c.do = "start" /\ c.item = f.target /\ c.order = p.order
  BY DEF SentBy
<1>3. f.kind = "verdict" => /\ c.do \in {"verdict", "review"} /\ c.item = f.target
                            /\ c.order = p.order /\ c.arg = f.verdict
  BY DEF SentBy
<1> QED
  BY <1>1, <1>2, <1>3 DEF Served, Took

\* The answer to what a form sent closes it, or has it read again.
LEMMA AnsweredExplained ==
  ASSUME PlantInvariant, PlantInvariant', ClientTyped, AnswerTrue, PendingExplained, Answered
  PROVE  PendingExplained'
<1> SUFFICES ASSUME form'.pending PROVE PendingExplained'
  BY DEF PendingExplained
<1>0. /\ call.state = "done" /\ call # NoCall /\ call' = NoCall /\ page' = page
      /\ form \in FormRow /\ FormFits(page, form) /\ PageExists(page)
      /\ UNCHANGED vars /\ [Next]_vars
  BY CallSent DEF Answered, ClientTyped, Replaced, RowsReplaced, Done
<1>1. form.pending => /\ SentBy(page, form, call.command)
                      /\ form.kind \in {"reservation", "completion", "verdict", "start"}
  BY <1>0 DEF PendingExplained, FormRow
<1>2. CASE call.command.do \in {"release", "cancel"}
  <2>1. form' = Rendered(page, Detail(page), form) /\ Replaced
    BY <1>2 DEF Answered, Replaced
  <2>2. DetailFits(page, Detail(page))
    BY <1>0, AnswerFits, PlantTyped
  <2>3. form' = form
    BY <1>0, <2>1, <2>2, RenderedFits
  <2> QED
    BY <1>1, <1>2, <2>3 DEF SentBy
<1>3. CASE call.command.do \in {"reserve", "dissolve"}
  <2>1. RowsReplaced
    BY <1>3 DEF Answered
  <2>2. form.kind = "reservation" => ~form'.pending
    BY <1>0, <2>1 DEF RowsReplaced, FormRow
  <2>3. form' = form /\ form.kind # "reservation"
    BY <2>1, <2>2 DEF RowsReplaced
  <2> QED
    BY <1>1, <1>3, <2>3 DEF SentBy
<1>4. CASE call.command.do \notin {"release", "cancel", "reserve", "dissolve"}
  <2>1. Done
    BY <1>4 DEF Answered
  <2>2. form' = form /\ ~IsDialog(page, form) /\ due' /\ form.pending
    BY <2>1, FormKinds DEF Done
  <2>3. Took(call.command)
    BY <1>0, <1>4 DEF AnswerTrue
  <2>4. form.kind # "reservation" /\ form.kind # "none" /\ Served(page, form)
    BY <1>0, <1>1, <1>4, <2>2, <2>3, TookServed DEF SentBy
  <2>5. PICK p, f : p = page /\ f = form
    OBVIOUS
  <2>6. Served(p, f)'
    BY <1>0, <2>4, <2>5, ServedKept
  <2>7. Served(page, form)'
    BY <1>0, <2>2, <2>5, <2>6 DEF Served
  <2>8. ~IsDialog(page, form)'
    BY <1>0, <2>2 DEF IsDialog
  <2> QED
    BY <1>0, <2>2, <2>4, <2>7, <2>8 DEF PendingExplained
<1> QED
  BY <1>2, <1>3, <1>4

\* A form that is sent waits for what it sent.
LEMMA SubmitExplained ==
  ASSUME ClientTyped, NEW c, Submit(c) PROVE PendingExplained'
<1> SUFFICES ASSUME form'.pending PROVE PendingExplained'
  BY DEF PendingExplained
<1>1. /\ call' = [command |-> c, state |-> "sent"]
      /\ form'.kind # "none" /\ SentBy(page, form', c)
  BY SubmitEffect
<1>2. call'.command = c /\ call' # NoCall /\ page' = page
  BY <1>1 DEF NoCall, Submit
<1>3. SentBy(page', form', call'.command)
  BY <1>1, <1>2
<1> QED
  BY <1>1, <1>2, <1>3 DEF PendingExplained

\* A reading leaves a waiting form only when its answer is still to come.
LEMMA ReadExplained ==
  ASSUME PlantInvariant, PlantInvariant', ClientTyped, PendingExplained, Read
  PROVE  PendingExplained'
<1> SUFFICES ASSUME form'.pending PROVE PendingExplained'
  BY DEF PendingExplained
<1>0. /\ PageExists(page) /\ form \in FormRow /\ FormFits(page, form)
      /\ UNCHANGED vars /\ [Next]_vars /\ UNCHANGED <<page, call>>
      /\ form' = Rendered(page, Detail(page), form)
  BY DEF ClientTyped, Read
<1>1. form' = form /\ form.pending
  <2>1. DetailFits(page, Detail(page))
    BY <1>0, AnswerFits, PlantTyped
  <2> QED
    BY <1>0, <2>1, RenderedFits
<1>2. CASE call # NoCall
  BY <1>0, <1>1, <1>2, WaitsOn
<1>3. CASE call = NoCall
  <2>1. HeldFormKept'
    BY <1>1, <1>3, ReadAfterAnswer
  <2>2. /\ form.kind # "none" /\ form.kind # "reservation" /\ ~IsDialog(page, form)
        /\ Served(page, form)
    BY <1>1, <1>3 DEF PendingExplained
  <2>3. PICK p, f : p = page /\ f = form
    OBVIOUS
  <2>4. Served(p, f)'
    BY <1>0, <2>2, <2>3, ServedKept
  <2>5. Served(page, form)' /\ ~IsDialog(page, form)'
    BY <1>0, <1>1, <2>2, <2>3, <2>4 DEF Served, IsDialog
  <2> QED
    BY <1>0, <1>1, <1>3, <2>1, <2>2, <2>5 DEF PendingExplained
<1> QED
  BY <1>2, <1>3

\* No step leaves a form waiting for nothing.
LEMMA NextPendingExplained ==
  ASSUME PlantInvariant, PlantInvariant', ClientTyped, AnswerTrue, PendingExplained,
         [FormsNext]_formVars
  PROVE  PendingExplained'
<1>0. [Next]_vars /\ form \in FormRow /\ FormFits(page, form)
  BY FormsStepIsPlantStep DEF ClientTyped
<1>1. CASE ~form'.pending
  BY <1>1 DEF PendingExplained
<1>2. CASE UNCHANGED clientVars
  BY <1>0, <1>2, WaitsOn DEF clientVars
<1>3. CASE ReadFails
  <2>1. form'.pending => IsDialog(page, form) /\ form' = form
    BY <1>3, FormKinds DEF ReadFails
  <2>2. form'.pending => call # NoCall
    BY <2>1 DEF PendingExplained
  <2> QED
    BY <1>0, <1>1, <1>3, <2>1, <2>2, WaitsOn DEF ReadFails
<1>4. CASE Retry
  BY <1>0, <1>4, WaitsOn DEF Retry
<1>5. ASSUME NEW ok \in BOOLEAN, ReadRows(ok) \/ ReadLots(ok) PROVE PendingExplained'
  <2>1. \/ \E rows : form' = [form EXCEPT !.reading = @ \ {"rows"}, !.rows = rows]
        \/ \E lots : form' = [form EXCEPT !.reading = @ \ {"lots"}, !.lots = lots]
    BY <1>5 DEF ReadRows, ReadLots
  <2>2. /\ form'.kind = form.kind /\ form'.target = form.target
        /\ form'.verdict = form.verdict /\ form'.pending = form.pending
    BY <1>0, <2>1 DEF FormRow
  <2> QED
    BY <1>0, <1>5, <2>2, WaitsOn DEF ReadRows, ReadLots
<1>6. CASE OpenDialog
  BY <1>1, <1>6, FormKinds DEF OpenDialog
<1>7. CASE Dismiss
  <2>1. form' = form \/ ~form'.pending
    BY <1>7, FormKinds DEF Dismiss, Done
  <2> QED
    BY <1>0, <1>1, <1>7, <2>1, WaitsOn DEF Dismiss, Done
<1>8. \A verdict \in Verdicts : Choose(verdict) => ~form'.pending
  <2>1. ASSUME NEW verdict \in Verdicts, Choose(verdict) PROVE ~form'.pending
    <3>1. ~form.pending /\ form' = [form EXCEPT !.verdict = verdict]
      BY <2>1 DEF Choose
    <3> QED
      BY <1>0, <3>1 DEF FormRow
  <2> QED
    BY <2>1
<1>9. CASE Execute
  <2>1. /\ call.state = "sent" /\ call' = [command |-> call.command, state |-> "done"]
        /\ UNCHANGED <<page, view, due, form>>
    BY <1>9, ExecuteEffect
  <2>2. call # NoCall /\ call' # NoCall /\ call'.command = call.command
    BY <2>1 DEF NoCall
  <2> QED
    BY <1>0, <2>1, <2>2, WaitsOn
<1>10. Open(page') \/ CloseSheet \/ Failed => ~form'.pending
  <2>1. PendingCleared.pending = FALSE
    BY <1>0 DEF PendingCleared, FormRow
  <2> QED
    BY <2>1, FormKinds DEF Open, CloseSheet, Failed
<1>11. \A p : Open(p) => Open(page')
  BY DEF Open
<1> QED
  BY <1>1, <1>2, <1>3, <1>4, <1>5, <1>6, <1>7, <1>8, <1>9, <1>10, <1>11, FormsCases,
     ReadExplained, SubmitExplained, AnsweredExplained DEF Verdicts

(***************************************************************************)
(* The inductive invariant of the pages over the plant: the books and the  *)
(* contract of the plant, a well-formed client, answers that are true, and *)
(* a reason for every form that waits.                                     *)
(***************************************************************************)
FormsInvariant == PlantInvariant /\ ClientTyped /\ AnswerTrue /\ PendingExplained

LEMMA InitPlantInvariant == Init => PlantInvariant
BY InitLifeInvariant, InitChecksBelong, InitBooks DEF PlantInvariant, ContractInvariant

LEMMA InitForms == FormsInit => FormsInvariant
<1> SUFFICES ASSUME FormsInit PROVE FormsInvariant
  OBVIOUS
<1>1. PlantInvariant
  BY InitPlantInvariant DEF FormsInit
<1>2. PageExists(page)
  BY PagesExist DEF FormsInit
<1>3. view.phase = "loading" /\ view = [phase |-> view.phase, detail |-> view.detail]
  BY DEF FormsInit
<1>4. form \in FormRow /\ form.kind = "none" /\ ~form.pending
  BY FormsType, FormKinds DEF FormsInit
<1>5. call = NoCall /\ call.state # "done" /\ call = [command |-> call.command, state |-> call.state]
  BY DEF FormsInit, NoCall
<1>6. ClientTyped
  BY <1>2, <1>3, <1>4, <1>5 DEF ClientTyped, FormFits, PanelShown, CallFits
<1> QED
  BY <1>1, <1>4, <1>5, <1>6 DEF FormsInvariant, AnswerTrue, PendingExplained

LEMMA NextForms ==
  ASSUME FormsInvariant, [FormsNext]_formVars PROVE FormsInvariant' /\ [Next]_vars
<1>1. [Next]_vars
  BY FormsStepIsPlantStep DEF FormsInvariant
<1>2. PlantInvariant'
  BY <1>1, NextPlantInvariant DEF FormsInvariant
<1>3. ClientTyped'
  BY NextClientTyped, PlantTyped DEF FormsInvariant
<1>4. AnswerTrue'
  BY <1>2, NextAnswerTrue DEF FormsInvariant
<1>5. PendingExplained'
  BY <1>2, NextPendingExplained DEF FormsInvariant
<1> QED
  BY <1>1, <1>2, <1>3, <1>4, <1>5 DEF FormsInvariant

(***************************************************************************)
(* The pages stay consistent with the plant: whatever is opened, read,     *)
(* chosen, sent, answered and lost, in whatever order and with whatever    *)
(* others do (use-load-state.ts, the command panels and forms).            *)
(***************************************************************************)
THEOREM FormsKept == FormsSpec => []FormsInvariant
<1>1. FormsInit => FormsInvariant
  BY InitForms
<1>2. FormsInvariant /\ [FormsNext]_formVars => FormsInvariant'
  BY NextForms
<1> QED
  BY <1>1, <1>2, PTL DEF FormsSpec

(***************************************************************************)
(* The pages implement the plant: each step of a client is one that some   *)
(* user could take, or changes nothing on the server.  So all that is      *)
(* proved of the plant holds under its pages.                              *)
(***************************************************************************)
THEOREM FormsRunThePlant == FormsSpec => Spec
<1>1. FormsInit => Init
  BY DEF FormsInit
<1>2. FormsInvariant /\ [FormsNext]_formVars => [Next]_vars
  BY NextForms
<1> QED
  BY <1>1, <1>2, FormsKept, PTL DEF FormsSpec, Spec

(***************************************************************************)
(* A form that was sent waits for an answer or a reading, or shows the     *)
(* hold it recorded: none stays locked, although no form clears `pending`  *)
(* on success (the forms of the process, inspection and material pages).   *)
(***************************************************************************)
THEOREM PendingFormsEnd == FormsSpec => []PendingEnds
<1>1. FormsInvariant => PendingEnds
  BY DEF FormsInvariant, PendingExplained, PendingEnds
<1> QED
  BY <1>1, FormsKept, PTL

\* A command that took effect is refused, because what it did is still true.
LEMMA DoneIsRefused ==
  ASSUME FormsInvariant, call.state = "done", call.command.do # "reserve",
         NEW c, c = call.command
  PROVE  ~ServerDoes(c)
<1>1. Took(c) /\ Sendable(c)
  BY CallSent DEF FormsInvariant, AnswerTrue
<1> SUFFICES ASSUME ServerDoes(c) PROVE FALSE
  OBVIOUS
<1>2. PlantInvariant
  BY DEF FormsInvariant
<1>3. [Next]_vars
  BY <1>1, <1>2, ServerIsPlant
<1>4. PlantInvariant'
  BY <1>2, <1>3, NextPlantInvariant
<1>5. ~Took(c)
  BY <1>1, <1>2, <1>4, TakesEffect
<1> QED
  BY <1>1, <1>5

(***************************************************************************)
(* A command that took effect and whose answer is late or lost is refused  *)
(* when it is sent again, whatever others did in between: release, cancel, *)
(* dissolve, start, complete, verdict and review, never a reservation.     *)
(***************************************************************************)
THEOREM RetriesAreRefused == FormsSpec => RetryRefused
<1> DEFINE Refused == call.state = "done" /\ call.command.do # "reserve" =>
                        \A c \in {call.command} : ~ServerDoes(c)
<1>1. FormsInvariant => Refused
  BY DoneIsRefused
<1> QED
  BY <1>1, FormsKept, PTL DEF RetryRefused

-----------------------------------------------------------------------------
(* WHAT THE SERVER ACCEPTS, SOME PAGE OFFERS *)

\* Until its first refresh an order has the rows it was released with.
FirstRows(o) ==
  Live(o) /\ order[o].blocked = ReservationNeeded =>
    step[o] = [i \in Route(o) |-> ReleasedStep(o, i)]

\* No refresh writes the notice of release.
LEMMA RefreshedBlocked ==
  ASSUME NEW rows, NEW checks PROVE BlockedOf(rows, checks) # ReservationNeeded
<1> DEFINE first == FirstOf({i \in DOMAIN rows : rows[i].readiness = "BLOCKED"})
<1>1. \/ first # 0 /\ BlockedOf(rows, checks) = [step |-> first, codes |-> rows[first].reasons]
      \/ BlockedOf(rows, checks) = VerdictNeeded
      \/ BlockedOf(rows, checks) = NotBlocked
  BY Zenon DEF BlockedOf
<1> HIDE DEF first
<1>2. CASE first # 0 /\ BlockedOf(rows, checks) = [step |-> first, codes |-> rows[first].reasons]
  <2>1. BlockedOf(rows, checks).step = first /\ ReservationNeeded.step = 0
    BY <1>2 DEF ReservationNeeded
  <2> QED
    BY <1>2, <2>1
<1>3. VerdictNeeded # ReservationNeeded /\ NotBlocked # ReservationNeeded
  BY DEF VerdictNeeded, NotBlocked, ReservationNeeded
<1> QED
  BY <1>1, <1>2, <1>3

\* So a refreshed order no longer has it.
LEMMA ProjectedFirstRows ==
  ASSUME OrdersTyped, NEW o \in Order, Live(o), NEW rows \in [Route(o) -> StepRow],
         NEW checks, FlowProjected(o, rows, checks)
  PROVE  FirstRows(o)'
<1>1. order'[o] = OrderRefreshed(step'[o], checks)
  BY ProjectedRows DEF Live
<1>2. order'[o].blocked = BlockedOf(step'[o], checks)
  BY <1>1 DEF OrderRefreshed
<1> QED
  BY <1>2, RefreshedBlocked DEF FirstRows

LEMMA OrderStepFirstRows ==
  ASSUME LifeInvariant, TypeOK', NEW o \in Order, OrderStep(o) PROVE FirstRows(o)'
<1> USE TypeParts DEF LifeInvariant, FlowInvariant, TypeInvariant
<1>1. CASE Release(o)
  BY <1>1 DEF Release, CanRelease, OrdersTyped, StepsTyped, FirstRows, ReleasedStep
<1>2. CASE Cancel(o)
  BY <1>2 DEF Cancel, CanCancel, OrdersTyped, OrderRow, FirstRows, Live
<1>3. ASSUME NEW i \in Route(o), Start(o, i) PROVE FirstRows(o)'
  <2>1. order' = [order EXCEPT ![o] = [OrderRefreshed(RowsAtStart(o), inspection[o]) EXCEPT
                                         !.status = "IN_PROGRESS", !.currentStep = i]]
    BY <1>3 DEF Start, CanStart
  <2>2. order'[o].blocked = BlockedOf(RowsAtStart(o), inspection[o])
    BY <2>1 DEF OrdersTyped, OrderRefreshed
  <2> QED
    BY <2>2, RefreshedBlocked DEF FirstRows
<1>4. ASSUME NEW i \in Route(o), NEW good \in Nat, NEW defect \in Nat, Complete(o, i, good, defect)
      PROVE  FirstRows(o)'
  <2>1. /\ CompletedRows(o, i, good, defect) \in [Route(o) -> StepRow]
        /\ FlowProjected(o, CompletedRows(o, i, good, defect), inspection[o])
        /\ Live(o)
    BY <1>4, CompletedRowsType DEF Complete, CanComplete, CompletedRows, Live
  <2> QED
    BY <2>1, ProjectedFirstRows
<1>5. ASSUME NEW checks, NEW enough, MaterialAndFlowProjected(o, checks, enough), Live(o)
      PROVE  FirstRows(o)'
  BY <1>5, MaterialRows, ProjectedFirstRows DEF MaterialAndFlowProjected
<1>6. ASSUME NEW l \in Lot, NEW a \in Allocation, NEW quantity \in Nat \ {0}, Reserve(o, l, a, quantity)
      PROVE  FirstRows(o)'
  BY <1>5, <1>6 DEF Reserve, CanReserve, Reservable, Live
<1>7. ASSUME NEW s \in InspectionSpec, NEW verdict, VerdictProjected(o, s, verdict), Eligible(o, s)
      PROVE  FirstRows(o)'
  BY <1>5, <1>7 DEF VerdictProjected, Eligible, Live
<1> QED
  BY <1>1, <1>2, <1>3, <1>4, <1>6, <1>7, OrderStepCases DEF Verdict, CanDecide, Review,
                                                            CanReview

LEMMA NextFirstRows ==
  LifeInvariant /\ (\A o \in Order : FirstRows(o)) /\ [Next]_vars => (\A o \in Order : FirstRows(o))'
<1> SUFFICES ASSUME LifeInvariant, \A o \in Order : FirstRows(o), [Next]_vars, NEW p \in Order
             PROVE  FirstRows(p)'
  OBVIOUS
<1>1. TypeOK /\ TypeOK' /\ OrdersTyped
  BY NextLifeInvariant, TypeParts DEF LifeInvariant, FlowInvariant, TypeInvariant
<1>2. ASSUME NEW o \in Order, OrderStep(o) PROVE FirstRows(p)'
  <2>1. CASE p = o
    BY <1>1, <1>2, <2>1, OrderStepFirstRows
  <2>2. CASE p # o
    BY <1>1, <1>2, <2>2, OthersUntouched DEF FirstRows, Live
  <2> QED
    BY <2>1, <2>2
<1>3. ASSUME NEW a \in Allocation, ReleaseReservation(a) PROVE FirstRows(p)'
  <2>1. a \in Active /\ ClaimJustified(a)
    BY <1>3 DEF ReleaseReservation, CanDissolve, Active, LifeInvariant, ClaimsJustified
  <2>2. PICK o \in Order : o = alloc[a].order
    BY <1>1, <2>1, TypeParts DEF AllocationsTyped
  <2>3. MaterialAndFlowProjected(alloc[a].order, inspection[alloc[a].order],
                                 EnoughMaterial(alloc[a].order)')
    BY <1>3 DEF ReleaseReservation, CanDissolve, ReservationDissolved
  <2>4. PICK enough : MaterialAndFlowProjected(o, inspection[o], enough)
    BY <2>2, <2>3
  <2>5. Live(o)
    BY <2>1, <2>2 DEF ClaimJustified, Live
  <2>6. CASE p = o
    BY <1>1, <2>4, <2>5, <2>6, MaterialRows, ProjectedFirstRows DEF MaterialAndFlowProjected
  <2>7. CASE p # o
    <3>1. step'[p] = step[p] /\ order'[p] = order[p]
      BY <1>1, <2>4, <2>7, MaterialRows, ProjectedRows DEF MaterialAndFlowProjected
    <3> QED
      BY <3>1 DEF FirstRows, Live
  <2> QED
    BY <2>6, <2>7
<1>4. CASE UNCHANGED <<order, step, consumed, inspection, alloc>>
  BY <1>4 DEF FirstRows, Live
<1> QED
  BY <1>2, <1>3, <1>4, StepKinds

\* No seeded order says that material must be reserved.
LEMMA InitFirstRows == Init => \A o \in Order : FirstRows(o)
<1> SUFFICES ASSUME Init, NEW o \in Order, Live(o) PROVE order[o].blocked # ReservationNeeded
  BY DEF FirstRows
<1>1. order[o].blocked = [step |-> 2, codes |-> {"INSPECTION_HELD"}]
  BY DEF Init, Live
<1> QED
  BY <1>1 DEF ReservationNeeded

\* What refreshMaterialReadiness changes is the first row, and only before it starts.
LEMMA MaterialChanges ==
  ASSUME NEW n \in Nat \ {0}, NEW rows \in [1..n -> StepRow], NEW required \in BOOLEAN,
         NEW enough \in BOOLEAN,
         NEW new, new = MaterialRefreshed(rows, required, enough), new # rows
  PROVE  /\ required /\ rows[1].readiness \notin Started \cup {"ABSENT"}
         /\ new[1].readiness \in {"READY", "BLOCKED"}
         /\ new[1].reasons = (rows[1].reasons \ MaterialReasons)
                               \cup (IF enough THEN {} ELSE {"MATERIAL_SHORTAGE"})
<1> DEFINE reasons == (rows[1].reasons \ MaterialReasons)
                        \cup (IF enough THEN {} ELSE {"MATERIAL_SHORTAGE"})
<1>1. /\ required /\ rows[1].readiness \notin Started \cup {"ABSENT"}
      /\ new = [rows EXCEPT ![1].reasons = reasons,
                            ![1].readiness = IF reasons = {} THEN "READY" ELSE "BLOCKED"]
  BY DEF MaterialRefreshed
<1> HIDE DEF reasons
<1>2. 1 \in 1..n /\ rows[1] \in StepRow
  OBVIOUS
<1>3. new[1] = [rows[1] EXCEPT !.reasons = reasons,
                               !.readiness = IF reasons = {} THEN "READY" ELSE "BLOCKED"]
  BY <1>1, <1>2
<1>4. new[1].reasons = reasons /\ new[1].readiness \in {"READY", "BLOCKED"}
  BY <1>2, <1>3 DEF StepRow
<1> QED
  BY <1>1, <1>4 DEF reasons

(***************************************************************************)
(* A step that the server starts is shown as ready, unless it is the first *)
(* and its material became usable again after its rows were derived.       *)
(***************************************************************************)
LEMMA StartShown ==
  ASSUME LifeInvariant, NEW o \in Order, Current(o), FirstRows(o), NEW i \in Route(o), Start(o, i)
  PROVE  step[o][i].readiness = "READY" \/ MaterialRecovered(o)
<1> DEFINE checks == inspection[o]
           before == MaterialRefreshed(step[o], RequiresMaterial(o), EnoughMaterial(o))
           first == step[o][1]
<1>0. /\ OrdersTyped /\ step[o] \in [1..RouteLength[o] -> StepRow] /\ Live(o)
      /\ RouteLength[o] \in Nat \ {0} /\ Route(o) = 1..RouteLength[o] /\ 1 \in Route(o)
  BY TypeParts, RouteNonempty
     DEF LifeInvariant, FlowInvariant, TypeInvariant, OrdersTyped, StepsTyped, Start,
         CanStart, Executable, Live
<1>1. before \in [Route(o) -> StepRow] /\ DOMAIN before = Route(o)
  BY <1>0, MaterialRows
<1> HIDE DEF before
<1>2. /\ before[i].readiness \notin Started
      /\ StepReasons(before, i, checks, Planned[o]) = {} /\ PriorComplete(before, i)
  <2>1. FlowRefreshed(before, checks, Planned[o])[i].readiness = "READY"
    BY DEF Start, CanStart, RowsAtStart, before
  <2>2. before[i].readiness \notin Started
    BY <1>1, <2>1 DEF FlowRefreshed, Started
  <2>3. ReadinessOf(before, i, StepReasons(before, i, checks, Planned[o])) = "READY"
    <3> DEFINE reasons == StepReasons(before, i, checks, Planned[o])
    <3> HIDE DEF reasons
    <3>1. FlowRefreshed(before, checks, Planned[o])[i] =
            [before[i] EXCEPT !.reasons = reasons, !.readiness = ReadinessOf(before, i, reasons)]
      BY <1>1, <2>2 DEF FlowRefreshed, reasons
    <3> QED
      BY <1>1, <2>1, <3>1 DEF StepRow, reasons
  <2> QED
    BY <2>2, <2>3 DEF ReadinessOf
<1>3. before[i].reasons \ FlowReasons = {}
  BY <1>2 DEF StepReasons
<1>4. i # 1 => before[1].readiness = "COMPLETED"
  BY <1>0, <1>2 DEF PriorComplete
<1>5. CASE before = step[o]
  <2>1. CASE order[o].blocked # ReservationNeeded
    <3>1. step[o] = FlowRefreshed(before, checks, Planned[o])
      BY <1>0, <1>5, <2>1 DEF Current
    <3> QED
      BY <3>1 DEF Start, CanStart, RowsAtStart, before
  <2>2. CASE order[o].blocked = ReservationNeeded
    <3>1. first = ReleasedStep(o, 1)
      BY <1>0, <2>2 DEF FirstRows
    <3>2. i = 1
      BY <1>4, <1>5, <3>1 DEF ReleasedStep, NoStep
    <3>3. RequiresMaterial(o) => first.reasons = {"MATERIAL_SHORTAGE"}
      BY <3>1 DEF ReleasedStep, NoStep
    <3>4. ~RequiresMaterial(o)
      BY <1>3, <1>5, <3>2, <3>3 DEF FlowReasons
    <3> QED
      BY <3>1, <3>2, <3>4 DEF ReleasedStep, NoStep
  <2> QED
    BY <2>1, <2>2
<1>6. CASE before # step[o]
  <2>1. /\ RequiresMaterial(o) /\ first.readiness \notin Started \cup {"ABSENT"}
        /\ before[1].readiness \in {"READY", "BLOCKED"}
        /\ before[1].reasons = (first.reasons \ MaterialReasons)
                                 \cup (IF EnoughMaterial(o) THEN {} ELSE {"MATERIAL_SHORTAGE"})
    <3>1. PICK required \in BOOLEAN, enough \in BOOLEAN :
                 required = RequiresMaterial(o) /\ enough = EnoughMaterial(o)
      BY DEF RequiresMaterial, EnoughMaterial
    <3>2. before = MaterialRefreshed(step[o], required, enough)
      BY <3>1 DEF before
    <3>3. /\ required /\ first.readiness \notin Started \cup {"ABSENT"}
          /\ before[1].readiness \in {"READY", "BLOCKED"}
          /\ before[1].reasons = (first.reasons \ MaterialReasons)
                                   \cup (IF enough THEN {} ELSE {"MATERIAL_SHORTAGE"})
      BY <1>0, <1>6, <3>2, MaterialChanges
    <3> QED
      BY <3>1, <3>3
  <2>2. i = 1
    BY <1>4, <2>1
  <2>3. EnoughMaterial(o) /\ (first.reasons \ MaterialReasons) \ FlowReasons = {}
    BY <1>3, <2>1, <2>2 DEF FlowReasons
  <2>4. /\ InspectionReasons(checks, GatesBefore(1)) = {}
        /\ NoOutputReasons(step[o], 1, Planned[o]) = {}
    BY <1>2, <2>2 DEF StepReasons, NoOutputReasons, PriorComplete, OutputQuantityLimit
  <2>5. CASE order[o].blocked = ReservationNeeded
    <3>1. first = ReleasedStep(o, 1)
      BY <1>0, <2>5 DEF FirstRows
    <3>2. first.readiness = "BLOCKED" /\ first.reasons = {"MATERIAL_SHORTAGE"}
      BY <2>1, <3>1 DEF ReleasedStep, NoStep
    <3> QED
      BY <2>3, <3>2 DEF MaterialRecovered, MaterialReasons
  <2>6. CASE order[o].blocked # ReservationNeeded
    <3> DEFINE reasons == StepReasons(step[o], 1, checks, Planned[o])
    <3>1. step[o] = FlowRefreshed(step[o], checks, Planned[o])
      BY <1>0, <2>6 DEF Current
    <3>2. FlowRefreshed(step[o], checks, Planned[o])[1] =
            [first EXCEPT !.reasons = reasons, !.readiness = ReadinessOf(step[o], 1, reasons)]
      BY <1>0, <2>1 DEF FlowRefreshed
    <3>3. reasons = first.reasons \ FlowReasons
      BY <2>4 DEF StepReasons
    <3> HIDE DEF reasons
    <3>4. first.reasons = reasons /\ first.readiness = ReadinessOf(step[o], 1, reasons)
      <4>1. first = [first EXCEPT !.reasons = reasons, !.readiness = ReadinessOf(step[o], 1, reasons)]
        BY <3>1, <3>2
      <4>2. first \in StepRow
        BY <1>0
      <4>3. PICK readiness : readiness = ReadinessOf(step[o], 1, reasons)
        OBVIOUS
      <4> HIDE DEF first
      <4>4. first.reasons = reasons /\ first.readiness = readiness
        BY <4>1, <4>2, <4>3 DEF StepRow
      <4> QED
        BY <4>3, <4>4
    <3>5. first.readiness = IF reasons = {} THEN "READY" ELSE "BLOCKED"
      BY <3>4 DEF ReadinessOf, PriorComplete
    <3> QED
      BY <2>2, <2>3, <3>3, <3>4, <3>5 DEF MaterialRecovered
  <2> QED
    BY <2>5, <2>6
<1> QED
  BY <1>5, <1>6

(***************************************************************************)
(* The panel adds up the reservations it shows to what the server counts:  *)
(* the pieces of the rows are those of the allocations.                    *)
(***************************************************************************)
LEMMA RowsCount ==
  ASSUME TypeOK, NEW o \in Order, NEW m \in Material, NEW f, f.rows = ReservationRows(o)
  PROVE  /\ ReservedInRows(f, m) = Total(HeldOfMaterial(o, m))
         /\ Total(HeldOfMaterial(o, m)) \in Nat
<1> DEFINE A == HeldOfMaterial(o, m)
           Row(a) == [row |-> a, lot |-> alloc[a].lot, quantity |-> alloc[a].quantity]
           rows == {r \in ReservationRows(o) : MaterialOf[r.lot] = m}
           Shown == UNION {{r} \X (1..r.quantity) : r \in rows}
           g == [p \in Pieces(A) |-> <<Row(p[1]), p[2]>>]
<1>1. A \in SUBSET Allocation /\ \A a \in A : alloc[a].quantity \in Nat
  BY TypeParts DEF HeldOfMaterial, HeldBy, Active, AllocationsTyped, AllocationRow
<1>2. IsFiniteSet(Pieces(A)) /\ Cardinality(Pieces(A)) \in Nat
  BY <1>1, TypeParts, PiecesFinite, FS_CardinalityType
     DEF QuantitiesTyped, AllocationsTyped, AllocationRow
<1>3. \A a \in A : Row(a) \in rows
  BY DEF ReservationRows, HeldOfMaterial
<1>4. \A r \in rows : \E a \in A : r = Row(a)
  BY DEF ReservationRows, HeldOfMaterial
<1>5. \A a, b : Row(a) = Row(b) => a = b
  <2>1. \A a : Row(a).row = a
    OBVIOUS
  <2> QED
    BY <2>1
<1>6. \A a : Row(a).quantity = alloc[a].quantity
  OBVIOUS
<1> HIDE DEF Row, rows, A
<1>7. \A p \in Pieces(A) : \E a \in A : \E k \in 1..alloc[a].quantity : p = <<a, k>>
  BY DEF Pieces
<1>8. g \in [Pieces(A) -> Shown]
  <2> SUFFICES ASSUME NEW p \in Pieces(A) PROVE g[p] \in Shown
    OBVIOUS
  <2>1. PICK a \in A : \E k \in 1..alloc[a].quantity : p = <<a, k>>
    BY <1>7
  <2>2. PICK k \in 1..alloc[a].quantity : p = <<a, k>>
    BY <2>1
  <2>3. g[p] = <<Row(a), k>> /\ Row(a) \in rows /\ k \in 1..Row(a).quantity
    BY <1>3, <1>6, <2>2
  <2> QED
    BY <2>3
<1>9. ASSUME NEW p \in Pieces(A), NEW q \in Pieces(A), g[p] = g[q] PROVE p = q
  <2>1. PICK a \in A, b \in A : (\E k \in 1..alloc[a].quantity : p = <<a, k>>)
                             /\ (\E j \in 1..alloc[b].quantity : q = <<b, j>>)
    BY <1>7
  <2>2. PICK k \in 1..alloc[a].quantity, j \in 1..alloc[b].quantity : p = <<a, k>> /\ q = <<b, j>>
    BY <2>1
  <2>3. g[p] = <<Row(a), k>> /\ g[q] = <<Row(b), j>>
    BY <2>2
  <2>4. Row(a) = Row(b) /\ k = j
    BY <1>9, <2>3
  <2> QED
    BY <1>5, <2>2, <2>4
<1>10. ASSUME NEW w \in Shown PROVE \E p \in Pieces(A) : g[p] = w
  <2>1. PICK r \in rows : \E k \in 1..r.quantity : w = <<r, k>>
    OBVIOUS
  <2>2. PICK k \in 1..r.quantity : w = <<r, k>>
    BY <2>1
  <2>3. PICK a \in A : r = Row(a)
    BY <1>4
  <2>4. <<a, k>> \in Pieces(A)
    BY <1>6, <2>3 DEF Pieces
  <2>5. g[<<a, k>>] = w
    BY <2>2, <2>3, <2>4
  <2> QED
    BY <2>4, <2>5
<1> HIDE DEF g, Shown
<1>11. g \in Bijection(Pieces(A), Shown)
  BY <1>8, <1>9, <1>10 DEF Bijection, Injection, Surjection, IsInjective
<1>12. Cardinality(Shown) = Cardinality(Pieces(A))
  BY <1>2, <1>11, FS_Bijection DEF ExistsBijection
<1>13. ReservedInRows(f, m) = Cardinality(Shown)
  BY DEF ReservedInRows, Shown, rows
<1> QED
  BY <1>2, <1>12, <1>13 DEF Total, A

\* What a form shows when it is opened now.
LEMMA FreshFields ==
  ASSUME TypeOK, NEW p, PageExists(p), NEW verdict \in Verdicts
  PROVE  /\ FreshForm(p, verdict).kind = FormOn(p, Detail(p)).kind
         /\ FreshForm(p, verdict).target = FormOn(p, Detail(p)).target
         /\ FreshForm(p, verdict).limit = FormOn(p, Detail(p)).limit
         /\ FreshForm(p, verdict).rows = ReservationRows(p.order)
         /\ FreshForm(p, verdict).lots = AvailableLots
         /\ FreshForm(p, verdict).verdict = verdict
<1>1. FormOn(p, Detail(p)) \in FormRow
  BY AnswerFits, FormOnFits
<1> QED
  BY <1>1 DEF FreshForm, FormRow

\* The pages from which the commands on o can be given.
LEMMA PagesOf ==
  ASSUME NEW o \in Order
  PROVE  /\ \A at \in {"order", "reservations", "queue", "inspections"} : Page(at, o, 0) \in Pages
         /\ \A i \in Route(o) : step[o][i] # NoStep => Page("process", o, i) \in Pages
         /\ \A s \in SpecsOf[o] : inspection[o][s] # NoCheck => Page("inspection", o, s) \in Pages
BY DEF Pages

LEMMA PageFields ==
  ASSUME NEW at, NEW o, NEW item
  PROVE  Page(at, o, item).at = at /\ Page(at, o, item).order = o /\ Page(at, o, item).item = item
BY DEF Page

\* The order page offers what the server accepts of it.
LEMMA OrderCommandOffered ==
  ASSUME PlantInvariant, NEW o \in Order, NEW c, ServerDoes(c),
         c \in {Command("release", o, 0, 0), Command("cancel", o, 0, 0)}
  PROVE  OfferedSomewhere(c)
<1>1. c.do \in {"release", "cancel"} /\ c.order = o
  BY CommandFields
<1>2. order[o].status = "DRAFT" \/ (order[o].status = "RELEASED" /\ c.do = "cancel")
  BY <1>1 DEF ServerDoes, WorkOrderCommand, MaterialCommand, ProcessCommand, InspectionCommand,
              Release, CanRelease, Cancel, CanCancel, Cancellable
<1>3. PICK p \in Pages : p.at = "order" /\ p.order = o
  BY PagesOf, PageFields
<1>4. Detail(p) = order[o].status
  BY <1>3 DEF Detail, OrderDetail
<1>5. c \in OrderCommands(o, Detail(p))
  BY <1>2, <1>4 DEF OrderCommands
<1>6. c \in Offered(p, Detail(p), FreshForm(p, "PASS"))
  BY <1>3, <1>5 DEF Offered
<1> QED
  BY <1>6 DEF OfferedSomewhere

\* The panel offers each quantity the server would reserve of a lot on its page of
\* lots, and each dissolution.
LEMMA MaterialCommandOffered ==
  ASSUME PlantInvariant, NEW o \in Order, NEW c, ServerDoes(c),
         \/ \E l \in Lot : \E n \in 1..lot[l].onHand : c = Command("reserve", o, l, n)
         \/ \E a \in HeldBy(o) : c = Command("dissolve", o, a, 0)
  PROVE  OfferedSomewhere(c) \/ (c.do = "reserve" /\ ~OnFirstPage(c.item))
<1>1. PICK p \in Pages : p.at = "reservations" /\ p.order = o
  BY PagesOf, PageFields
<1>2. TypeOK /\ PageExists(p) /\ Detail(p) = order[o].status
  BY <1>1, PlantTyped, PagesExist DEF Detail, OrderDetail
<1>3. PICK f : f = FreshForm(p, "PASS")
  OBVIOUS
<1>4. f.rows = ReservationRows(o) /\ f.lots = AvailableLots
  BY <1>1, <1>2, <1>3, FreshFields DEF Verdicts
<1>5. Offered(p, Detail(p), f) = ReservationCommands(o, order[o].status, f)
  BY <1>1, <1>2 DEF Offered
<1>6. CASE \E a \in HeldBy(o) : c = Command("dissolve", o, a, 0)
  <2>1. PICK a \in HeldBy(o) : c = Command("dissolve", o, a, 0)
    BY <1>6
  <2>2. \E r \in f.rows : r.row = a
    <3>1. [row |-> a, lot |-> alloc[a].lot, quantity |-> alloc[a].quantity] \in f.rows
      BY <1>4 DEF ReservationRows
    <3>2. [row |-> a, lot |-> alloc[a].lot, quantity |-> alloc[a].quantity].row = a
      OBVIOUS
    <3> QED
      BY <3>1, <3>2
  <2>3. c \in ReservationCommands(o, order[o].status, f)
    BY <2>1, <2>2 DEF ReservationCommands
  <2> QED
    BY <1>3, <1>5, <2>3 DEF OfferedSomewhere
<1>7. CASE \E l \in Lot : \E n \in 1..lot[l].onHand : c = Command("reserve", o, l, n)
  <2>1. PICK l \in Lot : \E n \in 1..lot[l].onHand : c = Command("reserve", o, l, n)
    BY <1>7
  <2>2. PICK n \in 1..lot[l].onHand : c = Command("reserve", o, l, n)
    BY <2>1
  <2>3. c.do = "reserve" /\ c.order = o /\ c.item = l /\ c.arg = n
    BY <2>2, CommandFields
  <2> SUFFICES ASSUME OnFirstPage(l) PROVE OfferedSomewhere(c)
    BY <2>3
  <2>4. \E a \in Allocation : Reserve(o, l, a, n)
    BY <2>3 DEF ServerDoes, WorkOrderCommand, MaterialCommand, ProcessCommand, InspectionCommand
  <2>5. order[o].status = "RELEASED" /\ n <= Available(l) /\ WithinRequirement(o, l, n)
    BY <2>4 DEF Reserve, CanReserve, Reservable
  <2>6. PICK m \in Material : m = MaterialOf[l]
    BY DatabaseAssumption
  <2>7. /\ ReservedInRows(f, m) = Total(HeldOfMaterial(o, m))
        /\ Total(HeldOfMaterial(o, m)) \in Nat /\ Required[o][m] \in Nat
    BY <1>2, <1>4, RowsCount, DatabaseAssumption
  <2>8. f.lots[l] = Available(l) /\ Available(l) \in Nat /\ n \in Nat \ {0}
    <3>1. AvailableLots \in [Lot -> Nat] /\ lot[l].onHand \in Int
      BY <1>2, PanelType, TypeParts DEF LotsTyped, LotRow
    <3> QED
      BY <1>4, <3>1 DEF AvailableLots
  <2>9. RequiresMaterial(o) => Total(HeldOfMaterial(o, m)) + n <= Required[o][m]
    BY <2>5, <2>6 DEF WithinRequirement
  <2>10. n <= MaxQuantity(o, f, l) /\ MaxQuantity(o, f, l) \in Nat
    <3>1. CASE ~RequiresMaterial(o) \/ f.lots[l] <= Required[o][m] - ReservedInRows(f, m)
      BY <2>5, <2>6, <2>8, <3>1 DEF MaxQuantity
    <3>2. CASE RequiresMaterial(o) /\ ~(f.lots[l] <= Required[o][m] - ReservedInRows(f, m))
      <4>1. Required[o][m] - ReservedInRows(f, m) > 0 /\ n <= Required[o][m] - ReservedInRows(f, m)
        BY <2>7, <2>8, <2>9, <3>2
      <4>2. MaxQuantity(o, f, l) = Required[o][m] - ReservedInRows(f, m)
        BY <2>6, <3>2, <4>1 DEF MaxQuantity
      <4> QED
        BY <2>7, <4>1, <4>2
    <3> QED
      BY <3>1, <3>2
  <2>11. n \in 1..MaxQuantity(o, f, l)
    BY <2>8, <2>10
  <2>12. c \in ReservationCommands(o, order[o].status, f)
    BY <2>2, <2>5, <2>11 DEF ReservationCommands
  <2> QED
    BY <1>3, <1>5, <2>12 DEF OfferedSomewhere
<1> QED
  BY <1>6, <1>7

\* The queue offers the steps that are ready.
LEMMA StartOffered ==
  ASSUME PlantInvariant, NEW o \in Order, NEW i \in Route(o), step[o][i].readiness = "READY"
  PROVE  OfferedSomewhere(Command("start", o, i, 0))
<1>1. PICK p \in Pages : p.at = "queue" /\ p.order = o
  BY PagesOf, PageFields
<1>2. TypeOK /\ PageExists(p) /\ Detail(p) = [j \in Route(o) |-> StepDetail(o, j)]
  BY <1>1, PlantTyped, PagesExist DEF Detail
<1>3. FreshForm(p, "PASS").kind = "none"
  BY <1>1, <1>2, FreshFields, FormKinds DEF FormOn, Verdicts
<1>4. Detail(p)[i].readiness = "READY"
  BY <1>2 DEF StepDetail
<1>5. Command("start", o, i, 0) \in StartCommands(o, Detail(p))
  BY <1>2, <1>4 DEF StartCommands
<1>6. Offered(p, Detail(p), FreshForm(p, "PASS")) = StartCommands(o, Detail(p))
  BY <1>1, <1>3 DEF Offered
<1> QED
  BY <1>5, <1>6 DEF OfferedSomewhere

\* The page of a running step offers every division of its input.
LEMMA CompletionOffered ==
  ASSUME PlantInvariant, NEW o \in Order, NEW i \in Route(o), NEW good \in Nat, NEW defect \in Nat,
         Complete(o, i, good, defect)
  PROVE  OfferedSomewhere(Command("complete", o, i, <<good, defect>>))
<1> DEFINE limit == OutputQuantityLimit(step[o], i, Planned[o])
<1>0. TypeOK /\ limit \in Quantity
  BY PlantTyped, LimitType
<1>1. /\ step[o][i].readiness = "IN_PROGRESS" /\ good + defect >= 1
      /\ limit # Null /\ good + defect = limit
  BY DEF Complete, CanComplete, QuantityAccounted
<1>2. PICK p \in Pages : p.at = "process" /\ p.order = o /\ p.item = i
  BY <1>1, PagesOf, PageFields DEF NoStep
<1>3. PageExists(p) /\ Detail(p) = StepDetail(o, i)
  BY <1>2, PagesExist DEF Detail
<1>4. Detail(p).readiness = "IN_PROGRESS" /\ Detail(p).limit = limit
  BY <1>1, <1>3 DEF StepDetail
<1> HIDE DEF limit
<1>5. FormOn(p, Detail(p)) = CompletionForm(i, limit)
  BY <1>2, <1>4 DEF FormOn
<1>6. CompletionForm(i, limit).limit = limit
  BY DEF CompletionForm, NoForm
<1>7. PICK f : f = FreshForm(p, "PASS") /\ f.kind = "completion" /\ f.target = i /\ f.limit = limit
  BY <1>0, <1>3, <1>5, <1>6, FreshFields, FormKinds DEF Verdicts
<1>8. Offered(p, Detail(p), f) = CompletionCommands(o, i, limit)
  BY <1>2, <1>7 DEF Offered
<1>9. limit # 0 /\ good \in 0..limit /\ defect = limit - good
  BY <1>0, <1>1 DEF Quantity, Null
<1>10. Command("complete", o, i, <<good, defect>>) \in CompletionCommands(o, i, limit)
  BY <1>1, <1>9 DEF CompletionCommands
<1> QED
  BY <1>7, <1>8, <1>10 DEF OfferedSomewhere

\* The page of an inspection offers its verdict or its review.
LEMMA VerdictOffered ==
  ASSUME PlantInvariant, NEW o \in Order, NEW s \in SpecsOf[o], NEW verdict \in Verdicts,
         NEW do, Eligible(o, s),
         \/ do = "verdict" /\ Undecided(inspection[o][s])
         \/ do = "review" /\ Held(inspection[o][s])
  PROVE  OfferedSomewhere(Command(do, o, s, verdict))
<1>0. TypeOK /\ inspection[o][s] # NoCheck
  BY PlantTyped DEF Undecided, Held, NoCheck
<1>1. PICK p \in Pages : p.at = "inspection" /\ p.order = o /\ p.item = s
  BY <1>0, PagesOf, PageFields
<1>2. PageExists(p) /\ Detail(p) = InspectionDetail(o, s)
  BY <1>1, PagesExist DEF Detail
<1>3. /\ Detail(p).undecided = Undecided(inspection[o][s])
      /\ Detail(p).held = Held(inspection[o][s]) /\ Detail(p).eligible
  BY <1>2 DEF InspectionDetail
<1>4. FormOn(p, Detail(p)) = VerdictForm(s)
  BY <1>1, <1>3 DEF FormOn, VerdictOrReview
<1>5. PICK f : /\ f = FreshForm(p, verdict) /\ f.kind = "verdict"
               /\ f.target = s /\ f.verdict = verdict
  BY <1>0, <1>2, <1>4, FreshFields, FormKinds
<1>6. Offered(p, Detail(p), f) = VerdictCommands(p, Detail(p), f)
  BY <1>1, <1>5 DEF Offered
<1>7. do = IF IsReview(p, Detail(p)) THEN "review" ELSE "verdict"
  BY <1>1, <1>3 DEF IsReview, Undecided, Held
<1>8. Command(do, o, s, verdict) \in VerdictCommands(p, Detail(p), f)
  BY <1>1, <1>5, <1>7 DEF VerdictCommands
<1> QED
  BY <1>5, <1>6, <1>8 DEF OfferedSomewhere, Verdicts

\* Whatever the server does for somebody could be ordered from some page.
LEMMA AcceptedOffered ==
  ASSUME PlantInvariant, NEW o \in Order, Current(o), FirstRows(o), NEW c \in Commands(o),
         ServerDoes(c)
  PROVE  \/ OfferedSomewhere(c)
         \/ c.do = "start" /\ MaterialRecovered(o)
         \/ c.do = "reserve" /\ ~OnFirstPage(c.item)
<1> USE CommandFields
    DEF ServerDoes, WorkOrderCommand, MaterialCommand, ProcessCommand, InspectionCommand
<1>1. CASE c \in {Command("release", o, 0, 0), Command("cancel", o, 0, 0)}
  BY <1>1, OrderCommandOffered
<1>2. CASE \E l \in Lot : \E n \in 1..lot[l].onHand : c = Command("reserve", o, l, n)
  BY <1>2, MaterialCommandOffered
<1>3. CASE \E a \in HeldBy(o) : c = Command("dissolve", o, a, 0)
  BY <1>3, MaterialCommandOffered
<1>4. CASE \E i \in Route(o) : c = Command("start", o, i, 0)
  <2>1. PICK i \in Route(o) : c = Command("start", o, i, 0)
    BY <1>4
  <2>2. c.do = "start" /\ Start(o, i)
    BY <2>1
  <2>3. step[o][i].readiness = "READY" \/ MaterialRecovered(o)
    BY <2>2, StartShown DEF PlantInvariant, ContractInvariant
  <2> QED
    BY <2>1, <2>2, <2>3, StartOffered
<1>5. CASE \E i \in Route(o) : \E good \in 0..Planned[o], defect \in 0..Planned[o] :
             c = Command("complete", o, i, <<good, defect>>)
  <2>1. PICK i \in Route(o) : \E good \in 0..Planned[o], defect \in 0..Planned[o] :
               c = Command("complete", o, i, <<good, defect>>)
    BY <1>5
  <2>2. PICK good \in 0..Planned[o], defect \in 0..Planned[o] :
               c = Command("complete", o, i, <<good, defect>>)
    BY <2>1
  <2>3. c.arg[1] = good /\ c.arg[2] = defect /\ good \in Nat /\ defect \in Nat
    BY <2>2
  <2>4. Complete(o, i, good, defect)
    BY <2>2, <2>3
  <2> QED
    BY <2>2, <2>3, <2>4, CompletionOffered
<1>6. CASE \E s \in SpecsOf[o] : \E verdict \in Verdicts :
             c \in {Command("verdict", o, s, verdict), Command("review", o, s, verdict)}
  <2>1. PICK s \in SpecsOf[o] : \E verdict \in Verdicts :
               c \in {Command("verdict", o, s, verdict), Command("review", o, s, verdict)}
    BY <1>6
  <2>2. PICK verdict \in Verdicts :
               c \in {Command("verdict", o, s, verdict), Command("review", o, s, verdict)}
    BY <2>1
  <2>3. PICK do : do \in {"verdict", "review"} /\ c = Command(do, o, s, verdict)
    BY <2>2
  <2>4. c.do = do /\ c.order = o /\ c.item = s /\ c.arg = verdict
    BY <2>3
  <2>5. /\ Eligible(o, s)
        /\ \/ do = "verdict" /\ Undecided(inspection[o][s])
           \/ do = "review" /\ Held(inspection[o][s])
    BY <2>3, <2>4 DEF Verdict, CanDecide, Review, CanReview
  <2> QED
    BY <2>3, <2>5, VerdictOffered
<1> QED
  BY <1>1, <1>2, <1>3, <1>4, <1>5, <1>6 DEF Commands, Verdicts

\* The rows of an order are those of its release or of a refresh.
RowsKnown == \A o \in Order : Current(o) /\ FirstRows(o)

(***************************************************************************)
(* At every time the rows of an order are what release wrote or what a     *)
(* refresh would write now (refreshProductionFlow).                        *)
(***************************************************************************)
THEOREM RowsAreKnown == Spec => []RowsKnown
<1>1. Init => RowsKnown
  BY InitCurrent, InitFirstRows DEF RowsKnown
<1>2. LifeInvariant /\ RowsKnown /\ [Next]_vars => RowsKnown'
  BY NextCurrent, NextFirstRows DEF RowsKnown
<1> QED
  BY <1>1, <1>2, LifeInvariantHolds, PTL DEF Spec

(***************************************************************************)
(* The guards that the pages repeat are not stricter than those of the     *)
(* server: each command the server would accept is offered by some page,   *)
(* except the start of a first step whose material recovered and the       *)
(* reservation of a lot that is not among the first LotPageSize available  *)
(* ones, whatever their number and order.                                  *)
(***************************************************************************)
THEOREM WhatIsAcceptedIsOffered == FormsSpec => AcceptedIsOffered
<1> DEFINE AllOffered ==
      \A o \in Order : \A c \in Commands(o) :
        ServerDoes(c) =>
          \/ OfferedSomewhere(c)
          \/ c.do = "start" /\ MaterialRecovered(o)
          \/ c.do = "reserve" /\ ~OnFirstPage(c.item)
<1>1. FormsInvariant /\ RowsKnown => AllOffered
  BY AcceptedOffered DEF FormsInvariant, RowsKnown
<1>2. AllOffered => (view.phase = "loading" /\ page.at = "order" => AllOffered)
  OBVIOUS
<1> HIDE DEF AllOffered
<1>3. FormsInvariant /\ RowsKnown => (view.phase = "loading" /\ page.at = "order" => AllOffered)
  BY <1>1
<1>4. FormsSpec => [][view.phase = "loading" /\ page.at = "order" => AllOffered]_formVars
  BY <1>3, FormsKept, FormsRunThePlant, RowsAreKnown, PTL
<1> QED
  BY <1>4 DEF AcceptedIsOffered, AllOffered

-----------------------------------------------------------------------------
(* WHAT A PAGE KNOWS OF THE STEPS UNDER WAY *)

\* The rows of completed steps are never written again.
LEMMA NextDoneRows ==
  ASSUME FlowInvariant, [Next]_vars, NEW o \in Order, NEW i \in Route(o),
         step[o][i].readiness = "COMPLETED"
  PROVE  step'[o][i] = step[o][i]
<1>0. TypeOK /\ TypeInvariant /\ step[o][i].readiness \in Started
  BY DEF FlowInvariant, TypeInvariant, Started
<1>1. ASSUME KeepsStarted(o) PROVE step'[o][i] = step[o][i]
  BY <1>0, <1>1 DEF KeepsStarted
<1>2. ASSUME NEW checks, NEW enough, MaterialAndFlowProjected(o, checks, enough)
      PROVE  step'[o][i] = step[o][i]
  BY <1>0, <1>1, <1>2, ProjectedKeepsStarted
<1>3. ASSUME OrderStep(o) PROVE step'[o][i] = step[o][i]
  <2>1. CASE Release(o)
    <3>1. step[o] = [j \in Route(o) |-> NoStep]
      BY <1>0, <2>1 DEF TypeInvariant, DraftUntouched, Release, CanRelease
    <3> QED
      BY <3>1 DEF NoStep
  <2>2. CASE Cancel(o)
    BY <2>2 DEF Cancel
  <2>3. CASE \E l \in Lot, a \in Allocation, quantity \in Nat \ {0} : Reserve(o, l, a, quantity)
    BY <1>2, <2>3 DEF Reserve
  <2>4. CASE \E j \in Route(o) : Start(o, j)
    BY <1>0, <2>4, StartIsGated
  <2>5. CASE \E j \in Route(o), good, defect \in Nat : Complete(o, j, good, defect)
    <3>1. PICK j \in Route(o), good \in Nat, defect \in Nat : Complete(o, j, good, defect)
      BY <2>5
    <3>2. j # i
      BY <3>1 DEF Complete, CanComplete
    <3> QED
      BY <1>0, <3>1, <3>2, ProjectedAfterComplete
  <2>6. CASE \E s, verdict : Verdict(o, s, verdict) \/ Review(o, s, verdict)
    BY <1>2, <2>6 DEF Verdict, Review, VerdictProjected
  <2> QED
    BY <1>0, <1>3, <2>1, <2>2, <2>3, <2>4, <2>5, <2>6, OrderStepCases
<1>4. ASSUME NEW p \in Order \ {o}, OrderStep(p) PROVE step'[o][i] = step[o][i]
  BY <1>0, <1>4, OthersUntouched
<1>5. ASSUME NEW a \in Allocation, ReleaseReservation(a) PROVE step'[o][i] = step[o][i]
  <2>1. PICK p \in Order : p = alloc[a].order
    BY <1>0, <1>5, TypeParts DEF ReleaseReservation, CanDissolve, AllocationsTyped, Active
  <2>2. PICK enough : MaterialAndFlowProjected(p, inspection[p], enough)
    BY <1>5, <2>1 DEF ReleaseReservation, ReservationDissolved
  <2>3. CASE p = o
    BY <1>2, <2>2, <2>3
  <2>4. CASE p # o
    <3>1. PICK rows \in [Route(p) -> StepRow] : FlowProjected(p, rows, inspection[p])
      BY <1>0, <2>2, TypeParts, MaterialRows DEF MaterialAndFlowProjected
    <3> QED
      BY <1>0, <2>4, <3>1, TypeParts, ProjectedRows
  <2> QED
    BY <2>3, <2>4
<1> QED
  BY <1>3, <1>4, <1>5, StepKinds

(***************************************************************************)
(* An output limit is known when it is that of a step that has begun: its  *)
(* predecessor is then completed, and the limit is final.                  *)
(***************************************************************************)
LimitKnown(o, i, limit) ==
  /\ step[o][i].readiness \in Started
  /\ limit = OutputQuantityLimit(step[o], i, Planned[o])

LEMMA LimitKept ==
  ASSUME PlantInvariant, PlantInvariant', [Next]_vars, NEW o \in Order, NEW i \in Route(o),
         NEW limit, LimitKnown(o, i, limit)
  PROVE  LimitKnown(o, i, limit)'
<1>0. FlowInvariant
  BY DEF PlantInvariant, ContractInvariant, LifeInvariant
<1>1. step'[o][i].readiness \in Started
  <2>1. WorkView[o][i] # "waiting"
    BY ViewsRead DEF LimitKnown, Work, Started
  <2>2. WorkView'[o][i] # "waiting"
    BY <2>1, OrdersAdvance
  <2>3. WorkView'[o][i] = Work(step'[o][i])
    BY DEF WorkView, Work
  <2> QED
    BY <2>2, <2>3 DEF Work, Started
<1>2. i # 1 => step'[o][i-1] = step[o][i-1]
  BY <1>0, NextDoneRows, RoutePrefix DEF LimitKnown, FlowInvariant, GatedAt, PriorComplete
<1>3. OutputQuantityLimit(step'[o], i, Planned[o]) = OutputQuantityLimit(step[o], i, Planned[o])
  BY <1>2 DEF OutputQuantityLimit
<1> QED
  BY <1>1, <1>3 DEF LimitKnown

\* What a detail says of the input of a step under way is final.
DetailKnown(p, d) ==
  /\ p.at = "process" /\ d.readiness = "IN_PROGRESS" => LimitKnown(p.order, p.item, d.limit)
  /\ p.at = "queue" => \A i \in Route(p.order) :
       d[i].readiness = "IN_PROGRESS" => LimitKnown(p.order, i, d[i].limit)

\* A completion form accounts for the input of its step; a form the page of a
\* record shows is one that its detail calls for.
FormKnown(p, phase, d, f) ==
  /\ f.kind = "completion" => LimitKnown(p.order, f.target, f.limit)
  /\ phase = "shown" /\ p.at = "process" /\ f.kind = "completion" => d.readiness = "IN_PROGRESS"
  /\ phase = "shown" /\ p.at = "inspection" /\ f.kind = "verdict" => VerdictOrReview(d)

ScreenKnown ==
  /\ view.phase = "shown" => DetailKnown(page, view.detail)
  /\ FormKnown(page, view.phase, view.detail, form)

\* A fresh answer knows the input of every step under way.
LEMMA AnswerKnown ==
  ASSUME NEW p, PageExists(p) PROVE DetailKnown(p, Detail(p))
<1>1. CASE p.at = "process"
  BY <1>1 DEF DetailKnown, Detail, StepDetail, LimitKnown, Started
<1>2. CASE p.at = "queue"
  <2>1. Detail(p) = [i \in Route(p.order) |-> StepDetail(p.order, i)]
    BY <1>2 DEF Detail
  <2> QED
    BY <1>2, <2>1 DEF DetailKnown, StepDetail, LimitKnown, Started
<1> QED
  BY <1>1, <1>2 DEF DetailKnown

\* The plant takes no limit back.
LEMMA DetailKept ==
  ASSUME PlantInvariant, PlantInvariant', [Next]_vars, NEW p, PageExists(p), NEW d,
         DetailKnown(p, d)
  PROVE  DetailKnown(p, d)'
<1>1. p.order \in Order /\ (p.at = "process" => p.item \in Route(p.order))
  BY DEF PageExists
<1> QED
  BY <1>1, LimitKept DEF DetailKnown

LEMMA FormKnownKept ==
  ASSUME PlantInvariant, PlantInvariant', [Next]_vars, NEW p, PageExists(p), NEW phase, NEW d,
         NEW f, FormFits(p, f), FormKnown(p, phase, d, f)
  PROVE  FormKnown(p, phase, d, f)'
<1>1. p.order \in Order /\ (f.kind = "completion" => f.target \in Route(p.order))
  BY DEF PageExists, FormFits
<1> QED
  BY <1>1, LimitKept DEF FormKnown

\* What a page renders when its detail arrives.
LEMMA RenderedKnown ==
  ASSUME NEW p, PageExists(p), NEW phase, NEW d, NEW f, FormFits(p, f), FormKnown(p, phase, d, f)
  PROVE  FormKnown(p, "shown", Detail(p), Rendered(p, Detail(p), f))
<1> DEFINE e == Detail(p)
<1>1. DetailKnown(p, e)
  BY AnswerKnown
<1> HIDE DEF e
<1>2. /\ FormOn(p, e).kind = "completion" => p.at = "process" /\ e.readiness = "IN_PROGRESS"
      /\ FormOn(p, e).kind = "verdict" => p.at = "inspection" /\ VerdictOrReview(e)
  BY FormKinds DEF FormOn
<1>3. FormKnown(p, "shown", e, FormOn(p, e))
  <2>1. ASSUME FormOn(p, e).kind = "completion"
        PROVE  LimitKnown(p.order, FormOn(p, e).target, FormOn(p, e).limit)
    <3>1. FormOn(p, e) = CompletionForm(p.item, e.limit)
      BY <1>2, <2>1 DEF FormOn
    <3>2. FormOn(p, e).target = p.item /\ FormOn(p, e).limit = e.limit
      BY <3>1 DEF CompletionForm, NoForm
    <3> QED
      BY <1>1, <1>2, <2>1, <3>2 DEF DetailKnown
  <2> QED
    BY <1>2, <2>1 DEF FormKnown
<1>4. FormKept(p, e, f) => FormKnown(p, "shown", e, f)
  BY <1>2 DEF FormKnown, FormKept, IsDialog
<1>5. Rendered(p, e, f) = IF FormKept(p, e, f) THEN f ELSE FormOn(p, e)
  BY DEF Rendered
<1> QED
  BY <1>3, <1>4, <1>5 DEF e

\* A reading, and the answer to a release or a cancellation.
LEMMA ReadKnown ==
  ASSUME ClientTyped, ScreenKnown, UNCHANGED vars, page' = page,
         view' = [phase |-> "shown", detail |-> Detail(page)],
         form' = Rendered(page, Detail(page), form)
  PROVE  ScreenKnown'
<1>1. PICK p, f, d, g : p = page /\ f = form /\ d = Detail(page) /\ g = Rendered(page, Detail(page), form)
  OBVIOUS
<1>2. PageExists(p) /\ FormFits(p, f) /\ FormKnown(p, view.phase, view.detail, f)
  BY <1>1 DEF ClientTyped, ScreenKnown
<1>3. DetailKnown(p, d) /\ FormKnown(p, "shown", d, g)
  BY <1>1, <1>2, AnswerKnown, RenderedKnown
<1>4. DetailKnown(p, d)' /\ FormKnown(p, "shown", d, g)'
  BY <1>3 DEF DetailKnown, FormKnown, LimitKnown, vars
<1>5. page' = p /\ view'.phase = "shown" /\ view'.detail = d /\ form' = g
  BY <1>1
<1> QED
  BY <1>4, <1>5 DEF ScreenKnown

\* Where the screen stays as it is, or loses a form or its detail.
LEMMA SameScreen ==
  ASSUME PlantInvariant, PlantInvariant', [Next]_vars, ClientTyped, ScreenKnown,
         page' = page, view' = view \/ view'.phase # "shown",
         form'.kind \in {"completion", "verdict"} =>
           form'.kind = form.kind /\ form'.target = form.target /\ form'.limit = form.limit
  PROVE  ScreenKnown'
<1>1. PICK p, f, d, phase : p = page /\ f = form /\ d = view.detail /\ phase = view.phase
  OBVIOUS
<1>2. /\ PageExists(p) /\ FormFits(p, f) /\ FormKnown(p, phase, d, f)
      /\ phase = "shown" => DetailKnown(p, d)
  BY <1>1 DEF ClientTyped, ScreenKnown
<1>3. FormKnown(p, phase, d, f)' /\ (phase = "shown" => DetailKnown(p, d)')
  BY <1>2, FormKnownKept, DetailKept
<1>4. /\ page' = p
      /\ view'.phase = "shown" => phase = "shown" /\ view'.detail = d
      /\ form'.kind \in {"completion", "verdict"} =>
           form'.kind = f.kind /\ form'.target = f.target /\ form'.limit = f.limit
  BY <1>1
<1> QED
  BY <1>3, <1>4 DEF ScreenKnown, FormKnown

\* Changing the state of a form changes neither what it is about nor its limit.
LEMMA FormStepKnown ==
  ASSUME form \in FormRow,
         \/ form' = form \/ form' = NoForm
         \/ \E rows, parts : form' = [form EXCEPT !.reading = parts, !.rows = rows]
         \/ \E lots, parts : form' = [form EXCEPT !.reading = parts, !.lots = lots]
         \/ \E rows : form' = [form EXCEPT !.rows = rows, !.pending = FALSE]
         \/ \E verdict : form' = [form EXCEPT !.verdict = verdict]
         \/ \E b : form' = [form EXCEPT !.pending = b]
         \/ \E i : form' = [NoForm EXCEPT !.kind = "start", !.target = i, !.pending = TRUE]
  PROVE  form'.kind \in {"completion", "verdict"} =>
           form'.kind = form.kind /\ form'.target = form.target /\ form'.limit = form.limit
BY FormsType, FormKinds DEF FormRow

\* No step of the client or of others takes back what the screen knows.
LEMMA NextScreenKnown ==
  ASSUME PlantInvariant, PlantInvariant', ClientTyped, ScreenKnown, [FormsNext]_formVars
  PROVE  ScreenKnown'
<1>0. [Next]_vars /\ form \in FormRow
  BY FormsStepIsPlantStep DEF ClientTyped
<1> DEFINE SameSubject == form'.kind \in {"completion", "verdict"} =>
             form'.kind = form.kind /\ form'.target = form.target /\ form'.limit = form.limit
<1>1. ASSUME page' = page, view' = view \/ view'.phase # "shown", SameSubject PROVE ScreenKnown'
  BY <1>0, <1>1, SameScreen
<1>2. ASSUME NEW p, Open(p) PROVE ScreenKnown'
  <2>1. view'.phase = "loading" /\ form'.kind = "none"
    BY <1>2, FormKinds DEF Open
  <2> QED
    BY <2>1 DEF ScreenKnown, FormKnown
<1>3. CASE Read
  BY <1>3, ReadKnown DEF Read
<1>4. CASE ReadFails \/ Retry
  <2>1. page' = page /\ view'.phase # "shown" /\ (form' = form \/ form' = NoForm)
    BY <1>4 DEF ReadFails, Retry
  <2>2. SameSubject
    BY <1>0, <2>1, FormStepKnown
  <2> QED
    BY <1>1, <2>1, <2>2
<1>5. ASSUME NEW ok \in BOOLEAN, ReadRows(ok) \/ ReadLots(ok) PROVE ScreenKnown'
  <2>1. \/ \E rows, parts : form' = [form EXCEPT !.reading = parts, !.rows = rows]
        \/ \E lots, parts : form' = [form EXCEPT !.reading = parts, !.lots = lots]
    BY <1>5 DEF ReadRows, ReadLots
  <2>2. SameSubject
    BY <1>0, <2>1, FormStepKnown
  <2> QED
    BY <1>1, <1>5, <2>2 DEF ReadRows, ReadLots
<1>6. CASE OpenDialog
  <2>1. UNCHANGED <<vars, page, view>> /\ view.phase = "shown" /\ DetailKnown(page, view.detail)
    BY <1>6 DEF OpenDialog, ScreenKnown
  <2>2. PICK p, d : p = page /\ d = view.detail
    OBVIOUS
  <2>3. DetailKnown(p, d) /\ DetailKnown(p, d)'
    BY <2>1, <2>2 DEF DetailKnown, LimitKnown, vars
  <2>4. ASSUME p.at = "queue", NEW i \in Route(p.order), d[i].readiness = "IN_PROGRESS",
               form' = CompletionForm(i, d[i].limit)
        PROVE  ScreenKnown'
    <3>1. LimitKnown(p.order, i, d[i].limit)'
      BY <2>3, <2>4 DEF DetailKnown
    <3>2. form'.kind = "completion" /\ form'.target = i /\ form'.limit = d[i].limit
      BY <2>4 DEF CompletionForm, NoForm
    <3> QED
      BY <2>1, <2>2, <2>3, <2>4, <3>1, <3>2 DEF ScreenKnown, FormKnown
  <2>5. ASSUME p.at = "inspections", NEW s, form' = VerdictForm(s) PROVE ScreenKnown'
    <3>1. form'.kind = "verdict"
      BY <2>5, FormKinds
    <3> QED
      BY <2>1, <2>2, <2>3, <2>5, <3>1 DEF ScreenKnown, FormKnown
  <2>6. p.at = "queue" => DOMAIN d = Route(p.order)
    BY <2>1, <2>2 DEF ClientTyped, DetailFits
  <2> QED
    BY <1>6, <2>2, <2>4, <2>5, <2>6 DEF OpenDialog
<1>7. CASE Dismiss \/ CloseSheet \/ \E verdict \in {"PASS", "FAIL", "HOLD"} : Choose(verdict)
  <2>1. /\ UNCHANGED <<page, view>>
        /\ \/ form' = form \/ form' = NoForm
           \/ \E verdict : form' = [form EXCEPT !.verdict = verdict]
    BY <1>7 DEF Dismiss, Done, CloseSheet, Choose
  <2>2. SameSubject
    BY <1>0, <2>1, FormStepKnown
  <2> QED
    BY <1>1, <2>1, <2>2
<1>8. ASSUME NEW c, Submit(c) PROVE ScreenKnown'
  <2>1. /\ UNCHANGED <<page, view>>
        /\ \/ form' = form
           \/ \E b : form' = [form EXCEPT !.pending = b]
           \/ \E i : form' = [NoForm EXCEPT !.kind = "start", !.target = i, !.pending = TRUE]
    BY <1>8 DEF Submit
  <2>2. SameSubject
    BY <1>0, <2>1, FormStepKnown
  <2> QED
    BY <1>1, <2>1, <2>2
<1>9. CASE Execute \/ UNCHANGED clientVars
  BY <1>1, <1>9 DEF Execute, clientVars
<1>10. CASE Answered
  <2>1. CASE Replaced
    BY <1>10, <2>1, ReadKnown DEF Answered, Replaced
  <2>2. CASE RowsReplaced \/ Done
    <3>1. /\ UNCHANGED <<page, view>>
          /\ \/ form' = form \/ form' = NoForm
             \/ \E rows : form' = [form EXCEPT !.rows = rows, !.pending = FALSE]
      BY <2>2 DEF RowsReplaced, Done
    <3>2. SameSubject
      BY <1>0, <3>1, FormStepKnown
    <3> QED
      BY <1>1, <3>1, <3>2
  <2> QED
    BY <1>10, <2>1, <2>2 DEF Answered
<1>11. CASE Failed
  <2>1. /\ UNCHANGED <<page, view>>
        /\ form' = NoForm \/ \E b : form' = [form EXCEPT !.pending = b]
    BY <1>11 DEF Failed, PendingCleared
  <2>2. SameSubject
    BY <1>0, <2>1, FormStepKnown
  <2> QED
    BY <1>1, <2>1, <2>2
<1> QED
  BY <1>2, <1>3, <1>4, <1>5, <1>6, <1>7, <1>8, <1>9, <1>10, <1>11, FormsCases

LEMMA InitScreenKnown == FormsInit => ScreenKnown
BY FormKinds DEF FormsInit, ScreenKnown, FormKnown

(***************************************************************************)
(* A page knows the input of every step it shows under way, however old    *)
(* its detail and its form are, and the page of a record shows only a form *)
(* its detail calls for (useLoadState and the completion forms, which take *)
(* their limit once).                                                      *)
(***************************************************************************)
THEOREM ScreensAreKnown == FormsSpec => []ScreenKnown
<1>1. FormsInvariant /\ FormsInvariant' /\ ScreenKnown /\ [FormsNext]_formVars => ScreenKnown'
  BY NextScreenKnown DEF FormsInvariant
<1> QED
  BY <1>1, InitScreenKnown, FormsKept, PTL DEF FormsSpec

-----------------------------------------------------------------------------
(* WHAT A PAGE OFFERS, THE SERVER ACCEPTS *)

NothingLocked == \A l \in Lot : ~Locked(l)

\* A row that does not exist yet has not begun.
LEMMA NoStepWaits == NoStep.readiness = "ABSENT" /\ NoStep.readiness \notin Started
BY DEF NoStep, Started

\* Only an order in progress has a step under way.
LEMMA BegunStepOrder ==
  ASSUME PlantInvariant, CancelledOrderClean, NEW o \in Order, NEW i \in Route(o),
         step[o][i].readiness = "IN_PROGRESS"
  PROVE  order[o].status = "IN_PROGRESS"
<1>1. OrdersTyped /\ StepsTyped /\ DraftUntouched /\ StatusDerived(o)
  BY PlantTyped, TypeParts
     DEF PlantInvariant, ContractInvariant, LifeInvariant, FlowInvariant, TypeInvariant, OrdersTyped
<1>2. AnyStarted(step[o]) /\ ~AllCompleted(step[o])
  BY <1>1, RowsOfRoute DEF Started
<1>3. order[o].status # "DRAFT"
  BY <1>1, NoStepWaits DEF DraftUntouched
<1>4. order[o].status # "CANCELLED"
  BY <1>2 DEF CancelledOrderClean, NoExecution
<1>5. Live(o)
  <2>1. order[o] \in OrderRow
    BY <1>1 DEF OrdersTyped
  <2> QED
    BY <1>3, <1>4, <2>1 DEF OrderRow, Live
<1> QED
  BY <1>1, <1>2, <1>5, StatusByRows DEF StatusDerived

\* The buttons of the order page.
LEMMA OrderCommandAccepted ==
  ASSUME PlantInvariant, NothingLocked, NEW o \in Order, NEW c \in OrderCommands(o, order[o].status)
  PROVE  Accepts(c) \/ (c.do = "release" /\ ~ReleasePrepared(c.order))
<1>1. c.order = o /\ c.do \in {"release", "cancel"}
  BY CommandFields DEF OrderCommands
<1>2. order[o].status = "DRAFT" \/ (order[o].status = "RELEASED" /\ c.do = "cancel")
  BY DEF OrderCommands
<1>3. CASE c.do = "release"
  BY <1>1, <1>2, <1>3 DEF Accepts, CanRelease
<1>4. CASE c.do = "cancel"
  <2>1. OrdersTyped /\ StepsTyped /\ DraftUntouched /\ StatusDerived(o)
    BY PlantTyped, TypeParts
       DEF PlantInvariant, ContractInvariant, LifeInvariant, FlowInvariant, TypeInvariant, OrdersTyped
  <2>2. ASSUME order[o].status = "DRAFT" PROVE NoExecution(o)
    <3>1. \A i \in Route(o) : step[o][i] = NoStep
      BY <2>1, <2>2 DEF DraftUntouched
    <3> QED
      BY <2>1, <3>1, RowsOfRoute, NoStepWaits DEF NoExecution
  <2>3. ASSUME order[o].status = "RELEASED" PROVE NoExecution(o)
    BY <2>1, <2>3, StatusByRows DEF NoExecution, StatusDerived, Live
  <2>4. \A a \in HeldBy(o) : ~Locked(alloc[a].lot)
    BY PlantTyped, TypeParts DEF NothingLocked, HeldBy, AllocationsTyped
  <2> QED
    BY <1>1, <1>2, <1>4, <2>2, <2>3, <2>4 DEF Accepts, CanCancel, Cancellable
<1> QED
  BY <1>1, <1>3, <1>4

\* The reservation panel, when its rows and lots are those of now.
LEMMA ReservationCommandAccepted ==
  ASSUME PlantInvariant, NothingLocked, NEW o \in Order,
         NEW f, f.rows = ReservationRows(o), f.lots = AvailableLots,
         NEW c \in ReservationCommands(o, order[o].status, f)
  PROVE  Accepts(c)
<1>1. CASE \E r \in f.rows : c = Command("dissolve", o, r.row, 0)
  <2>1. PICK r \in f.rows : c = Command("dissolve", o, r.row, 0)
    BY <1>1
  <2>2. PICK a \in HeldBy(o) : r = [row |-> a, lot |-> alloc[a].lot, quantity |-> alloc[a].quantity]
    BY DEF ReservationRows
  <2>3. r.row = a
    BY <2>2
  <2>4. c.do = "dissolve" /\ c.item = a
    BY <2>1, <2>3, CommandFields
  <2>5. alloc[a].status = "ACTIVE" /\ ~Locked(alloc[a].lot)
    BY PlantTyped, TypeParts DEF NothingLocked, HeldBy, Active, AllocationsTyped
  <2> QED
    BY <2>4, <2>5 DEF Accepts, CanDissolve
<1>2. CASE /\ order[o].status = "RELEASED"
           /\ \E l \in Lot : \E n \in 1..MaxQuantity(o, f, l) : c = Command("reserve", o, l, n)
  <2>1. PICK l \in Lot : \E n \in 1..MaxQuantity(o, f, l) : c = Command("reserve", o, l, n)
    BY <1>2
  <2>2. PICK n \in 1..MaxQuantity(o, f, l) : c = Command("reserve", o, l, n)
    BY <2>1
  <2>3. PICK m \in Material : m = MaterialOf[l]
    BY DatabaseAssumption
  <2>4. /\ ReservedInRows(f, m) = Total(HeldOfMaterial(o, m))
        /\ Total(HeldOfMaterial(o, m)) \in Nat /\ Required[o][m] \in Nat
    BY PlantTyped, RowsCount, DatabaseAssumption
  <2>5. f.lots[l] = Available(l) /\ Available(l) \in Nat
    <3>1. f.lots[l] \in Nat /\ f.lots[l] = IF OnFirstPage(l) THEN Available(l) ELSE 0
      BY PlantTyped, PanelType DEF AvailableLots
    <3>2. f.lots[l] = 0 => MaxQuantity(o, f, l) = 0
      BY <2>3, <2>4 DEF MaxQuantity
    <3>3. f.lots[l] # 0
      BY <2>2, <3>2
    <3> QED
      BY <3>1, <3>3
  <2>6. /\ n \in Nat \ {0} /\ n <= Available(l)
        /\ RequiresMaterial(o) => Total(HeldOfMaterial(o, m)) + n <= Required[o][m]
    <3>1. CASE ~RequiresMaterial(o)
      BY <2>5, <3>1 DEF MaxQuantity
    <3>2. CASE RequiresMaterial(o) /\ f.lots[l] <= Required[o][m] - ReservedInRows(f, m)
      <4>1. MaxQuantity(o, f, l) = Available(l)
        BY <2>3, <2>5, <3>2 DEF MaxQuantity
      <4> QED
        BY <2>4, <2>5, <3>2, <4>1
    <3>3. CASE RequiresMaterial(o) /\ ~(f.lots[l] <= Required[o][m] - ReservedInRows(f, m))
      <4>1. MaxQuantity(o, f, l) = IF Required[o][m] - ReservedInRows(f, m) > 0
                                   THEN Required[o][m] - ReservedInRows(f, m) ELSE 0
        BY <2>3, <3>3 DEF MaxQuantity
      <4>2. /\ Required[o][m] - ReservedInRows(f, m) > 0
            /\ n <= Required[o][m] - ReservedInRows(f, m)
        BY <2>4, <4>1
      <4> QED
        BY <2>4, <2>5, <3>3, <4>2
    <3> QED
      BY <3>1, <3>2, <3>3
  <2>7. Usable(l)
    BY <2>6 DEF Available
  <2>8. WithinRequirement(o, l, n)
    BY <2>3, <2>4, <2>6 DEF WithinRequirement
  <2>9. c.do = "reserve" /\ c.order = o /\ c.item = l /\ c.arg = n
    BY <2>2, CommandFields
  <2>10. CanReserve(o, l, n)
    BY <1>2, <2>6, <2>7, <2>8 DEF CanReserve, Reservable, NothingLocked
  <2> QED
    BY <2>9, <2>10 DEF Accepts
<1> QED
  BY <1>1, <1>2 DEF ReservationCommands

\* The completion of a step under way, whose input the form knows.
LEMMA CompletionAccepted ==
  ASSUME PlantInvariant, CancelledOrderClean, NEW o \in Order, NEW i \in Route(o),
         step[o][i].readiness = "IN_PROGRESS", NEW limit, LimitKnown(o, i, limit),
         NEW c \in CompletionCommands(o, i, limit)
  PROVE  Accepts(c)
<1>1. limit = OutputQuantityLimit(step[o], i, Planned[o]) /\ limit \in Quantity
  BY PlantTyped, LimitType DEF LimitKnown
<1>2. limit # Null /\ limit # 0
  BY DEF CompletionCommands
<1>3. limit \in Nat /\ limit >= 1
  BY <1>1, <1>2 DEF Quantity
<1>4. PICK good \in 0..limit : c = Command("complete", o, i, <<good, limit - good>>)
  BY DEF CompletionCommands
<1>5. c.do = "complete" /\ c.order = o /\ c.item = i /\ c.arg = <<good, limit - good>>
  BY <1>4, CommandFields
<1>6. c.arg[1] = good /\ c.arg[2] = limit - good
  BY <1>5
<1>7. QuantityAccounted(o, i, good, limit - good)
  BY <1>1, <1>2, <1>3 DEF QuantityAccounted
<1>8. CanComplete(o, i, good, limit - good)
  BY <1>3, <1>7, BegunStepOrder DEF CanComplete
<1> QED
  BY <1>5, <1>6, <1>8 DEF Accepts

\* The server executes an order that has a READY step and is not cancelled.
LEMMA ReadyStepOrder ==
  ASSUME LifeInvariant, NEW o \in Order, NEW i \in Route(o), step[o][i].readiness = "READY",
         order[o].status # "CANCELLED"
  PROVE  /\ order[o].status \in Executable /\ Live(o)
         /\ step[o][1].readiness = "READY" => order[o].status = "RELEASED"
<1>1. OrdersTyped /\ StepsTyped /\ DraftUntouched /\ StatusDerived(o) /\ GatedAt(o)
  BY TypeParts DEF LifeInvariant, FlowInvariant, TypeInvariant, OrdersTyped
<1>2. order[o].status # "DRAFT"
  BY <1>1, NoStepWaits DEF DraftUntouched
<1>3. Live(o)
  <2>1. order[o] \in OrderRow
    BY <1>1 DEF OrdersTyped
  <2> QED
    BY <1>2, <2>1 DEF OrderRow, Live
<1>4. ~AllCompleted(step[o])
  BY <1>1, RowsOfRoute
<1>5. order[o].status = StatusOf(step[o], inspection[o]) /\ order[o].status # "COMPLETED"
  BY <1>1, <1>3, <1>4, StatusByRows DEF StatusDerived
<1>6. ASSUME step[o][1].readiness = "READY" PROVE order[o].status = "RELEASED"
  <2>1. ASSUME NEW j \in Route(o) PROVE step[o][j].readiness \notin Started
    <3>1. CASE j = 1
      BY <1>6, <3>1 DEF Started
    <3>2. CASE j # 1
      <4>1. 1 \in 1..(j-1)
        BY <3>2, RouteNonempty
      <4> QED
        BY <1>1, <1>6, <4>1 DEF GatedAt, PriorComplete
    <3> QED
      BY <3>1, <3>2
  <2> QED
    BY <1>1, <1>5, <2>1, RowsOfRoute, StatusByRows
<1> QED
  BY <1>3, <1>5, <1>6 DEF Live, Executable

\* A READY row says that nothing blocks its step, and a refresh says so again.
LEMMA ReadyAgain ==
  ASSUME LifeInvariant, NEW o \in Order, Current(o), FirstRows(o), Live(o),
         NEW i \in Route(o), step[o][i].readiness = "READY"
  PROVE  /\ FlowRefreshed(step[o], inspection[o], Planned[o])[i].readiness = "READY"
         /\ PriorComplete(step[o], i) /\ step[o][i].reasons = {}
<1> DEFINE reasons == StepReasons(step[o], i, inspection[o], Planned[o])
<1>0. /\ RouteLength[o] \in Nat /\ Route(o) = 1..RouteLength[o]
      /\ step[o] \in [1..RouteLength[o] -> StepRow]
  BY TypeParts, RouteNonempty
     DEF LifeInvariant, FlowInvariant, TypeInvariant, OrdersTyped, StepsTyped
<1>1. FlowRefreshed(step[o], inspection[o], Planned[o])[i].readiness = ReadinessOf(step[o], i, reasons)
      /\ FlowRefreshed(step[o], inspection[o], Planned[o])[i].reasons = reasons
  BY <1>0, RefreshedRow DEF Started
<1>2. CASE order[o].blocked # ReservationNeeded
  <2>1. step[o] = FlowRefreshed(step[o], inspection[o], Planned[o])
    BY <1>2 DEF Current
  <2>2. step[o][i].reasons = reasons /\ ReadinessOf(step[o], i, reasons) = "READY"
    BY <1>1, <2>1
  <2> HIDE DEF reasons
  <2>3. reasons = {} /\ PriorComplete(step[o], i)
    BY <2>2 DEF ReadinessOf
  <2> QED
    BY <2>1, <2>2, <2>3
<1>3. CASE order[o].blocked = ReservationNeeded
  <2>1. step[o][i] = ReleasedStep(o, i)
    BY <1>3 DEF FirstRows
  <2>2. i = 1 /\ step[o][i].reasons = {}
    BY <1>0, <2>1 DEF ReleasedStep, NoStep
  <2>3. PriorComplete(step[o], i)
    BY <2>2 DEF PriorComplete
  <2>4. InspectionReasons(inspection[o], GatesBefore(i)) = {}
    BY <2>2 DEF GatesBefore, InspectionReasons
  <2>5. NoOutputReasons(step[o], i, Planned[o]) = {}
    <3>1. OutputQuantityLimit(step[o], i, Planned[o]) \in Nat \ {0}
      BY <2>2, DatabaseAssumption DEF OutputQuantityLimit
    <3> QED
      BY <3>1 DEF NoOutputReasons, Null
  <2>6. reasons = {}
    BY <2>2, <2>4, <2>5 DEF StepReasons
  <2> HIDE DEF reasons
  <2> QED
    BY <1>1, <2>2, <2>3, <2>6 DEF ReadinessOf
<1> QED
  BY <1>2, <1>3

\* Reservations that cover the demand suffice as long as all of them are usable.
LEMMA CoveredIsEnough ==
  ASSUME NEW o \in Order, ~LotsExpired(o),
         \A m \in Material : Total(HeldOfMaterial(o, m)) >= Required[o][m]
  PROVE  EnoughMaterial(o)
<1> SUFFICES ASSUME NEW m \in Material
             PROVE  Total({a \in HeldOfMaterial(o, m) : Usable(alloc[a].lot)}) >= Required[o][m]
  BY DEF EnoughMaterial
<1>1. {a \in HeldOfMaterial(o, m) : Usable(alloc[a].lot)} = HeldOfMaterial(o, m)
  BY DEF HeldOfMaterial, LotsExpired
<1> QED
  BY <1>1

\* A first row that is READY for good is not rewritten.
LEMMA ReadyMaterialKept ==
  ASSUME NEW n \in Nat \ {0}, NEW rows \in [1..n -> StepRow], NEW required,
         rows[1].readiness = "READY", rows[1].reasons = {}
  PROVE  MaterialRefreshed(rows, required, TRUE) = rows
<1>1. 1 \in 1..n /\ rows[1] \in StepRow
  OBVIOUS
<1>2. CASE ~required
  BY <1>2 DEF MaterialRefreshed
<1>3. CASE required
  <2> DEFINE reasons == (rows[1].reasons \ MaterialReasons) \cup {}
             new == [rows EXCEPT ![1].reasons = reasons,
                                 ![1].readiness = IF reasons = {} THEN "READY" ELSE "BLOCKED"]
  <2>1. MaterialRefreshed(rows, required, TRUE) = new
    BY <1>3 DEF MaterialRefreshed, Started
  <2>2. reasons = {}
    OBVIOUS
  <2> HIDE DEF reasons
  <2>3. new[1] = [rows[1] EXCEPT !.reasons = {}, !.readiness = "READY"]
    BY <1>1, <2>2
  <2>4. new[1] = rows[1]
    <3>1. PICK row \in StepRow : row = rows[1]
      BY <1>1
    <3>2. [row EXCEPT !.reasons = {}, !.readiness = "READY"] = row
      BY <3>1 DEF StepRow
    <3> QED
      BY <2>3, <3>1, <3>2
  <2>5. new \in [1..n -> StepRow] /\ \A j \in 1..n : new[j] = rows[j]
    BY <1>1, <2>2, <2>4 DEF StepRow
  <2> HIDE DEF new
  <2>6. new = rows
    BY <2>5
  <2> QED
    BY <2>1, <2>6
<1> QED
  BY <1>2, <1>3

\* What the order holds of each lot is there to be taken.
LEMMA HeldIsConsumable ==
  ASSUME PlantInvariant, NoOverReservation, NothingLocked, NEW o \in Order, ~LotsExpired(o)
  PROVE  MaterialsConsumable(o)
<1>1. AllocationsTyped /\ LotsTyped
  BY PlantTyped, TypeParts
<1> SUFFICES ASSUME NEW b \in HeldBy(o), NEW l \in Lot, l = alloc[b].lot
             PROVE  /\ Usable(l) /\ ~Locked(l)
                    /\ lot[l].onHand >= Taken(o, l) /\ lot[l].reserved >= Taken(o, l)
  BY <1>1 DEF MaterialsConsumable, HeldBy, AllocationsTyped
<1>2. Usable(l) /\ ~Locked(l)
  BY DEF LotsExpired, NothingLocked
<1> DEFINE A == {a \in HeldBy(o) : alloc[a].lot = l}
<1>3. A \in SUBSET ReservedOn(l) /\ ReservedOn(l) \in SUBSET Allocation
  BY DEF HeldBy, ReservedOn, Active
<1>4. \A a \in ReservedOn(l) : alloc[a].quantity \in Nat
  BY <1>1, <1>3 DEF AllocationsTyped, AllocationRow
<1>5. Taken(o, l) = Sum(A, alloc)
  BY TotalIsSum DEF Taken
<1>6. lot[l].reserved = Sum(ReservedOn(l), alloc)
  BY TotalIsSum DEF PlantInvariant, Books, ReservedMatchesAllocations
<1> HIDE DEF A
<1>7. /\ Sum(A, alloc) <= Sum(ReservedOn(l), alloc)
      /\ Sum(A, alloc) \in Nat /\ Sum(ReservedOn(l), alloc) \in Nat
  BY <1>3, <1>4, SumMonotone
<1>8. lot[l].onHand \in Int /\ lot[l].reserved \in 0..lot[l].onHand
  BY <1>1 DEF LotsTyped, LotRow, NoOverReservation
<1> QED
  BY <1>2, <1>5, <1>6, <1>7, <1>8

\* The start of a step whose row is READY, unless the row outlived its material
\* or its order.
LEMMA StartAccepted ==
  ASSUME PlantInvariant, BillInvariant, NoOverReservation, NothingLocked,
         NEW o \in Order, Current(o), FirstRows(o),
         NEW i \in Route(o), step[o][i].readiness = "READY",
         ~LotsExpired(o), order[o].status # "CANCELLED"
  PROVE  CanStart(o, i)
<1>0. LifeInvariant /\ RouteLength[o] \in Nat \ {0} /\ Route(o) = 1..RouteLength[o]
      /\ 1 \in Route(o) /\ step[o] \in [1..RouteLength[o] -> StepRow]
  BY TypeParts, RouteNonempty
     DEF BillInvariant, LifeInvariant, FlowInvariant, TypeInvariant, OrdersTyped, StepsTyped
<1>1. /\ order[o].status \in Executable /\ Live(o)
      /\ step[o][1].readiness = "READY" => order[o].status = "RELEASED"
  BY <1>0, ReadyStepOrder
<1>2. /\ FlowRefreshed(step[o], inspection[o], Planned[o])[i].readiness = "READY"
      /\ PriorComplete(step[o], i) /\ step[o][i].reasons = {}
  BY <1>0, <1>1, ReadyAgain
<1>3. MaterialRefreshed(step[o], RequiresMaterial(o), EnoughMaterial(o)) = step[o]
  <2>1. CASE i # 1
    <3>1. 1 \in 1..(i-1)
      BY <1>0, <2>1
    <3>2. step[o][1].readiness \in Started
      BY <1>2, <3>1 DEF PriorComplete, Started
    <3> QED
      BY <3>2 DEF MaterialRefreshed
  <2>2. CASE i = 1
    <3>1. \A m \in Material : Total(HeldOfMaterial(o, m)) >= Required[o][m]
      BY <1>1, <2>2 DEF BillInvariant, ReadyCovered
    <3>2. EnoughMaterial(o)
      BY <3>1, CoveredIsEnough
    <3>3. EnoughMaterial(o) = TRUE
      BY <3>2 DEF EnoughMaterial
    <3> QED
      BY <1>0, <1>2, <2>2, <3>3, ReadyMaterialKept
  <2> QED
    BY <2>1, <2>2
<1>4. RowsAtStart(o)[i].readiness = "READY"
  BY <1>2, <1>3 DEF RowsAtStart
<1> QED
  BY <1>1, <1>4, HeldIsConsumable DEF CanStart

\* The verdict or the review of the inspection page.
LEMMA VerdictAccepted ==
  ASSUME NEW p, p.at = "inspection", NEW d, d = Detail(p), VerdictOrReview(d),
         NEW f, f.target = p.item, d.held => f.verdict # "HOLD",
         NEW c \in VerdictCommands(p, d, f)
  PROVE  Accepts(c)
<1>1. /\ d.undecided = Undecided(inspection[p.order][p.item])
      /\ d.held = Held(inspection[p.order][p.item])
      /\ d.eligible = Eligible(p.order, p.item)
  BY DEF Detail, InspectionDetail
<1>2. /\ c.do = (IF d.held THEN "review" ELSE "verdict")
      /\ c.order = p.order /\ c.item = p.item /\ c.arg = f.verdict
  BY CommandFields DEF VerdictCommands, IsReview
<1> QED
  BY <1>1, <1>2 DEF VerdictOrReview, Accepts, CanDecide, CanReview

\* A verdict from the list, if the inspection may be decided yet.
LEMMA ListedVerdictAccepted ==
  ASSUME NEW p, p.at = "inspections", NEW f, f.target \in Detail(p),
         NEW c \in VerdictCommands(p, Detail(p), f)
  PROVE  Accepts(c) \/ ~Eligible(c.order, c.item)
<1>1. Undecided(inspection[p.order][f.target])
  BY DEF Detail
<1>2. c.do = "verdict" /\ c.order = p.order /\ c.item = f.target
  BY CommandFields DEF VerdictCommands, IsReview
<1> QED
  BY <1>1, <1>2 DEF Accepts, CanDecide

\* The exceptions that OfferedIsAccepted names.
Excused(c) ==
  \/ c.do = "release" /\ ~ReleasePrepared(c.order)
  \/ c.do = "start" /\ (LotsExpired(c.order) \/ order[c.order].status = "CANCELLED")
  \/ page.at = "inspections" /\ ~Eligible(c.order, c.item)

LEMMA OfferedAccepted ==
  ASSUME PlantInvariant, ClientTyped, ScreenKnown, RowsKnown, BillInvariant, NoOverReservation,
         CancelledOrderClean, UpToDate, ~HeldFormKept, NothingLocked,
         NEW c \in Offered(page, view.detail, form)
  PROVE  Accepts(c) \/ Excused(c)
<1> DEFINE d == view.detail
<1>0. /\ PageExists(page) /\ page.order \in Order /\ DetailFits(page, d)
      /\ form \in FormRow /\ FormFits(page, form) /\ PanelShown(page, "shown", form)
      /\ d = Detail(page) /\ view.phase = "shown"
      /\ FormKnown(page, "shown", d, form)
  BY DEF UpToDate, ClientTyped, PageExists, ScreenKnown
<1>1. PICK o \in Order : o = page.order
  BY <1>0
<1>2. CASE page.at \in {"order", "reservations"}
  <2>1. d = order[o].status
    BY <1>0, <1>1, <1>2 DEF Detail, OrderDetail
  <2>2. form.rows = ReservationRows(o) /\ form.lots = AvailableLots
    BY <1>0, <1>1, <1>2 DEF PanelShown, UpToDate
  <2>3. CASE c \in ReservationCommands(o, d, form)
    BY <2>1, <2>2, <2>3, ReservationCommandAccepted
  <2>4. CASE page.at = "order" /\ c \in OrderCommands(o, d)
    BY <2>1, <2>4, OrderCommandAccepted DEF Excused
  <2> QED
    BY <1>1, <1>2, <2>3, <2>4 DEF Offered
<1>3. CASE page.at \in {"process", "queue"} /\ form.kind = "completion"
  <2>1. PICK i \in Route(o) : i = form.target
    BY <1>0, <1>1, <1>3 DEF FormFits
  <2>2. step[o][i].readiness = "IN_PROGRESS"
    <3>1. CASE page.at = "process"
      <4>1. d = StepDetail(o, i) /\ d.readiness = "IN_PROGRESS"
        BY <1>0, <1>1, <1>3, <2>1, <3>1 DEF FormFits, FormKnown, Detail
      <4> QED
        BY <4>1 DEF StepDetail
    <3>2. CASE page.at = "queue"
      <4>1. Detail(page)[i].readiness = "IN_PROGRESS"
        BY <1>3, <2>1, <3>2 DEF UpToDate, IsDialog
      <4>2. Detail(page)[i] = StepDetail(o, i)
        BY <1>1, <3>2 DEF Detail
      <4> QED
        BY <4>1, <4>2 DEF StepDetail
    <3> QED
      BY <1>3, <3>1, <3>2
  <2>3. LimitKnown(o, i, form.limit)
    BY <1>0, <1>1, <1>3, <2>1 DEF FormKnown
  <2>4. c \in CompletionCommands(o, i, form.limit)
    BY <1>1, <1>3, <2>1 DEF Offered
  <2> QED
    BY <2>2, <2>3, <2>4, CompletionAccepted
<1>4. CASE page.at = "queue" /\ form.kind # "completion"
  <2>1. c \in StartCommands(o, d)
    BY <1>1, <1>4 DEF Offered
  <2>2. d = [i \in Route(o) |-> StepDetail(o, i)]
    BY <1>0, <1>1, <1>4 DEF Detail
  <2>3. PICK i \in Route(o) : c = Command("start", o, i, 0) /\ d[i].readiness = "READY"
    BY <2>1, <2>2 DEF StartCommands
  <2>4. step[o][i].readiness = "READY" /\ c.do = "start" /\ c.order = o /\ c.item = i
    BY <2>2, <2>3, CommandFields DEF StepDetail
  <2>5. CASE ~LotsExpired(o) /\ order[o].status # "CANCELLED"
    BY <2>4, <2>5, StartAccepted DEF RowsKnown, Accepts
  <2>6. CASE ~(~LotsExpired(o) /\ order[o].status # "CANCELLED")
    BY <2>4, <2>6 DEF Excused
  <2> QED
    BY <2>5, <2>6
<1>5. CASE page.at = "inspection" /\ form.kind = "verdict"
  <2>1. c \in VerdictCommands(page, d, form)
    BY <1>5 DEF Offered
  <2>2. VerdictOrReview(d) /\ form.target = page.item /\ (d.held => form.verdict # "HOLD")
    BY <1>0, <1>5 DEF FormKnown, FormFits, HeldFormKept
  <2> QED
    BY <1>0, <1>5, <2>1, <2>2, VerdictAccepted
<1>6. CASE page.at = "inspections" /\ form.kind = "verdict"
  <2>1. c \in VerdictCommands(page, Detail(page), form)
    BY <1>0, <1>6 DEF Offered
  <2>2. form.target \in Detail(page)
    BY <1>6 DEF UpToDate, IsDialog
  <2> QED
    BY <1>6, <2>1, <2>2, ListedVerdictAccepted DEF Excused
<1>7. CASE ~ \/ page.at \in {"order", "reservations", "queue"}
             \/ page.at = "process" /\ form.kind = "completion"
             \/ page.at \in {"inspection", "inspections"} /\ form.kind = "verdict"
  <2>1. Offered(page, d, form) = {}
    BY <1>7 DEF Offered
  <2> QED
    BY <2>1
<1> QED
  BY <1>2, <1>3, <1>4, <1>5, <1>6, <1>7

(***************************************************************************)
(* The guards that the pages repeat are not weaker than those of the       *)
(* server: whatever a page offers while it shows what is, with whatever    *)
(* state its form kept from before, the server accepts, except what        *)
(* OfferedIsAccepted names.  As for the stock, no two quality requests on  *)
(* one lot may overlap: a lot that was scrapped twice has nothing left of  *)
(* what it promised.                                                       *)
(***************************************************************************)
THEOREM WhatIsOfferedIsAccepted == FormsSpec /\ []OneRequestPerLot => []OfferedIsAccepted
<1>1. FormsInvariant /\ ScreenKnown /\ RowsKnown /\ BillInvariant /\ StockInvariant
        /\ CancelledOrderClean => OfferedIsAccepted
  <2> SUFFICES ASSUME FormsInvariant, ScreenKnown, RowsKnown, BillInvariant, StockInvariant,
                      CancelledOrderClean, UpToDate, ~HeldFormKept, NothingLocked,
                      NEW c \in Offered(page, view.detail, form)
               PROVE  Accepts(c) \/ Excused(c)
    BY DEF OfferedIsAccepted, Excused, NothingLocked
  <2> QED
    BY OfferedAccepted DEF FormsInvariant, StockInvariant
<1> QED
  BY <1>1, FormsKept, ScreensAreKnown, FormsRunThePlant, RowsAreKnown, BillHolds, StockHolds,
     CancelledIsClean, PTL
=============================================================================
