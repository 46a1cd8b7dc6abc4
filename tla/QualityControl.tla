---------------------------- MODULE QualityControl ----------------------------
(***************************************************************************)
(* The quality decisions on material lots: MaterialLotDispositionService   *)
(* .decide (apps/api/src/material-lots/material-lot-disposition.service.ts)*)
(* and QualityIncidentsService.register with quarantineMaterialLot         *)
(* (apps/api/src/quality-incidents/quality-incidents.service.ts).          *)
(*                                                                         *)
(* Both run in a READ COMMITTED transaction without row locks on what they *)
(* read: every statement sees the latest committed rows, and what was      *)
(* decided from an earlier statement may be out of date when the update    *)
(* is made.  One action per statement; an update and what follows it up to *)
(* the commit are one action when nothing in between reads shared state.   *)
(***************************************************************************)
EXTENDS MesDatabase

\* DISPOSITION_TARGETS
DispositionTargets(d) ==
    CASE d = "PENDING"     -> {"ACCEPTED", "HOLD", "REJECTED"}
      [] d = "HOLD"        -> {"ACCEPTED", "REJECTED"}
      [] d = "QUARANTINED" -> {"ACCEPTED", "HOLD", "REJECTED"}
      [] OTHER             -> {}

Advance(q, pc) == session' = [session EXCEPT ![q].pc = pc]
Finish(q) == session' = [session EXCEPT ![q] = IdleSession]

-----------------------------------------------------------------------------

(***************************************************************************)
(* decide.  The quantity that a rejection will scrap is the onHand read    *)
(* here.                                                                   *)
(***************************************************************************)
DecideRead(q, l, target) ==
    /\ session[q].pc = "idle"
    /\ target \in DispositionTargets(lot[l].disposition)
    /\ session' = [session EXCEPT ![q] =
         [IdleSession EXCEPT !.pc = IF target = "REJECTED" THEN "counting" ELSE "deciding",
                             !.lot = l, !.target = target,
                             !.seenOnHand = IF target = "REJECTED" THEN lot[l].onHand ELSE 0]]
    /\ UNCHANGED <<productionVars, inspectionVars, inventoryVars, incidents, overdue>>

NoReservationCheck(l) == TRUE                                         \* mutant

\* A lot with active reservations may not be rejected.
Unreserved(l) == ReservedOn(l) = {}

DecideCount(q) ==
    /\ session[q].pc = "counting"
    /\ IF Unreserved(session[q].lot) THEN Advance(q, "deciding") ELSE Finish(q)
    /\ UNCHANGED <<productionVars, inspectionVars, inventoryVars, incidents, overdue>>

StockForgotten(row, target, seenOnHand) ==                            \* mutant
    IF target = "REJECTED"
    THEN [row EXCEPT !.disposition = target, !.onHand = 0]
    ELSE [row EXCEPT !.disposition = target]

Decided(row, target, seenOnHand) ==
    IF target = "REJECTED"
    THEN [row EXCEPT !.disposition = target, !.scrapped = @ + seenOnHand, !.onHand = 0]
    ELSE [row EXCEPT !.disposition = target]

DecideUpdate(q) ==
    LET s == session[q] IN
    /\ s.pc = "deciding"
    /\ ~ Locked(s.lot)
    /\ lot' = [lot EXCEPT ![s.lot] = Decided(@, s.target, s.seenOnHand)]
    /\ Finish(q)
    /\ UNCHANGED <<productionVars, inspectionVars, alloc, incidents, overdue>>

-----------------------------------------------------------------------------

(***************************************************************************)
(* register, for an incident on a material lot.  The quarantine is written *)
(* first and the lot row stays locked until the incident is inserted.      *)
(***************************************************************************)
AnyContainable(d) == TRUE                                             \* mutant

Containable(d) == d # "REJECTED"

RegisterRead(q, l) ==
    /\ session[q].pc = "idle"
    /\ Containable(lot[l].disposition)
    /\ session' = [session EXCEPT ![q] =
         [IdleSession EXCEPT
            !.pc = IF lot[l].disposition = "QUARANTINED" THEN "numbering" ELSE "quarantining",
            !.lot = l]]
    /\ UNCHANGED <<productionVars, inspectionVars, inventoryVars, incidents, overdue>>

QuarantineUpdate(q) ==
    /\ session[q].pc = "quarantining"
    /\ ~ Locked(session[q].lot)
    /\ session' = [session EXCEPT ![q].pc = "numbering", ![q].holdsLock = TRUE]
    /\ UNCHANGED <<productionVars, inspectionVars, inventoryVars, incidents, overdue>>

\* The incident number is derived from the number of incidents.
CountIncidents(q) ==
    /\ session[q].pc = "numbering"
    /\ Cardinality(incidents) < MaxIncidents
    /\ session' = [session EXCEPT ![q].pc = "inserting",
                                  ![q].counted = Cardinality(incidents)]
    /\ UNCHANGED <<productionVars, inspectionVars, inventoryVars, incidents, overdue>>

NumberReused(n) == TRUE                                               \* mutant

\* The unique index on incidentNumber accepts the number.
NumberFree(n) == n \notin incidents

(***************************************************************************)
(* The insert and the commit: the staged quarantine becomes visible with   *)
(* the incident, or both are lost to the unique index.                     *)
(***************************************************************************)
RegisterCommit(q) ==
    LET s == session[q]
        number == s.counted + 1
    IN
    /\ s.pc = "inserting"
    /\ NumberFree(number)
    /\ incidents' = incidents \cup {number}
    /\ lot' = IF s.holdsLock
              THEN [lot EXCEPT ![s.lot].disposition = "QUARANTINED"] ELSE lot
    /\ Finish(q)
    /\ UNCHANGED <<productionVars, inspectionVars, alloc, overdue>>

(***************************************************************************)
(* The transaction ends without effect: the unique index refused the       *)
(* number, or the connection, the process or the transaction timed out.    *)
(***************************************************************************)
Rollback(q) ==
    /\ session[q].pc # "idle"
    /\ Finish(q)
    /\ UNCHANGED <<productionVars, inspectionVars, inventoryVars, incidents, overdue>>
=============================================================================
