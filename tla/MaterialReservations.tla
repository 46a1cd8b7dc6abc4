------------------------- MODULE MaterialReservations -------------------------
(***************************************************************************)
(* MaterialReservationsService.reserve and release                         *)
(* (apps/api/src/material-reservations/material-reservations.service.ts)   *)
(* and the passing of the expiry date of a lot.                            *)
(***************************************************************************)
EXTENDS MesDatabase

\* computeAvailableQuantity: what may still be promised of lot l.
AvailableIgnoringReserved(l) == IF Usable(l) THEN lot[l].onHand ELSE 0    \* mutant

Available(l) ==
    IF Usable(l) /\ lot[l].onHand > lot[l].reserved
    THEN lot[l].onHand - lot[l].reserved ELSE 0

(***************************************************************************)
(* An order with requirements may reserve only what its bill of materials  *)
(* names, up to the required quantity; whatever the lot's quality, every   *)
(* active reservation of the material counts.                              *)
(***************************************************************************)
WithinRequirement(o, l, quantity) ==
    RequiresMaterial(o) =>
        /\ Required[o][MaterialOf[l]] > 0
        /\ Total(HeldOfMaterial(o, MaterialOf[l])) + quantity <= Required[o][MaterialOf[l]]

Reservable == {"RELEASED"}

CanReserve(o, l, quantity) ==
    /\ order[o].status \in Reservable
    /\ Usable(l)
    /\ quantity <= Available(l)
    /\ WithinRequirement(o, l, quantity)
    /\ ~ Locked(l)

Reserve(o, l, a, quantity) ==
    /\ CanReserve(o, l, quantity)
    /\ alloc[a].status = "FREE"
    /\ lot' = [lot EXCEPT ![l].reserved = @ + quantity]
    /\ alloc' = [alloc EXCEPT ![a] =
         [status |-> "ACTIVE", order |-> o, lot |-> l, quantity |-> quantity,
          reason |-> "NONE"]]
    /\ MaterialAndFlowProjected(o, inspection[o], EnoughMaterial(o)')
    /\ UNCHANGED <<inspectionVars, consumed, qualityVars, overdue>>

ReleasedWithoutRefresh(a, o) ==                                       \* mutant
    /\ lot' = [lot EXCEPT ![alloc[a].lot].reserved = @ - alloc[a].quantity]
    /\ alloc' = [alloc EXCEPT ![a].status = "CLOSED", ![a].reason = "RELEASED"]
    /\ UNCHANGED <<order, step>>

\* A reservation is dissolved whatever the state of its order.
ReservationDissolved(a, o) ==
    /\ lot' = [lot EXCEPT ![alloc[a].lot].reserved = @ - alloc[a].quantity]
    /\ alloc' = [alloc EXCEPT ![a].status = "CLOSED", ![a].reason = "RELEASED"]
    /\ MaterialAndFlowProjected(o, inspection[o], EnoughMaterial(o)')

CanDissolve(a) ==
    /\ alloc[a].status = "ACTIVE"
    /\ ~ Locked(alloc[a].lot)

ReleaseReservation(a) ==
    /\ CanDissolve(a)
    /\ ReservationDissolved(a, alloc[a].order)
    /\ UNCHANGED <<inspectionVars, consumed, qualityVars, overdue>>

(***************************************************************************)
(* Date.now() passes expiresAt.  Nothing runs on the server: the rows that *)
(* were derived from the lot stay as they are.                             *)
(***************************************************************************)
Expire(l) ==
    /\ l \in Perishable
    /\ ~ lot[l].expired
    /\ lot' = [lot EXCEPT ![l].expired = TRUE]
    /\ UNCHANGED <<productionVars, inspectionVars, alloc, qualityVars, overdue>>
=============================================================================
