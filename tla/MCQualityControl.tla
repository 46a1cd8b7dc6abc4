--------------------------- MODULE MCQualityControl ---------------------------
(***************************************************************************)
(* The demo database right after seeding, while a quality engineer decides *)
(* on lots and registers incidents.  Order o1 was imported in              *)
(* mid-production with a held gate inspection and a reservation on l1; the *)
(* new order o2 needs a piece of l1 and one of l2.  Lot l1 expires, l2     *)
(* arrives undecided or already rejected.                                  *)
(***************************************************************************)
EXTENDS CommandContract, TLC

CONSTANTS o1, o2, l1, l2, m1, gate1, gate2, a1

MCOrder == {o1, o2}
MCLot == {l1, l2}
MCMaterial == {m1}
MCSpec == {gate1, gate2}
MCGate == [s \in MCSpec |-> "ROUTE_ADVANCE"]
MCStepOf == [s \in MCSpec |-> IF s = gate1 THEN 1 ELSE 2]
MCPlanned == [o \in MCOrder |-> 1]
MCRouteLength == [o \in MCOrder |-> IF o = o1 THEN 2 ELSE 1]
MCRequired == [o \in MCOrder |-> [m \in MCMaterial |-> IF o = o1 THEN 0 ELSE 2]]
MCSpecsOf == [o \in MCOrder |-> IF o = o1 THEN MCSpec ELSE {}]
MCMaterialOf == [l \in MCLot |-> m1]
MCReceived == [l \in MCLot |-> IF l = l1 THEN 2 ELSE 1]
MCInitialDisposition == [l \in MCLot |->
    IF l = l2 THEN {"PENDING", "REJECTED"} ELSE {"ACCEPTED"}]
MCPerishable == {l1}
MCImported == {o1}
MCSeedReservation == [o \in MCImported |-> [id |-> a1, lot |-> l1, quantity |-> 1]]

Symmetry == Permutations(Allocation \ {a1})
=============================================================================
