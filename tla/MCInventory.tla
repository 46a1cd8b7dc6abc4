----------------------------- MODULE MCInventory -----------------------------
(***************************************************************************)
(* Two orders compete for lots, nobody controls quality.  Order o1 needs   *)
(* two pieces of m1, which come in two lots, and one of m2; order o2 has   *)
(* no bill of materials and may reserve anything.  Lot l1 expires.         *)
(***************************************************************************)
EXTENDS ManufacturingFlow, TLC

CONSTANTS o1, o2, l1, l2, l3, m1, m2, final

MCOrder == {o1, o2}
MCLot == {l1, l2, l3}
MCMaterial == {m1, m2}
MCSpec == {final}
MCGate == [s \in MCSpec |-> "LOT_COMPLETE"]
MCStepOf == [s \in MCSpec |-> 1]
MCPlanned == [o \in MCOrder |-> 1]
MCRouteLength == [o \in MCOrder |-> 1]
MCRequired == [o \in MCOrder |-> [m \in MCMaterial |->
    IF o = o2 THEN 0 ELSE IF m = m1 THEN 2 ELSE 1]]
MCSpecsOf == [o \in MCOrder |-> {}]
MCMaterialOf == [l \in MCLot |-> IF l = l3 THEN m2 ELSE m1]
MCReceived == [l \in MCLot |-> IF l = l1 THEN 2 ELSE 1]
MCInitialDisposition == [l \in MCLot |-> {"ACCEPTED"}]
MCPerishable == {l1}
MCSeedReservation == [o \in {} |-> {}]

Symmetry == Permutations(Allocation)
=============================================================================
