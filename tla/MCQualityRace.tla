---------------------------- MODULE MCQualityRace ----------------------------
(***************************************************************************)
(* Two requests of quality engineers run at the same time on one lot, and  *)
(* an order of one step and no inspection needs a piece of it.             *)
(***************************************************************************)
EXTENDS ManufacturingFlow, TLC

CONSTANTS o1, l1, m1, final

MCOrder == {o1}
MCLot == {l1}
MCMaterial == {m1}
MCSpec == {final}
MCGate == [s \in MCSpec |-> "LOT_COMPLETE"]
MCStepOf == [s \in MCSpec |-> 1]
MCPlanned == [o \in MCOrder |-> 1]
MCRouteLength == [o \in MCOrder |-> 1]
MCRequired == [o \in MCOrder |-> [m \in MCMaterial |-> 1]]
MCSpecsOf == [o \in MCOrder |-> {}]
MCMaterialOf == [l \in MCLot |-> m1]
MCReceived == [l \in MCLot |-> 2]
MCInitialDisposition == [l \in MCLot |-> {"PENDING", "ACCEPTED"}]
MCSeedReservation == [o \in {} |-> {}]

Symmetry == Permutations(Allocation) \cup Permutations(Inspector)
=============================================================================
