---------------------------- MODULE MCCommandForms ----------------------------
(***************************************************************************)
(* One order of one piece over two steps, a gate inspection and a final    *)
(* one; the material in two lots, of which one expires, and a panel that   *)
(* shows one lot at a time.                                                *)
(***************************************************************************)
EXTENDS CommandForms, TLC

CONSTANTS o1, l1, l2, m1, gate, final

MCOrder == {o1}
MCLot == {l1, l2}
MCMaterial == {m1}
MCSpec == {gate, final}
MCGate == [s \in MCSpec |-> IF s = final THEN "LOT_COMPLETE" ELSE "ROUTE_ADVANCE"]
MCStepOf == [s \in MCSpec |-> IF s = gate THEN 1 ELSE 2]
MCPlanned == [o \in MCOrder |-> 1]
MCRouteLength == [o \in MCOrder |-> 2]
MCRequired == [o \in MCOrder |-> [m \in MCMaterial |-> 1]]
MCSpecsOf == [o \in MCOrder |-> MCSpec]
MCMaterialOf == [l \in MCLot |-> m1]
MCReceived == [l \in MCLot |-> IF l = l1 THEN 1 ELSE 2]
MCInitialDisposition == [l \in MCLot |-> {"ACCEPTED"}]
MCPerishable == {l1}
MCLotRank == [l \in MCLot |-> IF l = l1 THEN 1 ELSE 2]
MCSeedReservation == [o \in {} |-> {}]

Symmetry == Permutations(Allocation)
=============================================================================
