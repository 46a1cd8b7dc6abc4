----------------------------- MODULE MCOrderFlow -----------------------------
(***************************************************************************)
(* One order over a route of three steps: two gate inspections, one final  *)
(* inspection, one piece of material in a lot on which two quality         *)
(* engineers decide and register incidents at the same time.               *)
(***************************************************************************)
EXTENDS CommandContract, TLC

CONSTANTS o1, l1, m1, gate1, gate2, final

MCOrder == {o1}
MCLot == {l1}
MCMaterial == {m1}
MCSpec == {gate1, gate2, final}
MCGate == [s \in MCSpec |-> IF s = final THEN "LOT_COMPLETE" ELSE "ROUTE_ADVANCE"]
MCStepOf == [s \in MCSpec |-> CASE s = gate1 -> 1 [] s = gate2 -> 2 [] OTHER -> 3]
MCPlanned == [o \in MCOrder |-> 3]
MCRouteLength == [o \in MCOrder |-> 3]
MCRequired == [o \in MCOrder |-> [m \in MCMaterial |-> 1]]
MCSpecsOf == [o \in MCOrder |-> MCSpec]
MCMaterialOf == [l \in MCLot |-> m1]
MCReceived == [l \in MCLot |-> 1]
MCInitialDisposition == [l \in MCLot |-> {"ACCEPTED"}]
MCSeedReservation == [o \in {} |-> {}]

Symmetry == Permutations(Allocation) \cup Permutations(Inspector)
=============================================================================
