CONSTANTS
    o1 = o1
    o2 = o2
    l1 = l1
    l2 = l2
    l3 = l3
    m1 = m1
    m2 = m2
    final = final
    NoOrder = NoOrder
    NoLot = NoLot
    Order <- MCOrder
    Lot <- MCLot
    Material <- MCMaterial
    Allocation = {a1, a2, a3, a4}
    Inspector = {}
    InspectionSpec <- MCSpec
    Gate <- MCGate
    StepOf <- MCStepOf
    Planned <- MCPlanned
    RouteLength <- MCRouteLength
    Producible <- MCOrder
    DueSoon = {}
    Required <- MCRequired
    SpecsOf <- MCSpecsOf
    MaterialOf <- MCMaterialOf
    Received <- MCReceived
    InitialDisposition <- MCInitialDisposition
    Perishable <- MCPerishable
    MaxIncidents = 0
    Imported = {}
    SeedReservation <- MCSeedReservation
SPECIFICATION Spec
SYMMETRY Symmetry
INVARIANTS
    NoOverReservation
    BillOfMaterialsConsumed
    GenealogyComplete
    ReadyFullyReserved
CHECK_DEADLOCK FALSE
