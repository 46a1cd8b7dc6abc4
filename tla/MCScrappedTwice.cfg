CONSTANTS
    o1 = o1
    l1 = l1
    m1 = m1
    final = final
    NoOrder = NoOrder
    NoLot = NoLot
    Order <- MCOrder
    Lot <- MCLot
    Material <- MCMaterial
    Allocation = {a1, a2}
    Inspector = {q1, q2}
    InspectionSpec <- MCSpec
    Gate <- MCGate
    StepOf <- MCStepOf
    Planned <- MCPlanned
    RouteLength <- MCRouteLength
    Producible <- MCOrder
    DueSoon = {}
    Required <- MCRequired
    SpecsOf <- MCSpecsOf
    MaterialOf <- MCMaterialOf
    Received <- MCReceived
    InitialDisposition <- MCInitialDisposition
    Perishable = {}
    MaxIncidents = 1
    Imported = {}
    SeedReservation <- MCSeedReservation
SPECIFICATION Spec
SYMMETRY Symmetry
INVARIANTS
    LotConservation
CHECK_DEADLOCK FALSE
