CONSTANTS
    o1 = o1
    o2 = o2
    l1 = l1
    l2 = l2
    m1 = m1
    gate1 = gate1
    gate2 = gate2
    a1 = a1
    NoOrder = NoOrder
    NoLot = NoLot
    Order <- MCOrder
    Lot <- MCLot
    Material <- MCMaterial
    Allocation = {a1, a2, a3}
    Inspector = {q1}
    InspectionSpec <- MCSpec
    Gate <- MCGate
    StepOf <- MCStepOf
    Planned <- MCPlanned
    RouteLength <- MCRouteLength
    Producible <- MCOrder
    DueSoon = {}
    Required <- MCRequired
    SpecsOf <- MCSpecsOf
    MaterialOf <- MCMaterialOf
    Received <- MCReceived
    InitialDisposition <- MCInitialDisposition
    Perishable <- MCPerishable
    MaxIncidents = 1
    Imported <- MCImported
    SeedReservation <- MCSeedReservation
SPECIFICATION Spec
SYMMETRY Symmetry
INVARIANTS
    LotConservation
    RejectedLotEmpty
    DerivedRowsCurrent
    DecisionsExplainVerdict
PROPERTIES
    OnlyUsableMaterialConsumed
CHECK_DEADLOCK FALSE
