CONSTANTS
    o1 = o1
    l1 = l1
    l2 = l2
    m1 = m1
    gate = gate
    final = final
    NoOrder = NoOrder
    NoLot = NoLot
    Order <- MCOrder
    Lot <- MCLot
    Material <- MCMaterial
    Allocation = {a1, a2}
    Inspector = {}
    InspectionSpec <- MCSpec
    Gate <- MCGate
    StepOf <- MCStepOf
    Planned <- MCPlanned
    RouteLength <- MCRouteLength
    Producible <- MCOrder
    DueSoon <- MCOrder
    Required <- MCRequired
    SpecsOf <- MCSpecsOf
    MaterialOf <- MCMaterialOf
    Received <- MCReceived
    InitialDisposition <- MCInitialDisposition
    Perishable <- MCPerishable
    MaxIncidents = 0
    Imported = {}
    SeedReservation <- MCSeedReservation
    LotRank <- MCLotRank
    LotPageSize = 1
SPECIFICATION FormsSpec
SYMMETRY Symmetry
CHECK_DEADLOCK FALSE
INVARIANTS
    OfferedIsAccepted
    PendingEnds
PROPERTIES
    AcceptedIsOffered
    RetryRefused
