CONSTANTS
    Cast = {"PLANNER", "MATERIAL_MANAGER", "OPERATOR", "QUALITY_ENGINEER", "ADMIN"}
    Elsewhere = {"OPERATOR"}
    Addresses = {"lot", "not-found"}
    MaxSessions = 2
    MaxGuided = 1
    MaxMoves = 1
SPECIFICATION FairSpec
INVARIANTS
    RenderedPagesReadable
    NoDeadEnd
    TourLeavesWorkAlone
PROPERTIES
    TourSettles
CHECK_DEADLOCK FALSE
