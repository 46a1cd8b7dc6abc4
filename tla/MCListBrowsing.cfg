CONSTANTS
    MaxPageSize = 2
    Lists <- ListName
    Pool <- MCPool
    Opening <- MCOpening
    Linked <- MCLinked
    Editable <- Offered
    Sizes = {1, 2}
    MaxMoves = 2
    MaxEdits = 1
    MaxWrites = 1
SPECIFICATION FairSpec
INVARIANTS
    ShownRowsMatch
    SubmittedKept
    RefusalsKnown
    CountersMatchLists
PROPERTIES
    PagesDisjoint
    ScreenFollowsUrl
CHECK_DEADLOCK FALSE
