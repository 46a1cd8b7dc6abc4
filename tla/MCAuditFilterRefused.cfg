CONSTANTS
    MaxPageSize = 2
    Lists = {"audit"}
    Pool <- MCPool
    Opening <- MCOpening
    Linked <- MCLinked
    Editable <- Offered
    Sizes = {1, 2}
    MaxMoves = 1
    MaxEdits = 1
    MaxWrites = 0
SPECIFICATION Spec
INVARIANT OfferedQueriesAnswered
CHECK_DEADLOCK FALSE
