CONSTANTS
    v1 = v1
    v2 = v2
    me = me
    detail = detail
    View <- MCView
    KeysOf <- MCKeysOf
    Key = {me, detail}
    SessionKey = me
    NoKey = NoKey
    Entry = {e1, e2}
    NoEntry = NoEntry
    Replacing = {v1}
    MaxCommands = 1
    MaxAuth = 1
    MaxReload = 1
    MaxMoves = 3
SPECIFICATION FairSpec
INVARIANTS
    WaitingReadAlive
    AnsweredCommandsShown
    ShownDataMatchesQuery
    NoOldSessionData
PROPERTIES
    EveryLoadSettles
CHECK_DEADLOCK FALSE
