SPECIFICATION Spec
CONSTANTS
    MaxCells = 6
    ClusterSize = 3
    IdSpace = 5
    MaxFetch = 4
    MaxTime = 2
INVARIANTS
    TypeOK
    UseListMatchesMap
    ReplyFindsItsRequest
    FreeListHasNoLiveChannel
    TimeoutListsStayIntact
PROPERTIES
    SpentIdStaysSpent
    ImplementsTable
CHECK_DEADLOCK FALSE
