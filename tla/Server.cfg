SPECIFICATION FairSpec
CONSTANTS
    Conns = {c, d}
    Loops = {l}
    Main = main
    Workers = {w}
    Other = other
    Nobody = nobody
    MaxMessages = 1
INVARIANTS
    TypeOK
    StopLeavesNothing
    ReadersAreServed
    ContextIsAlive
    FailsOnlyOnRaces
PROPERTIES
    LostPeerIsForgotten
    StopReturnsOrHangs
CHECK_DEADLOCK FALSE
