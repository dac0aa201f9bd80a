SPECIFICATION FairSpec
CONSTANTS
    AppThreads = {a}
    Loop = loop
    Timers = {t}
    Closers = {d, e}
    LoopClosers = {e}
    MaxCloses = 1
    LoopPosts = {}
    Blocking = {TRUE}
    KeepLimit = 0
    QueueLimit = 1
    QueueTimeout = 1
    MaxConns = 1
    MaxFetch = 2
    MaxTime = 3
INVARIANTS
    DisconnectEndsRequests
PROPERTIES
    EveryRequestEnds
    PostReturns
    DisconnectReturns
CHECK_DEADLOCK FALSE
