SPECIFICATION Spec
CONSTANTS
    AppThreads = {a, b}
    Loop = loop
    Timers = {t}
    Closers = {}
    LoopClosers = {}
    MaxCloses = 0
    LoopPosts = {"handle", "down"}
    Blocking = {FALSE}
    KeepLimit = 0
    QueueLimit = 1
    QueueTimeout = 1
    MaxConns = 2
    MaxFetch = 4
    MaxTime = 3
SYMMETRY Symmetry
INVARIANTS
    TypeOK
    CalledAtMostOnce
    HandlerGetsItsArgs
    UnsentChannelIsOwned
    QueueNotStranded
    InFlightBounded
CHECK_DEADLOCK FALSE
