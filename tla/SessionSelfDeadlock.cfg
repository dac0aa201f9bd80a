SPECIFICATION Spec
CONSTANTS
    AppThreads = {a}
    Loop = loop
    Timers = {}
    Closers = {}
    LoopClosers = {}
    MaxCloses = 0
    LoopPosts = {"down"}
    Blocking = {FALSE}
    KeepLimit = 0
    QueueLimit = 2
    QueueTimeout = 1
    MaxConns = 2
    MaxFetch = 2
    MaxTime = 4
INVARIANTS
    CallbackMayPost
CHECK_DEADLOCK FALSE
