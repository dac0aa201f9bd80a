SPECIFICATION Spec
CONSTANTS
    AppThreads = {a}
    Loop = loop
    Timers = {t}
    Closers = {d, e}
    LoopClosers = {}
    MaxCloses = 2
    LoopPosts = {}
    Blocking = {FALSE}
    KeepLimit = 0
    QueueLimit = 2
    QueueTimeout = 1
    MaxConns = 2
    MaxFetch = 1
    MaxTime = 3
INVARIANTS
    DisconnectAssertion
CHECK_DEADLOCK FALSE
