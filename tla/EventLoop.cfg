SPECIFICATION Spec
CONSTANTS
    Posters = {a, loop}
    Loop = loop
    Stopper = s
    MaxPosts = 2
INVARIANTS
    TypeOK
    NoLostWakeup
    FailsOnlyAfterStop
PROPERTIES
    ImplementsMailbox
CHECK_DEADLOCK FALSE
