SPECIFICATION Spec
CONSTANTS
    HeaderLen = 2
    MaxLen = 2
    Kinds = {"good", "unknown", "bad", "broken"}
    Batch = 2
    Batching = {TRUE, FALSE}
    KeepsHeader = FALSE
    MaxFrames = 3
    MaxConns = 2
INVARIANTS
    TypeOK
    PacketsIntact
    ValidDataIsHandled
    GivenOnceInOrder
CHECK_DEADLOCK FALSE
