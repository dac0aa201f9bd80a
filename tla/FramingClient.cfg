SPECIFICATION Spec
CONSTANTS
    HeaderLen = 2
    MaxLen = 2
    Kinds = {"good"}
    Batch = 2
    Batching = {FALSE}
    KeepsHeader = TRUE
    MaxFrames = 2
    MaxConns = 2
INVARIANTS
    ValidDataIsHandled
CHECK_DEADLOCK FALSE
