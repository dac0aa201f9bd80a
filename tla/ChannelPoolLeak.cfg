SPECIFICATION Spec
CONSTANTS
    MaxCells = 6
    ClusterSize = 3
    IdSpace = 8
    MaxFetch = 4
    MaxTime = 2
INVARIANTS
    NoChannelLost
CHECK_DEADLOCK FALSE
