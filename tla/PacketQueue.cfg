SPECIFICATION Spec
CONSTANTS
    MaxPackets = 4
    Queues = {"sending", "dest"}
    MaxTime = 1
INVARIANTS
    TypeOK
    SizeAndTailAgree
    NoPacketShared
PROPERTIES
    ImplementsFifo
