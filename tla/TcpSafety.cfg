CONSTANTS
    MaxTuple = 4
    StreamCapacity = 1
    QueueSize = 1
    MaxPendingAcks = 2
    BufferedFrames = 1
    Resends = FALSE
    DataQueueSize = 1
SPECIFICATION Spec
INVARIANTS
    TypeOK
    AcksAreExpected
    NothingVanishes
PROPERTY ImplementsFifoChannel
CHECK_DEADLOCK FALSE
