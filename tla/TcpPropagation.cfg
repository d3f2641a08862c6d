CONSTANTS
    MaxTuple = 1
    StreamCapacity = 1
    QueueSize = 1
    MaxPendingAcks = 1
    BufferedFrames = 1
    Resends = FALSE
    DataQueueSize = 1
SPECIFICATION FairSpec
PROPERTY ClosingIsPropagated
CHECK_DEADLOCK FALSE
