CONSTANTS
    MaxTuple = 2
    StreamCapacity = 1
    QueueSize = 2
    MaxPendingAcks = 2
    BufferedFrames = 1
    Resends = TRUE
    DataQueueSize = 1
SPECIFICATION FairSpec
INVARIANT DeliveredInOrder
PROPERTY FlushReturns
CHECK_DEADLOCK FALSE
