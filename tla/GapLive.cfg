CONSTANTS
    Senders = {p1}
    MaxSeq = 4
    MaxAttempts = 3
    RequestQueueSize = 1
    SendsMayFail = TRUE
    Oversized = {3}
    RepliesMayFail = FALSE
SPECIFICATION FairSpec
PROPERTY GapsAreResolved
CHECK_DEADLOCK FALSE
