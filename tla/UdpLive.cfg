CONSTANTS
    Callers = {c1}
    MaxSeq = 2
    Window = 1
    ReplyQueueSize = 1
    ExplicitSeqs = {}
    MaxExplicit = 0
    MaxSendErrors = 1
    Readers = {r1}
    BufferSize = 1
    Oversized = {}
    RequestedSeqs = {}
    MaxAckErrors = 0
SPECIFICATION FairSpec
PROPERTY
    ImplementsFairAtLeastOnce
CHECK_DEADLOCK FALSE
