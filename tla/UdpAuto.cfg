CONSTANTS
    Callers = {c1, c2}
    MaxSeq = 2
    Window = 2
    ReplyQueueSize = 1
    ExplicitSeqs = {}
    MaxExplicit = 0
    MaxSendErrors = 0
    Readers = {r1}
    BufferSize = 1
    Oversized = {}
    RequestedSeqs = {2}
    MaxAckErrors = 0
SPECIFICATION Spec
SYMMETRY CallerSymmetry
INVARIANTS
    ReleasedWasReceived
    OneMessagePerSeq
PROPERTY ImplementsAtLeastOnce
CHECK_DEADLOCK FALSE
