CONSTANTS
    Callers = {c1, c2}
    MaxSeq = 1
    Window = 2
    ReplyQueueSize = 1
    ExplicitSeqs = {1}
    MaxExplicit = 2
    MaxSendErrors = 1
    Readers = {r1, r2}
    BufferSize = 1
    Oversized = {c2}
    RequestedSeqs = {}
    MaxAckErrors = 1
SPECIFICATION Spec
SYMMETRY ReaderSymmetry
INVARIANTS
    TypeOK
    WindowConserved
    BufferConserved
CHECK_DEADLOCK FALSE
