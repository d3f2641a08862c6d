CONSTANTS
    Senders = {p1, p2}
    MaxSeq = 3
    MaxAttempts = 3
    RequestQueueSize = 1
    SendsMayFail = TRUE
    Oversized = {}
    RepliesMayFail = TRUE
SPECIFICATION Spec
INVARIANTS
    TypeOK
    GapsAreRequested
    RequestBudget
PROPERTY GiveUpIsFinal
CHECK_DEADLOCK FALSE
