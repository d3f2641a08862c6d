CONSTANTS
    Channels = {a, b}
    MaxConnections = 2
    MaxRegistrations = 2
SPECIFICATION Spec
INVARIANTS
    TypeOK
    OkIsHonoured
    DroppedForReason
    HandlersAreWatched
CHECK_DEADLOCK FALSE
SYMMETRY ChannelSymmetry
