CONSTANTS
    Channels = {a}
    MaxConnections = 2
    MaxRegistrations = 2
SPECIFICATION FairSpec
PROPERTIES
    EventuallyOpened
    ImplementsRendezvous
CHECK_DEADLOCK FALSE
