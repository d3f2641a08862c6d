CONSTANTS
    n1 = n1
    n2 = n2
    generator = generator
    print = print
    wire = wire
    None = None
    Nodes = {n1, n2}
    Queries = {generator, print}
    Channels = {wire}
    NodeOf <- MCNodeOf
    Input <- MCInput
    Output <- MCOutput
    MaxBuffers = 3
    ControlQueueSize = 1
    DataQueueSize = 1
    TaskQueueSize = 1
    TrackerLimit = 3
SPECIFICATION Spec
INVARIANT NumbersAreNew
CHECK_DEADLOCK FALSE
