SPECIFICATION Spec
CONSTANTS
    Clients = {c1}
    NumWorkers = 7
    MaxConns = 2
    MaxRequests = 1
INVARIANTS
    FramesHaveAHandler
PROPERTIES
    ConnectionIsServed
    DeadConnectionFreesWorkers
CHECK_DEADLOCK FALSE
