SPECIFICATION Spec
CONSTANTS
    NumLanes = 2
    QueueCap = 1
    Scenarios <- LateLane
INVARIANTS
    OneBackendConnection
CHECK_DEADLOCK FALSE
