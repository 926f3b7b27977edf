SPECIFICATION Spec
CONSTANTS
    NumLanes = 2
    QueueCap = 1
    Scenarios <- Transfers
INVARIANTS
    TypeOK
    
    CleanEndIsComplete
    NothingAfterTornFrame
    NoChunkVanishes

    
    
CHECK_DEADLOCK FALSE
