SPECIFICATION FairSpec
CONSTANTS
    Streams <- MCStreams
    HandshakeSlots = 1
    MaxLeftover = 1
    Plans <- MCPlans
INVARIANTS
    ClientTypeOK
    NothingHeldBetweenSessions
PROPERTIES
    RunReturns
    
    SessionReached
    EndedConnectionReleased
