SPECIFICATION FairSpec
CONSTANTS
    NumLanes = 2
    QueueCap = 1
    Scenarios <- Endings
PROPERTIES
    CancelledBondIsReleased
    DownloadCompletes
CHECK_DEADLOCK FALSE
