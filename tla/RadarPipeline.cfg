SPECIFICATION FairSpec
CONSTANTS
    FrameIds = {0, 1, 2}
    MaxScans = 4
    MapPackets = 2
    InitMayFail = TRUE
    SendMayFail = TRUE
INVARIANTS
    TypeOK
    TargetsOnlyAdvance
    ProductsAreGenuine
    MapsLeaveIntact
    OnlyStaleDropped
PROPERTIES
    NewestIsReported
\* Frames are bounded: when the last one has been sent, nothing is left to do.
CHECK_DEADLOCK FALSE
