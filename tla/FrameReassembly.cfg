SPECIFICATION FairSpec
CONSTANTS
    PacketCount = 3
    MaxFrames = 2
    MaxScans = 2
    MaxDups = 0
    MaxRestarts = 0
    ReceiverMayFail = TRUE
INVARIANTS
    TypeOK
    CompleteFrames
    BufferedFramesWait
PROPERTIES
    ImplementsFrameSource
    WholeScansArrive
\* Scans are bounded: when the last one has been handled, nothing is left to do.
CHECK_DEADLOCK FALSE
