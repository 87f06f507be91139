SPECIFICATION Spec
CONSTANTS
    PacketCount = 3
    MaxFrames = 2
    MaxScans = 2
    MaxDups = 1
    MaxRestarts = 0
    ReceiverMayFail = FALSE
INVARIANTS
    CompleteFrames
\* Scans are bounded: when the last one has been handled, nothing is left to do.
CHECK_DEADLOCK FALSE
