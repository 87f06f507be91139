SPECIFICATION Spec
CONSTANTS
    PacketCount = 3
    MaxFrames = 2
    MaxScans = 4
    MaxDups = 0
    MaxRestarts = 1
    ReceiverMayFail = FALSE
INVARIANTS
    OneScanPerFrame
\* Scans are bounded: when the last one has been handled, nothing is left to do.
CHECK_DEADLOCK FALSE
