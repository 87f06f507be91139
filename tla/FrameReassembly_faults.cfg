SPECIFICATION Spec
CONSTANTS
    PacketCount = 3
    MaxFrames = 2
    MaxScans = 2
    MaxDups = 1
    MaxRestarts = 1
    ReceiverMayFail = FALSE
INVARIANTS
    BuffersStayOpen
    PayloadsInOrder
    DamageIsBounded
\* Scans are bounded: when the last one has been handled, nothing is left to do.
CHECK_DEADLOCK FALSE
