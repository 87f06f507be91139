CONSTANTS
    Rows = 3
    Columns = 4
    EpsSquared = 2
    MinSamples = {3, 4}
    FrameSequences <- MCFrameSequences
SPECIFICATION FairSpec
INVARIANTS
    TypeOK
    ListedOnce
    ClustersAreConnected
    ClustersAreMaximal
    ClustersInOrder
    ClustersHaveMinSamples
PROPERTY
    ScanReturns
CHECK_DEADLOCK FALSE
