CONSTANTS
    RangeBins = 6
    DopplerBins = 4
    T_Range = 1
    T_Doppler = 1
    G_Range = 1
    G_Doppler = 0
    AlphaPercent = 1414
    SizeT = 256
    Threads = 2
    Strong = 30
    Scenes <- MCScenes
    MaxScans = 2
    MaxClusters = 2
SPECIFICATION Spec
CHECK_DEADLOCK FALSE
INVARIANTS
    TypeOK
    ParallelLoopIsSafe
    DetectionsAsDefined
    TargetsShowTheScan
