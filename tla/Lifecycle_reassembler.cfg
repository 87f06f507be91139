CONSTANT
    MaxDatagrams = 2
SPECIFICATION FairSpec
PROPERTY
    ReassemblerStops
CHECK_DEADLOCK FALSE
