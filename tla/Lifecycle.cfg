CONSTANT
    MaxDatagrams = 2
SPECIFICATION FairSpec
INVARIANTS
    TypeOK
    EndsOnlyWhenTold
    SenderJoins
PROPERTY
    StopReturns
CHECK_DEADLOCK FALSE
