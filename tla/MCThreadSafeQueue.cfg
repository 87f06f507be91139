SPECIFICATION FairSpec
CONSTANTS
    p1 = p1
    p2 = p2
    c1 = c1
    c2 = c2
    k1 = k1
    Producers <- MCProducers
    Consumers <- MCConsumers
    Closers <- MCClosers
    MaxPushes = 2
    NoThread = NoThread
INVARIANTS
    TypeOK
    MutualExclusion
    NoLostWakeup
PROPERTIES
    ImplementsFifo
    ItemsReachConsumers
    CloseReleasesConsumers
\* Pushes are bounded and nobody has to close: consumers may end up asleep.
CHECK_DEADLOCK FALSE
