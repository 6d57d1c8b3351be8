SPECIFICATION FairSpec
CONSTANTS
    n1 = n1
    n2 = n2
    NoOwner = NoOwner
    Nodes = {n1, n2}
    BatchMax = 2
    MaxProduced = 3
    MaxStops = 2
    MaxRebalances = 1
    MaxDbErrors = 1
    MaxCommitErrors = 1
CHECK_DEADLOCK FALSE
INVARIANT
    TriedBeforeCommitted
    FaultlessCommitsPersisted
PROPERTY
    EventuallyPersisted
    LogSpec
