SPECIFICATION Spec
CONSTANTS
    n1 = n1
    n2 = n2
    NoOwner = NoOwner
    Nodes = {n1, n2}
    BatchMax = 2
    MaxProduced = 3
    MaxStops = 0
    MaxRebalances = 0
    MaxDbErrors = 1
    MaxCommitErrors = 0
CHECK_DEADLOCK FALSE
INVARIANT
    CommittedPersisted
