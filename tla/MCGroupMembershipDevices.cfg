SPECIFICATION FairSpec
CONSTANTS
    n1 = n1
    n2 = n2
    alice = alice
    bob = bob
    c1 = c1
    c2 = c2
    c3 = c3
    general = general
    room = room
    copy = copy
    id1 = id1
    id2 = id2
    NoConv = NoConv
    Nodes = {n1, n2}
    Users = {alice}
    Conns = {c1, c2}
    UserOf <- MCUserOf
    NodeOf <- MCNodeOf
    Groups = {general}
    General = general
    Convs = {id1}
    Parse <- MCParse
    Ids = {id1}
    MaxCommands = 3
    MaxFaults = 2
INVARIANT
    LeaveHolds
PROPERTY
    JoinPropagates
