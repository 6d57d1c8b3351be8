SPECIFICATION Spec
CONSTANTS
    n1 = n1
    n2 = n2
    alice = alice
    bob = bob
    c1 = c1
    c2 = c2
    c3 = c3
    general = general
    room = room
    copy = copy
    id1 = id1
    id2 = id2
    NoConv = NoConv
    Nodes = {n1, n2}
    Users = {alice, bob}
    Conns = {c1, c3}
    UserOf <- MCUserOf
    NodeOf <- MCNodeOf
    Groups = {general, room, copy}
    General = general
    Convs = {id1, id2}
    Parse <- MCParse
    Ids = {id1, id2}
    MaxCommands = 3
    MaxFaults = 1
SYMMETRY
    Swaps
INVARIANT
    JoinReaches
    RowBacked
PROPERTY
    NoStrangers
