SPECIFICATION FairSpec
CONSTANTS
    n1 = n1
    n2 = n2
    t1 = t1
    t2 = t2
    alice = alice
    bob = bob
    a1 = a1
    b1 = b1
    b2 = b2
    x2 = x2
    general = general
    room = room
    Nodes = {n1, n2}
    Tenants = {t1, t2}
    Names = {alice, bob}
    Groups = {general, room}
    General = general
    Conns = {b1, b2, x2}
    TenantOf <- MCTenantOf
    NameOf <- MCNameOf
    NodeOf <- MCNodeOf
    Speakers = {b2}
    MaxCommands = 2
    MaxFaults = 1
INVARIANT
    NoMoreCopies
    TenantsApart
    InOrder
    SameOrder
    ReachesDevices
    StoredUnlessCut
PROPERTY
    Delivered
CHECK_DEADLOCK FALSE
