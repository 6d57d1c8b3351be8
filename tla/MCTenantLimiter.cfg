SPECIFICATION FairSpec
CONSTANTS
    n1 = n1
    n2 = n2
    acme = acme
    beta = beta
    alice = alice
    bob = bob
    carol = carol
    c1 = c1
    c2 = c2
    c3 = c3
    c4 = c4
    c5 = c5
    Nodes = {n1, n2}
    Tenants = {acme, beta}
    Users = {alice, bob, carol}
    Conns = {c1, c2, c3, c5}
    IdentityOf <- MCIdentityOf
    NodeOf <- MCNodeOf
    MaxUsers = 1
    MaxFailOpen = 2
    MaxLeaks = 1
INVARIANT
    TypeOK
    OnlineIffCounted
    CapInRedis
    CapOnConnectedUsers
    HoldersCounted
    NoStaleUser
PROPERTY
    MultiDevice
    CapSpec
    UserGoesOffline
