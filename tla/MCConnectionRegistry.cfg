SPECIFICATION Spec
CONSTANTS
    alice = alice
    bob = bob
    c1 = c1
    c2 = c2
    c3 = c3
    listener = listener
    heartbeat = heartbeat
    NoUser = NoUser
    Users = {alice, bob}
    Conns = {c1, c2}
    Senders = {listener, heartbeat}
    UserOf <- MCUserOf
    Capacity = 1
    MaxSends = 2
CHECK_DEADLOCK FALSE
INVARIANT
    GoneIsUnregistered
    NoEmptyUser
PROPERTY
    UserGcSafe
    NoGap
    OpsAdvance
