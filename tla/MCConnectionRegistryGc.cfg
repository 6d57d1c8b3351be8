SPECIFICATION Spec
CONSTANTS
    alice = alice
    bob = bob
    c1 = c1
    c2 = c2
    c3 = c3
    listener = listener
    heartbeat = heartbeat
    NoUser = NoUser
    Users = {alice, bob}
    Conns = {c1, c2, c3}
    Senders = {listener}
    UserOf <- MCUserOf
    Capacity = 1
    MaxSends = 1
CHECK_DEADLOCK FALSE
PROPERTY
    GcSafe
