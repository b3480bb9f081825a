SPECIFICATION FairSpec
CONSTANTS
    r1 = r1
    k1 = k1
    k2 = k2
    k3 = k3
    ann = ann
    bob = bob
    Conns = {k1, k2}
    Requests = {r1}
    Logins = {ann}
    LoginOf <- MCLoginOf
    SendCap = 1
    MaxEvents = 2
    NoClient = NoClient
INVARIANTS
    TypeOK
    RegistryConsistent
    RegisteredIsServed
    GoroutinesNeverOlder
PROPERTIES
    EvictedByOwnOrEarlierSession
    DeadPeerIsDropped
    TornDownSessionEnds
CHECK_DEADLOCK FALSE
