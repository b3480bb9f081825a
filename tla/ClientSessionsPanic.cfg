SPECIFICATION Spec
CONSTANTS
    r1 = r1
    k1 = k1
    k2 = k2
    k3 = k3
    ann = ann
    bob = bob
    Conns = {k1, k2, k3}
    Requests = {}
    Logins = {ann, bob}
    LoginOf <- MCLoginOf
    SendCap = 1
    MaxEvents = 1
    NoClient = NoClient
INVARIANTS
    OfflineMemberIsSkipped
CHECK_DEADLOCK FALSE
