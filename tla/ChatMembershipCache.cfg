SPECIFICATION Spec
CONSTANTS
    w1 = w1
    w2 = w2
    ann = ann
    bob = bob
    cid = cid
    c1 = c1
    Chats = {c1}
    Logins = {ann, bob, cid}
    Workers = {w1, w2}
    PrivateCap = 2
    PublicCap = 3
    MaxLate = 1
    None = None
INVARIANTS
    CacheHoldsAllMembers
SYMMETRY Interchangeable
