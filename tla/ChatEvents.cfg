SPECIFICATION FairSpec
CONSTANTS
    r1 = r1
    a1 = a1
    a2 = a2
    b1 = b1
    ann = ann
    bob = bob
    cat = cat
    Conns = {a1, a2, b1}
    Links <- MCLinks
    Requests = {r1}
    Logins = {ann, bob, cat}
    LoginOf <- MCLoginOf
    SendCap = 1
    OldMembers <- MCOldMembers
    Asks <- MCAsks
    MaxChats = 2
    MaxMsgs = 2
    MaxEvents = 2
    MaxFaults = 1
    NoClient = NoClient
INVARIANTS
    TypeOK
    NoPhantomChats
    MissingChatIsExplained
    SenderOrderKept
    ListedAndOnlineIsServed
PROPERTIES
    KeepsBestEffort
    FanOutEnds
CHECK_DEADLOCK FALSE
