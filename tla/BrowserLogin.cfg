SPECIFICATION FairSpec
CONSTANTS
    Tabs = {t1, t2}
    Logins = {ann, bob}
    Registered = {ann}
    NoLogin = NoLogin
    NoToken = NoToken
    NoCall = NoCall
    MaxSessions = 2
    MaxCalls = 2
    MaxFaults = 1
INVARIANTS
    TypeOK
    OneName
PROPERTY
    LogoutIsFinal
CHECK_DEADLOCK FALSE
