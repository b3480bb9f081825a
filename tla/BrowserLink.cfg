SPECIFICATION FairSpec
CONSTANTS
    MaxLinks = 2
    MaxFaults = 2
INVARIANTS
    TypeOK
    ConnectionsBounded
PROPERTIES
    LinkComesBack
    GoneUserIsReleased
CHECK_DEADLOCK FALSE
