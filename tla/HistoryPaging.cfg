SPECIFICATION FairSpec
CONSTANTS
    MaxId = 3
    Old = {1, 2}
    MaxTime = 2
    FilesOf <- MCFilesOf
    Limit = 1
    MaxFaults = 1
    MaxLate = 1
INVARIANTS
    TypeOK
    HistoryHasNoHoles
    ItemsAreWhole
PROPERTIES
    PagingEnds
CHECK_DEADLOCK FALSE
