SPECIFICATION Spec
CONSTANTS
    MaxId = 3
    Old = {1, 2, 3}
    MaxTime = 2
    FilesOf <- MCFilesOf
    Limit = 1
    MaxFaults = 1
    MaxLate = 1
INVARIANTS
    WholeHistoryIsLoaded
CHECK_DEADLOCK FALSE
