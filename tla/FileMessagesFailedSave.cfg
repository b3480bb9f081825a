SPECIFICATION Spec
CONSTANTS
    s1 = s1
    s2 = s2
    f1 = f1
    f2 = f2
    f3 = f3
    Senders <- MCSenders
    Files <- MCFiles
    MaxFiles = 2
INVARIANTS
    FailedSaveIsNotCommitted
SYMMETRY Symmetry
CHECK_DEADLOCK FALSE
