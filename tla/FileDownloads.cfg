SPECIFICATION DSpec
CONSTANTS
    s1 = s1
    s2 = s2
    f1 = f1
    f2 = f2
    f3 = f3
    Senders <- MCSenders
    Files <- MCFiles
    MaxFiles = 2
    Readers = {r1}
    NoFile = NoFile
INVARIANTS
    TypeOK
    SavedMessageIsWhole
    ToldFilesAreStored
    OrphansHaveACause
    AnnouncedFileIsServed
    ServedFileIsOfAMessage
SYMMETRY Symmetry
CHECK_DEADLOCK FALSE
