SPECIFICATION Spec
CONSTANTS
    f1 = f1
    f2 = f2
    d1 = d1
    d2 = d2
    Files = {f1, f2}
    Deleters = {d1, d2}
    MaxRetries = 2
INVARIANTS
    TypeOK
    NoObjectOutlivesItsRow
    AnsweredDeleteIsFinal
PROPERTIES
    KeepsPromise
SYMMETRY Interchangeable
CHECK_DEADLOCK FALSE
