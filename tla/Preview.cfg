SPECIFICATION Spec
CONSTANTS
    File = {f1, f2}
    Proc = {p1, p2, p3}
    MaxVersion = 3
SYMMETRY ProcSymmetry
INVARIANTS
    TypeOK
    CacheIsRecent
    NoneAfterPurge
CHECK_DEADLOCK FALSE
