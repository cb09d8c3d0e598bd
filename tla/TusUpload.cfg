SPECIFICATION FairSpec
CONSTANTS
    Session = {s1}
    File = {f1, f2}
    Proc = {p1, p2}
    Worker = {w1}
    MaxLength = 2
    MaxTemp = 2
INVARIANTS
    TypeOK
    OffsetIsBacked
    UndisturbedIsExact
PROPERTIES
    ImplementsUpload
    ExpiredIsReaped
CHECK_DEADLOCK FALSE
