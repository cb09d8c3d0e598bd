SPECIFICATION FairSpec
CONSTANTS
    A = A
    B = B
    Garbled = Garbled
    File = {f1}
    Sys = {s1}
    Name <- MCName1
    SafeName <- MCSafeName1
    Sanitize <- MCSanitize1
    Body = {b1}
    Proc = {p1, p2}
    Worker = {w1}
    Handlers = {"upload", "version", "trash", "archive", "expire"}
    KeepLastN = 2
    MaxVersion = 4
INVARIANTS
    KeptHistoryHasBytes
PROPERTIES
    PruneKeepsNewest
    ExpiredIsPurged
CHECK_DEADLOCK FALSE
