SPECIFICATION Spec
CONSTANTS
    A = A
    B = B
    Garbled = Garbled
    File = {f1}
    Sys = {s1}
    Name <- MCName1
    SafeName <- MCSafeName1
    Sanitize <- MCSanitize1
    Body = {b1}
    Proc = {p1, p2}
    Worker = {w1}
    Handlers = {"upload", "version", "wopi", "patch", "trash", "purge", "archive", "expire"}
    KeepLastN = 0
    MaxVersion = 3
INVARIANTS
    TypeOK
    RowHasBytes
    HistoryContiguous
PROPERTIES
    ImplementsLifecycle
SYMMETRY ProcSymmetry
CHECK_DEADLOCK FALSE
