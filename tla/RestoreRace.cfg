SPECIFICATION Spec
CONSTANTS
    A = A
    B = B
    Garbled = Garbled
    File = {f1}
    Sys = {s1}
    Name <- MCName
    SafeName <- MCSafeName
    Sanitize <- MCSanitize
    Body = {b1}
    Proc = {p1}
    Worker = {w1}
    Handlers = {"upload", "trash", "expire"}
    KeepLastN = 0
    MaxVersion = 1
PROPERTIES
    RestoreWins
SYMMETRY ProcSymmetry
CHECK_DEADLOCK FALSE
