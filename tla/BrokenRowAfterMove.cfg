SPECIFICATION Spec
CONSTANTS
    A = A
    B = B
    Garbled = Garbled
    File = {f1}
    Sys = {s1, s2}
    Name <- MCName1
    SafeName <- MCSafeName1
    Sanitize <- MCSanitize1
    Body = {b1}
    Proc = {p1}
    Worker = {}
    Handlers = {"upload", "patch"}
    KeepLastN = 0
    MaxVersion = 2
INVARIANTS
    NoBrokenRow
SYMMETRY ProcSymmetry
CHECK_DEADLOCK FALSE
