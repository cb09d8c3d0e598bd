SPECIFICATION Spec
CONSTANTS
    A = A
    B = B
    Garbled = Garbled
    File = {f1}
    Sys = {s1}
    Name <- MCName
    SafeName <- MCSafeName
    Sanitize <- MCSanitize
    Body = {b1, b2}
    Proc = {p1, p2}
    Worker = {}
    Handlers = {"upload", "version", "patch", "rekey"}
    KeepLastN = 0
    MaxVersion = 2
INVARIANTS
    BytesMatchRow
SYMMETRY ProcSymmetry
CHECK_DEADLOCK FALSE
