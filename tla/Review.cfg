SPECIFICATION Spec
CONSTANTS
    Flow = {w1}
    File = {f1}
    Proc = {p1, p2, p3}
    MaxSteps = 3
SYMMETRY ProcSymmetry
INVARIANTS
    TypeOK
    RollUpConverges
    StatusMirrors
PROPERTIES
    ImplementsReview
CHECK_DEADLOCK FALSE
