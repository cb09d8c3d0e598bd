SPECIFICATION Spec
CONSTANTS
    org = org
    inOrg = inOrg
    File = {f1, f2}
    Unit = {inOrg, noOrg}
    Orgless = {noOrg}
    User = {x1, x2}
    Shared = {org}
    Above <- MCAbove
    Proc = {p1, p2}
    MaxSize = 2
    Caps = {0, 1}
SYMMETRY IdSymmetry
CONSTRAINT StillWatched
INVARIANTS
    TypeOK
    SoloFits
    OvershootIsInFlight
CHECK_DEADLOCK FALSE
