SPECIFICATION FairSpec
CONSTANTS
    f1 = f1
    f2 = f2
    f3 = f3
    d = d
    e = e
    s1 = s1
    s2 = s2
    o1 = o1
    o2 = o2
    NULL = NULL
    File <- MCFile
    Large = {f2}
    Folder <- MCFolder
    Children <- MCChildren
    Unreadable = {f3}
    BatchSize = 1
    System = {s1, s2}
    FirstSystem = s1
    OrgsOf <- MCOrgsOf
    CtxSystem = s1
    CtxOrg = o1
    MaxStarts = 3
CONSTRAINT StillWatched
INVARIANTS
    TypeOK
    DoneIsPublishedOnce
    DropIsWhole
    OrgOfSystem
PROPERTIES
    RowsSettle
CHECK_DEADLOCK FALSE
