SPECIFICATION FairSpec
CONSTANTS
    f1 = f1
    f2 = f2
    f3 = f3
    S = S
    T = T
    A = A
    B = B
    NULL = NULL
    Modified <- MCModified
    Named <- MCNamed
    StatusOf <- MCStatusOf
    SystemOf <- MCSystemOf
    Hits <- MCHits
    Systems <- MCSystems
    Folder <- MCFolder
    InitFolders <- MCInitFolders
    InitFiles <- MCInitFiles
    OwnerOf <- MCOwnerOf
    Recent <- MCRecent
    Months <- MCMonths
    DayOf <- MCDayOf
    LaneSize = 1
    CellSize = 1
    PageSize = 1
    ListLimit = 2
    SearchLimit = 1
    BoardLimit = 1
    TrashLimit = 2
    MaxNavs = 1
    MaxOps = 2
    MaxFaults = 1
INVARIANTS
    TypeOK
    SelectionIsOnScreen
    EveryRowOnce
PROPERTIES
    CapIsFlagged
    OperationsSettle
CHECK_DEADLOCK FALSE
