SPECIFICATION FairSpec
CONSTANTS
    x = x
    y = y
    NULL = NULL
    Id <- MCId
    Known <- MCKnown
    Visited = x
    Setups <- MCSetups
    MaxMishaps = 1
    MaxTexts = 2
INVARIANTS
    VisitTypeOK
    TextsStoredOnce
    ScreenSettles
    ShareGoesTogether
    KnowsTheUser
PROPERTIES
    LandsBack
    PageSettles
CHECK_DEADLOCK FALSE
