SPECIFICATION FairSpec
CONSTANTS
    served = served
    plain = plain
    Some = Some
    Paths <- MCPaths
    Handled <- MCHandled
    MaxAsked = 2
    MaxVersion = 6
    MaxKeys = 2
    None = None
INVARIANTS
    LanguageTypeOK
    ServerIsUpToDate
    OnePopup
    EachItsOwnAnswer
PROPERTIES
    VersionsIncrease
    EveryRequestEnds
CHECK_DEADLOCK FALSE
