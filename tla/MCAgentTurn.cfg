SPECIFICATION FairSpec
CONSTANTS
    Buffers = {scratch, main}
    Texts = {old, new}
    Programs = {cargo}
    MaxShell = 1
    MaxSteps = 2
    MaxCalls = 2
INVARIANTS
    TypeOK
    HostAndWorkerAgree
    StopIsFinal
PROPERTIES
    GateHolds
    TurnEnds
CHECK_DEADLOCK FALSE
