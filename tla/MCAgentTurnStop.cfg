SPECIFICATION FairSpec
CONSTANTS
    Buffers = {scratch, main}
    Texts = {old, new}
    Programs = {cargo}
    MaxShell = 1
    MaxSteps = 2
    MaxCalls = 1
PROPERTY StopEndsTheTurn
CHECK_DEADLOCK FALSE
