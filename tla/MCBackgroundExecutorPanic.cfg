CONSTANTS
    NoJob = NoJob
    Workers = {w1}
    Jobs = {plain, panicky}
    CanPanic = {panicky}
    Patient = {}
    MaxSpurious = 1
SPECIFICATION FairSpec
PROPERTY OnePanicCannotWedge
CHECK_DEADLOCK FALSE
