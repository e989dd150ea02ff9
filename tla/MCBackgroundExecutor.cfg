\* The jobs differ in what they may do: one may panic, one ends by a panic or when its task
\* is dropped, one just returns.  Two panics leave a pool of two without a worker.
CONSTANTS
    NoJob = NoJob
    Workers = {w1, w2}
    Jobs = {plain, panicky, patient}
    CanPanic = {panicky, patient}
    Patient = {patient}
    MaxSpurious = 1
SPECIFICATION FairSpec
INVARIANTS
    TypeOK
    NeitherLostNorDoubled
    QueueIsServed
    ShutdownReaches
    DropDrains
    JoinTellsTheTruth
PROPERTIES
    QueuedJobsAreTaken
    DropReturns
CHECK_DEADLOCK FALSE
