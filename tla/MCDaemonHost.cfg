SPECIFICATION FairSpec
CONSTANTS
    c1 = c1
    c2 = c2
    k1 = k1
    Clients <- MCClients
    Controls <- MCControls
    Terminal <- MCTerminal
    Sizes <- MCSizes
    MaxSpent = 2
    Capacity = 1
INVARIANTS
    DaemonTypeOK
    MirrorIsExact
    FitsEveryClient
    UnwatchedIsSaved
PROPERTIES
    DiskNeverGoesBack
    EveryoneIsServed
CHECK_DEADLOCK FALSE
