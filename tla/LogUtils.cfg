SPECIFICATION FairSpec
CONSTANTS
    l1 = l1
    l2 = l2
    Loggers <- MCLoggers
    MaxRecords = 1
    MaxInstances = 5
INVARIANTS
    InOrder
    NothingCutOff
PROPERTIES
    ReachesFile
    InitReturns
CHECK_DEADLOCK FALSE
