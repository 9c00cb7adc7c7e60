SPECIFICATION FairSpec
CONSTANTS
    t1 = t1
    t2 = t2
    t3 = t3
    Tasks <- MCTasks
    CountBegin = 1
    CountMax = 2
    Threshold = 2
INVARIANTS
    InOnePlace
    SomebodyAwake
PROPERTIES
    KeepsPromise
    FixedWhileJoined
    EachIsRun
    QuitReturns
CHECK_DEADLOCK FALSE
