SPECIFICATION FairSpec
CONSTANTS
    f1 = f1
    Files <- MCFiles
    Kinds <- AllKinds
    MaxServers = 2
    MaxBacklog = 1
    Rotations = 1
INVARIANTS
    Reachable
    OneController
PROPERTIES
    QuitHeard
CHECK_DEADLOCK FALSE
