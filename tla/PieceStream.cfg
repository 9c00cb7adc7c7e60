SPECIFICATION FairSpec
CONSTANTS
    Units = 5
    MaxFrame = 2
    MaxBuffer = 4
    MaxConns = 3
    Faults <- AllFaults
    AnswerParts = 2
INVARIANTS
    Genuine
    StopAndWait
PROPERTIES
    Ends
    Completes
CHECK_DEADLOCK FALSE
