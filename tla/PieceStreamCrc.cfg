SPECIFICATION Spec
CONSTANTS
    Units = 5
    MaxFrame = 2
    MaxBuffer = 4
    MaxConns = 1
    Faults <- AllFaults
    AnswerParts = 1
INVARIANTS
    CrcCloses
CHECK_DEADLOCK FALSE
