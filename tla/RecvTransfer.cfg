SPECIFICATION Spec
CONSTANTS
    p1 = p1
    p2 = p2
    Pieces <- MCPieces
    PieceLen <- MCLen
    MaxChunk = 2
    QuietLimit = 1
    GiveUpLimit = 1
    SlowSteps = {"drain", "verify"}
INVARIANTS
    ResumeSafe
    VerifyComplete
    CheckOnce
    CheckNotSwept
    OnlyFaultsAbandon
PROPERTIES
    KeepsPromise
    OnlyFaultsBlock
