SPECIFICATION FairSpec
CONSTANTS
    p1 = p1
    p2 = p2
    Pieces <- MCPieces
    PieceLen <- MCShort
    MaxChunk = 1
    QuietLimit = 1
    GiveUpLimit = 1
    SlowSteps = {}
PROPERTIES
    Cleared
