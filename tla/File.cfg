SPECIFICATION FileSpec
CONSTANTS
    Page = 3
    MaxPieces = 5
    Threshold = 15
    Sizes <- MCSizes
    Requests <- MCRequests
    CountMod = 1024
    Content <- MCContent
    Files <- MCFiles
    CrcLen = 84
    Portions <- MCPortions
    Prefetch = 8
    Records <- MCRecords
INVARIANTS
    Mappable
    Tiled
    CrcExact
    DigestExact
    RecordRead
CHECK_DEADLOCK FALSE
