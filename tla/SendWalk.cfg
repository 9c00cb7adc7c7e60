SPECIFICATION Spec
CONSTANTS
    s1 = s1
    s2 = s2
    r1 = r1
    Nobody = Nobody
    Names <- MCNames
    Trim <- MCTrim
    Hidden <- MCHidden
    Screens <- MCWalker
    Receipts <- MCNoReceipts
    Root <- MCWalkerRoot
    Children <- MCTree
    Files <- MCTreeFiles
    Pieces <- MCPieces
    Grants <- MCWalkerGrants
INVARIANTS
    EachTriedOnce
    TollIsSent
PROPERTIES
    OnlyNetworkBlocks
CHECK_DEADLOCK FALSE
