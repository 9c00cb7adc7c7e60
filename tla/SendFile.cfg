SPECIFICATION Spec
CONSTANTS
    s1 = s1
    s2 = s2
    r1 = r1
    Nobody = Nobody
    Names <- MCNames
    Trim <- MCTrim
    Hidden <- MCHidden
    Screens <- MCScreens
    Receipts <- MCReceipts
    Root <- MCRoot
    Children <- MCChildren
    Files <- MCFiles
    Pieces <- MCPieces
    Grants <- MCGrants
INVARIANTS
    OnlyOverlapAborts
    WholeIsShown
CHECK_DEADLOCK FALSE
