SPECIFICATION FairSpec
INVARIANTS TypeOK
PROPERTIES GuardIsExact ImplementsInlining Terminates
CONSTANTS
    Unnamed = Unnamed
    Html = Html
    p = p
    Pieces <- MCPieces
    a = a
    b = b
    Names <- MCNames
    Documents <- AllDocuments
    MaxDepth = 5
CHECK_DEADLOCK FALSE
