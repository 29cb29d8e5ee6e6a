SPECIFICATION FairSpec
INVARIANTS FramesBelow ExpansionDescends MatchedExactly LexicalUnlessForwarded
PROPERTIES ArgumentsFound TraversalEnds
CONSTANTS
    Positional = Positional
    Ellipsis = Ellipsis
    None = None
    n = n
    m = m
    ArgNames <- MCArgNames
    ArgLists <- MCArgLists
    ParameterLists <- MCParameterLists
    Needles <- MCNeedles
    MaxCalls = 3
CHECK_DEADLOCK FALSE
