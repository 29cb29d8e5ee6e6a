SPECIFICATION Comparing
INVARIANT ComparisonsSucceed
CHECK_DEADLOCK FALSE
CONSTANTS
    FloatMax = 8
    Frames <- MCFrames
    Statements <- MCStatements
    Operands <- MCOperands
    MaxStatements = 1
