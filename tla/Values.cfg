SPECIFICATION MCSpec
INVARIANTS
    ExactAndCanonical
    ReferencesAreSound
    ValuesAreValues
    ErrorsAreReported
    StaticTypesHold
    FastPathsAgree
    OperatorsAgree
    TypesAreOrdered
SYMMETRY MCSymmetry
CONSTANTS
    reg1 = reg1
    reg2 = reg2
    slot1 = slot1
    slot2 = slot2
    slot3 = slot3
    Slots <- MCSlots
    Addresses <- MCAddresses
    Contents <- MCContents
    Indices <- MCIndices
    Width = 1
    MaxOwners = 3
    Registers <- MCRegisters
    Nodes <- MCNodes
    MaxId = 5
    Limit = 8
    Word = 4
    HalfBits = 2
    IntMax = 7
    Literals <- MCLiterals
    Cap = 16
    Shifts <- MCShifts
    Exponents <- MCExponents
    Bases <- MCBases
CHECK_DEADLOCK FALSE
