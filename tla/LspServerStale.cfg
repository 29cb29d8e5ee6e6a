SPECIFICATION Spec
INVARIANTS StaleIsCleared
CONSTANTS
    Missing = Missing
    NotOpen = NotOpen
    None = None
    main = main
    part = part
    leaf = leaf
    Docs <- MCDocs
    Texts <- MCTexts
    Configs <- MainConfig
    MaxMessages = 4
    MaxDiskWrites = 0
CHECK_DEADLOCK FALSE
