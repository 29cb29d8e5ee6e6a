SPECIFICATION FairSpec
INVARIANTS SyncedWithEditor OneSnapshot
PROPERTIES PublishedIsCurrent MessageHandled
CONSTANTS
    Missing = Missing
    NotOpen = NotOpen
    None = None
    main = main
    part = part
    leaf = leaf
    Docs <- MCDocs
    Texts <- MCTexts
    Configs <- AnyConfig
    MaxMessages = 3
    MaxDiskWrites = 1
CHECK_DEADLOCK FALSE
