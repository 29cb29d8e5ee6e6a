SPECIFICATION FairSpec
INVARIANTS WatchesThePage NothingForgotten
PROPERTIES ComesToRest
CONSTANTS
    Missing = Missing
    None = None
    main = main
    part = part
    leaf = leaf
    Files <- MCFiles
    Main = main
    Texts <- MCTexts
    MaxEdits = 4
CHECK_DEADLOCK FALSE
