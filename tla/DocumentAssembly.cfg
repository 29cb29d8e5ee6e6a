SPECIFICATION MCSpec
INVARIANTS ScopesUnwound MainArrives AssembledWhole NumbersTellThePlace
PROPERTIES SectionsOnlyGrow
CONSTANTS
    Unnamed = Unnamed
    Html = Html
    StdHead = StdHead
    StdBody = StdBody
    StdToc = StdToc
    sec = sec
    preview = preview
    Tags = Tags
    Meta = Meta
    MainOpen = MainOpen
    MainClose = MainClose
    Names <- MCNames
    Previews <- MCPreviews
    Stashes <- MCStashes
    References <- MCReferences
    MaxElements = 4
    Capacity = 2
    MaxDepth = 6
    Levels = {1, 2, 3, 4}
    MaxHeadings = 4
CHECK_DEADLOCK FALSE
