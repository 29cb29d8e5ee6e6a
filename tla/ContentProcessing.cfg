SPECIFICATION MCSpec
INVARIANTS
    ResultIsConcatenation
    TagsNestElsewhere
    TextComesThrough
    ParagraphsAtBlankLines
PROPERTY AbandonedAfterBreak
CONSTANTS
    Documents <- Nested
    None = None
