SPECIFICATION FairSpec
CONSTANTS
    a = a
    b = b
    x = x
    y = y
    Images <- McImages
    Tags <- McTags
    Spellings <- McSpellings
    Requests <- McRequests
    Foreign <- McForeign
    StartRows <- McStartRows
    MaxImages = 2
    MaxOps = 2
    MaxRuns = 3
    MaxWrites = 1
    MaxStops = 1
INVARIANTS
    AvailableUndoIsWhole
    LastWriterCanBeUndone
PROPERTIES
    EditsSurviveUndo
    RunEnds
CHECK_DEADLOCK FALSE
