SPECIFICATION MCSpec
CONSTANTS
    old = old
    empty = empty
    missing = missing
    clean = clean
    a = a
    Paths <- OnePath
    FileData <- AllContents
    Big <- None
    Rewrites <- ToEmpty
    Empty = empty
    Missing = missing
    NoStash = clean
    Ignored <- None
    Quoted <- None
    MaxOthers = 0
    MaxCheckpointRuns = 1
PROPERTY TrackedNeverDeleted
CHECK_DEADLOCK FALSE
