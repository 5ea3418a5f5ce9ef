INIT PartsInit
NEXT PartsNext
CONSTANTS
    Paths = {"a", "b"}
    FileData = {"old", "empty", "big"}
    Empty = "empty"
    Big = {"big"}
    Missing = "missing"
    NoStash = clean
    Ignored = {}
    Quoted = {}
    Rewrites = {"empty"}
    MaxOthers = 1
    MaxCheckpointRuns = 1
    ChurnRounds = 2
    Outputs = {f1, f2}
    Blank = blank
    EditSigs = {e1, e2}
    NoEdit = noEdit
    MaxChurnTurns = 3
    Indices = {0, 1}
    NoIndex = noIndex
    Deltas <- MCDeltas
    MaxEvents = 4
    Procs = {1, 2}
    Cap = 1
    MaxMade = 2
    LastTask = 2
    MaxPieces = 1
    MaxEdits = 1
    MaxQueued = 1
    Names = {"a", "b"}
    NoName = ""
    MaxRuns = 2
    ContextTokens = 44
    CuratorTokens = 0
    DefaultWorkingSet = 16
    WorkingSetTokens = 0
    SystemSize = 9
    TaskSizes = {1, 40}
    DumpSize = 5
    FileSize = 2
    Reds = {5, 30}
    MapPosition = "pinned"
    Distill = TRUE
    CharsPerToken = {6, 8}
    Submissions = 1
    MaxTurns = 4
    EditFiles <- MCEditFiles
    Writable = {"f", "g"}
    Texts <- MCTexts
    Diffs <- MCDiffs
    OldName = "x"
    NewName = "y"
    MaxHits = 2
    MaxWrites = 3
    ScopePaths <- MCScopePaths
    Manifests <- MCManifests
    Flags <- MCScopeFlags
    Unset = "unset"
    MaxNamed = 1
    MaxToolCalls = 4
    RestartBudget = 3
    FirstAttempt = 2
    MaxTime = 4
    Profiles <- MCProfiles
    FlagSets <- MCFlagSets
    Environments <- MCEnvironments
    Bundled <- MCBundled
    NotSet = NotSet
    Advertised = {0, 7}
    Local = "localhost"
    Placeholder = "local"
    MaxSwitches = 1
    McpEntries <- MCEntries
    Remote <- MCRemote
    ToolName <- MCToolName
    Width <- MCWidth
    MaxExposed = 2
    MaxLines = 2
    MaxChars = 3
    Replies <- MCReplies
    BudgetSettings <- MCBudgetSettings
    Costs = {1, 12}
    ChildCosts = {1}
    Readings = {0, 2, 9}
    FlatReserve = 1
    MemCap = 8
    MemFloor = 1
    LeastChild = 2
    HardFactor = 3
    MaxChildren = 1
    MaxJournal = 4
    UnlimitedSteps = 4
    MaxElapsed = 2
    MaxBudgetRuns = 2
    Kloos = {1, 2}
    Tokenizers = {"m1", "m2"}
    MaxBegun = 2
INVARIANTS
    PartsTypeOK
    Restored
    ChurnExact
    StreamIsWhole
    ProcessesAccounted
    RunsAreOwned
    NothingSavedIsLost
    PromptFits
    ResultsAreTrue
    ScopeHolds
    HeadlessIsHonest
    BudgetsAreMeant
    CalibrationKept
    ResumeIsHonest
    TunedForItsModel
    ServersAreServed
    RepliesAreRead
PROPERTIES
    Scoped
    PredatingKept
    DroppedStaysSilent
    MemoryKeepsFaith
    LandsOnce
CHECK_DEADLOCK FALSE
