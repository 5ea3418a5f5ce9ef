SPECIFICATION Spec
CONSTANTS
    Moves <- ShellMoves
    Paths <- OnlyA
    SpecPaths <- NoPaths
    Reds <- OneRed
    HasVerifier = TRUE
    HasGate = FALSE
    Watched = FALSE
    ChangeTask = FALSE
    ScopeActive = FALSE
    StopOnScope = FALSE
    StopOnVerify = 0
    CanDelegate = FALSE
    DelegateAfterReads = 0
    MaxHandoffs = 1
    MaxSteps = 4
    ChurnRounds = 2
    EditFailLimit = 2
    RepeatNudge = 2
    RepeatAbort = 3
    ExploreNudge = 9
    ExploreAbort = 9
    ExploreCap = 9
    SatWindow = 0
    SatMin = 35
    StallLimit = 2
    PromiseLimit = 0
    MaxEmptyTurns = 0
    MaxRescues = 1
    MaxShrinks = 0
    EditOnlyBudget = 2
    MaxRuns = 1
INVARIANTS PartialWorkVerified
CHECK_DEADLOCK FALSE
