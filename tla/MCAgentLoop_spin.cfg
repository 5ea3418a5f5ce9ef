SPECIFICATION FairSpec
CONSTANTS
    Moves <- SpinMoves
    Paths <- OnlyA
    SpecPaths <- NoPaths
    Reds <- OneRed
    HasVerifier = FALSE
    HasGate = FALSE
    Watched = TRUE
    ChangeTask = FALSE
    ScopeActive = FALSE
    StopOnScope = FALSE
    StopOnVerify = 0
    CanDelegate = TRUE
    DelegateAfterReads = 0
    MaxHandoffs = 1
    MaxSteps = 4
    ChurnRounds = 2
    EditFailLimit = 2
    RepeatNudge = 2
    RepeatAbort = 3
    ExploreNudge = 2
    ExploreAbort = 2
    ExploreCap = 3
    SatWindow = 2
    SatMin = 60
    StallLimit = 2
    PromiseLimit = 0
    MaxEmptyTurns = 0
    MaxRescues = 1
    MaxShrinks = 1
    EditOnlyBudget = 2
    MaxRuns = 1
INVARIANTS TurnsBounded
PROPERTIES RunsTerminate
CHECK_DEADLOCK FALSE
