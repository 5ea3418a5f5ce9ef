SPECIFICATION Spec
CONSTANTS
    Moves <- ShellMoves
    Paths <- OnlyA
    SpecPaths <- OnlyA
    Reds <- OneRed
    HasVerifier = TRUE
    HasGate = TRUE
    Watched = TRUE
    ChangeTask = TRUE
    ScopeActive = FALSE
    StopOnScope = FALSE
    StopOnVerify = 2
    CanDelegate = TRUE
    DelegateAfterReads = 1
    MaxHandoffs = 1
    MaxSteps = 3
    ChurnRounds = 2
    EditFailLimit = 2
    RepeatNudge = 2
    RepeatAbort = 3
    ExploreNudge = 9
    ExploreAbort = 9
    ExploreCap = 9
    SatWindow = 0
    SatMin = 35
    StallLimit = 2
    PromiseLimit = 1
    MaxEmptyTurns = 1
    MaxRescues = 1
    MaxShrinks = 1
    EditOnlyBudget = 2
    MaxRuns = 1
INVARIANTS MutationsAreVerified SpecUntouched
CHECK_DEADLOCK FALSE
