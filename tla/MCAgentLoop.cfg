SPECIFICATION Spec
CONSTANTS
    Moves <- VerifyMoves
    Paths <- OnlyA
    SpecPaths <- NoPaths
    Reds <- VerifyReds
    HasVerifier = TRUE
    HasGate = FALSE
    Watched = TRUE
    ChangeTask = FALSE
    ScopeActive = TRUE
    StopOnScope = TRUE
    StopOnVerify = 0
    CanDelegate = FALSE
    DelegateAfterReads = 0
    MaxHandoffs = 1
    MaxSteps = 3
    ChurnRounds = 2
    EditFailLimit = 2
    RepeatNudge = 2
    RepeatAbort = 3
    ExploreNudge = 1
    ExploreAbort = 3
    ExploreCap = 4
    SatWindow = 0
    SatMin = 35
    StallLimit = 2
    PromiseLimit = 0
    MaxEmptyTurns = 0
    MaxRescues = 0
    MaxShrinks = 0
    EditOnlyBudget = 2
    MaxRuns = 2
INVARIANTS TypeOK SuccessIsEarned BaselinePristine FlakesNeverExcused ForceEditReleased
PROPERTIES DemandsWithinReach
CHECK_DEADLOCK FALSE
