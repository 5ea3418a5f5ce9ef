SPECIFICATION CallsSpec
CONSTANTS
    run = run
    dropped = dropped
    Callers = {run, dropped}
    Streaming = TRUE
    NoThink = FALSE
    Marked = TRUE
    Retries = 1
    MaxShrinks = 1
    MaxMalformed = 1
    Windows = {15}
    Limits = {0, 15}
    Floor = 10
    MaxCold = 1
    MaxAsks = 1
INVARIANTS CallsTypeOK NothingTwice TimeoutLeavesNothing
PROPERTIES ShrinkReduces KeepsPromise CallsReturn CommandReturns
CHECK_DEADLOCK FALSE
