SPECIFICATION BudgetSpec
CONSTANTS
    BudgetSettings <- MCAskedFor
    Costs = {1}
    ChildCosts = {12}
    Readings = {2}
    FlatReserve = 1
    MemCap = 8
    MemFloor = 1
    LeastChild = 2
    HardFactor = 3
    MaxChildren = 2
    MaxJournal = 3
    UnlimitedSteps = 4
    MaxElapsed = 1
    MaxBudgetRuns = 1
INVARIANT TotalSpendIsBounded
CHECK_DEADLOCK FALSE
