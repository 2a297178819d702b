CONSTANTS
    r1 = r1
    r2 = r2
    Runs = {r1, r2}
    NumCells = 3
    Concurrency = 2
    MaxAttempts = 2
    MaxIterations = 1
    Costs = {1}
    MaxCost = 1
    Ceiling = 1
    MaxClock = 1
SPECIFICATION Spec
INVARIANTS OvershootBounded CleanExitIsComplete
PROPERTIES RecordsAreKept ResumeNeverRefires
SYMMETRY Symmetry
CHECK_DEADLOCK FALSE
