SPECIFICATION FairSpec
CONSTANTS
    Env = {"e1"}
    Unit = {"u1", "u2", "u3"}
    Release = {"r1"}
    Version = {"v1"}
    Manifest <- TwoUnits
    Stage <- TwoStages
    Modes = {"force"}
    MaxParallel = 1
    MaxRuns = 1
    MaxCrashes = 1
    Faults = {"crash", "database", "stray"}
INVARIANTS
    ParallelLimit
    NoFalseReport
PROPERTIES
    CancellationSettles
    ExecutorNeverStalls
CHECK_DEADLOCK FALSE
