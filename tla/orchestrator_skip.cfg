SPECIFICATION Spec
CONSTANTS
    Env = {"e1"}
    Unit = {"u1"}
    Release = {"r1", "r2"}
    Version = {"v1", "v2"}
    Manifest <- TwoUnits
    Stage <- OneStage
    Modes = {"normal"}
    MaxParallel = 1
    MaxRuns = 3
    MaxCrashes = 0
    Faults = {}
INVARIANT SkipIsTrustworthy
CHECK_DEADLOCK FALSE
