SPECIFICATION Spec
CONSTANTS
    Env = {"e1"}
    Unit = {"u1", "u2"}
    Release = {"r1", "r2"}
    Version = {"v1", "v2"}
    Manifest <- TwoUnits
    Stage <- OneStage
    Modes = {"normal"}
    MaxParallel = 2
    MaxRuns = 2
    MaxCrashes = 1
    Faults = {"crash", "database", "disconnect", "double"}
INVARIANTS
    TypeOK
    OneActiveRunPerEnvironment
    InterruptedWorkKeepsLock
    StagesInOrder
    OutcomeMatchesResults
    SettledRunIsClosed
    EnvironmentReportsLatestRun
    CurrentReleaseIsDeployed
    PlanStaysFresh
PROPERTIES
    ResultsAreFinal
    KeepsLease
CHECK_DEADLOCK FALSE
