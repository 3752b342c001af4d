SPECIFICATION Spec
CONSTANTS
    App = {"a1"}
    Release = {"r1", "r2"}
    AppOf <- TwoApps
    Client = {c1, c2}
    Capacity = 1
    MaxItems = 2
    MaxTasks = 3
    MaxCrashes = 0
    Requests = {"receive", "cancel", "cancel task", "compose"}
    Outcomes = {"success", "failed"}
SYMMETRY ClientSymmetry
INVARIANTS
    TypeOK
    StartedInOrder
    WorkIsOnRecord
    RunningIsCarried
    OneDeploymentAtATime
CHECK_DEADLOCK FALSE
