SPECIFICATION FairSpec
CONSTANTS
    App = {"a1"}
    Release = {"r1", "r2"}
    AppOf <- TwoApps
    Client = {"c1"}
    Capacity = 1
    MaxItems = 2
    MaxTasks = 3
    MaxCrashes = 1
    Requests = {"receive", "publish", "schedule", "unschedule", "compose"}
    Outcomes = {"success", "failed"}
INVARIANTS
    SuccessIsBacked
    RunningIsCarried
PROPERTIES
    QueueMovesOn
    StartedOnce
CHECK_DEADLOCK FALSE
