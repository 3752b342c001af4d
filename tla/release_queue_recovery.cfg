SPECIFICATION Spec
CONSTANTS
    App = {"a1"}
    Release = {"r1"}
    AppOf <- TwoApps
    Client = {"c1"}
    Capacity = 2
    MaxItems = 2
    MaxTasks = 2
    MaxCrashes = 1
    Requests = {"receive", "schedule"}
    Outcomes = {"success", "failed"}
INVARIANT RecoveryReleasesQueue
CHECK_DEADLOCK FALSE
