SPECIFICATION Spec
CONSTANTS
    App = {"a1"}
    Release = {"r1", "r2"}
    AppOf <- TwoApps
    Client = {"c1"}
    Capacity = 2
    MaxItems = 2
    MaxTasks = 2
    MaxCrashes = 0
    Requests = {"receive"}
    Outcomes = {"success", "failed"}
INVARIANT FailureStopsQueue
CHECK_DEADLOCK FALSE
