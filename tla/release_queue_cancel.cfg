SPECIFICATION Spec
CONSTANTS
    App = {"a1"}
    Release = {"r1"}
    AppOf <- TwoApps
    Client = {"c1"}
    Capacity = 2
    MaxItems = 2
    MaxTasks = 2
    MaxCrashes = 0
    Requests = {"receive", "cancel task"}
    Outcomes = {"success", "failed"}
INVARIANT CancelReachesQueue
CHECK_DEADLOCK FALSE
