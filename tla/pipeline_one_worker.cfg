SPECIFICATION Spec
CONSTANTS
    d1 = d1  d2 = d2  n1 = n1  n2 = n2
    Deployments = {d1, d2}
    ImageBacked = {d2}
    ObjectNames = {n1, n2}
    WorkloadName <- OwnNames
    Workers = {w1}
    Clients = {c1}
    NoOne = NoOne
    MaxTasks = 3
    MaxCrashes = 1
    MaxFaults = 1
    MaxDrops = 1
INVARIANT RoutableHasWorkload
INVARIANT UndeployedMeansGone
CHECK_DEADLOCK FALSE
PROPERTY StatusFollowsWorkload
