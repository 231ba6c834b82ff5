SPECIFICATION FairSpec
CONSTANTS
    d1 = d1  d2 = d2  n1 = n1  n2 = n2
    Deployments = {d1, d2}
    ImageBacked = {}
    ObjectNames = {n1, n2}
    WorkloadName <- OwnNames
    Workers = {w1}
    Clients = {c1}
    NoOne = NoOne
    MaxTasks = 2
    MaxCrashes = 0
    MaxFaults = 0
    MaxDrops = 0
PROPERTY CreatedTasksAreClaimed
CHECK_DEADLOCK FALSE
