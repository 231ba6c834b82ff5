SPECIFICATION FairSpec
CONSTANTS
    d1 = d1  d2 = d2  n1 = n1  n2 = n2
    Deployments = {d1, d2}
    ImageBacked = {}
    ObjectNames = {n1}
    WorkloadName <- SharedName
    Workers = {w1, w2}
    Clients = {c1}
    NoOne = NoOne
    MaxTasks = 2
    MaxCrashes = 1
    MaxFaults = 0
    MaxDrops = 0
INVARIANT CrashesStrandTasks
 
PROPERTY TasksMoveOn
CHECK_DEADLOCK FALSE
