SPECIFICATION Spec
CONSTANTS
    v1 = v1  v2 = v2  f1 = f1  f2 = f2  f3 = f3
    Versions = {v1, v2}
    Files = {f1}
    FilesOf <- SameNames
    Clients = {c1, c2}
    None = None
    MaxFaults = 0
INVARIANT DownloadsAreOfTheVersion
CHECK_DEADLOCK FALSE
