SPECIFICATION FairSpec
CONSTANTS
    v1 = v1  v2 = v2  f1 = f1  f2 = f2  f3 = f3
    Versions = {v1, v2}
    Files = {f1, f2, f3}
    FilesOf <- OwnNames
    Clients = {c1, c2}
    None = None
    MaxFaults = 1
INVARIANT DownloadableIsStored
INVARIANT ConfirmedIsServed
PROPERTY RequestsSettle
CHECK_DEADLOCK FALSE
