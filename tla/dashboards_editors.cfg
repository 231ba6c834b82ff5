SPECIFICATION FairSpec
CONSTANTS
    Configs = {a, b}
    Gone = Gone  Kept = Kept
    Requests = {r1, r2}
    Targets = {1}
    Limit = 2
    MaxPlots = 3
    MaxAsked = 4
    MaxFailures = 1
INVARIANT FailedRequestsChangeNothing
INVARIANT PlotsKeepTheirOrder
INVARIANT StoresAgree
PROPERTY RequestsEnd
CHECK_DEADLOCK FALSE
