SPECIFICATION FairSpec
CONSTANTS
    up = up  down = down
    Runs = {r1, r2}
    Steps = {1, 2}
    Batches = {up, down}
    StepsOf <- Opposite
    Contexts = {c1, c2}
    Orders <- ByStatus
    PageSize = 1
    None = None
    MaxCalls = 3
    MaxTimeouts = 1
    MaxFaults = 1
INVARIANT NumbersAreConsecutive
INVARIANT CleanExitsEndTheRun
INVARIANT BatchesDoNotMix
INVARIANT PagesShowTheRuns
PROPERTY EndedRunsAreFrozen
PROPERTY CallsAreServed
CHECK_DEADLOCK FALSE
