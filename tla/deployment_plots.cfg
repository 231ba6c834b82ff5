SPECIFICATION Spec
CONSTANTS
    r1 = r1  r2 = r2
    Requests = {r1, r2}
    Schemas <- MCSchemas
    Defs <- MCDefs
    MaxItems = 2
    Gone = Gone
    MaxPanels = 4
    MaxAsked = 3
    MaxFaults = 1
INVARIANT DefaultsAreDoubledOnlyByOverlaps
INVARIANT PanelsFollowRows
INVARIANT FailuresAreExplained
 
CHECK_DEADLOCK FALSE
