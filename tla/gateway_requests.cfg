SPECIFICATION FairSpec
CONSTANTS
    d1 = d1  u1 = u1  s1 = s1
    Deployments = {d1}
    Users = {u1, u2}
    Slugs = {s1}
    Owner <- Owners
    Slug <- Names
    Requests = {r1, r2}
    Nothing = Nothing
    MaxFaults = 1
    MaxRestarts = 1
INVARIANT ModelsGetVettedPayloads
INVARIANT UnavailabilityIsExplained
INVARIANT AnswersAreLogged
PROPERTY PayloadsAreAnswered
CHECK_DEADLOCK FALSE
