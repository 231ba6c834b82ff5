SPECIFICATION Spec
CONSTANTS
    u1 = u1  u2 = u2  e1 = e1  e2 = e2  n = n  t1 = t1  t2 = t2  c1 = c1  c2 = c2  p1 = p1  p2 = p2
    Users = {u1, u2}
    Emails = {e1, e2}
    Names = {n}
    Passwords = {p1, p2}
    FirstHash <- MCFirstHash
    Tabs = {t1, t2}
    Clients = {c1}
    None = None
    Registered <- MCRegistered
    Lifetime = 1
    MaxKeys = 2
    MaxTime = 2
    MaxAsked = 4
    MaxCalls = 2
    MaxFaults = 1
INVARIANT CallsRunOnce
INVARIANT TokensAreTheKeyOwners
 
PROPERTY DenialsAreExplained
CHECK_DEADLOCK FALSE
