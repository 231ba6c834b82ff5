SPECIFICATION Spec
CONSTANTS
    r1 = r1  r2 = r2  r3 = r3  a = a  b = b
    Requests = {r1, r2, r3}
    Names = {a, b}
    Proxy = Proxy
    Earlier = Earlier
    Issued = {a}
    None = None
    MaxFaults = 2
INVARIANT StoredProxyTokenWorks
INVARIANT ListShowsLiveTokens
INVARIANT LoneRequestsGetTheirToken
CHECK_DEADLOCK FALSE
