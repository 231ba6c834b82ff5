SPECIFICATION FairSpec
CONSTANTS
    u1 = u1  u2 = u2  u3 = u3  a = a  b = b
    s1 = s1  s2 = s2  s3 = s3  s4 = s4  csv = csv  parquet = parquet
    Uploads = {u1, u2, u3}
    Names = {a, b}
    Slugs = {s1, s2, s3, s4}
    Types = {csv, parquet}
    NameOf <- SharedNames
    TypeOf <- TwoTypes
    Candidates <- Colliding
    Wanted <- Asked
    None = None
    MaxFaults = 1
INVARIANT VersionsAreConsecutive
INVARIANT NamesKeepTheirSlug
INVARIANT ReadyHoldsItsUpload
INVARIANT DownloadsGetTheVersion
PROPERTY ReportedUploadsBecomeReady
PROPERTY RequestsEnd
CHECK_DEADLOCK FALSE
