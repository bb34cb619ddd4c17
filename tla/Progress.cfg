SPECIFICATION ProgressSpec
CONSTANTS
    Pods = {p1, p2}
    Sessions = {s1, s2}
    Versions = 2
    MaxCrashes = 2
    NoSession = NoSession
    Requests = {b1, b2, q1}
    Batches = {b1, b2}
    Public = {q1}
    MaxConns = 2
    DBThreshold = 2
    MaxDBFaults = 2
    Viewers = {v1, v2}
    OwnChannel = own
    NoChannel = none
    BufferSize = 1
    Roles = {g1, g2}
    MaxFixes = 2
    Pieces = 3
    RawSize = 1
    WrappedSize = 2
    MaxStreamTries = 2
    MaxDBAttempts = 2
    MaxAttemptsOther = 2
    PoolConns = 1
INVARIANT StartAndStop
INVARIANT ReportMatchesOutput
INVARIANT StreamAccounted
PROPERTY RequestsAnswered
PROPERTY StreamsEnd
PROPERTY WorkEnds
CHECK_DEADLOCK FALSE
