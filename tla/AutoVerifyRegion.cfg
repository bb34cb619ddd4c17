SPECIFICATION ReviewSpec

CONSTANTS
    Callers = {k1}
    Threshold = 1
    MaxFails = 1
    Nobody = Nobody
    b1 = b1
    NoBlock = NoBlock
    Blocks = {b1}
    EditKinds <- MCEditKinds
    SuggestionIds = {s1}
    MaxEdits = 1
    MaxLives = 1
    MaxMoves = 0
    SnapshotCap = 2
    RegistryCap = 2
    BadKey = FALSE
    Local = TRUE
    ToolCalls = {t1}
    MaxStarts = 1
    KeyRejected = FALSE
    OnLocalhost = TRUE

INVARIANT InsertedScanned

CHECK_DEADLOCK FALSE
