SPECIFICATION RemoteSpec

CONSTANTS
    Callers = {k1, k2, k3, k4}
    Threshold = 3
    MaxFails = 4
    Nobody = Nobody
    b1 = b1
    NoBlock = NoBlock
    Blocks = {b1}
    EditKinds <- MCEditKinds
    SuggestionIds = {s1}
    MaxEdits = 3
    MaxLives = 2
    MaxMoves = 1
    SnapshotCap = 2
    RegistryCap = 2
    BadKey = FALSE
    Local = TRUE
    ToolCalls = {t1, t2}
    MaxStarts = 3
    KeyRejected = TRUE
    OnLocalhost = TRUE

INVARIANT BreakerConsistent
PROPERTY OneProbe
PROPERTY HalfOpenEnds
PROPERTY EditorSound
PROPERTY EditorEnds

\* The editor may be closed, and then nothing more is called.
CHECK_DEADLOCK FALSE
