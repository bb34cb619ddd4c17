SPECIFICATION ServicesSpec
CONSTANTS
    u1 = u1
    u2 = u2
    h1 = h1
    h2 = h2
    m1 = m1
    m2 = m2
    m3 = m3
    c1 = c1
    c2 = c2
    c3 = c3
    x1 = x1
    x2 = x2
    i1 = i1
    i2 = i2
    i3 = i3
    k1 = k1
    k2 = k2
    MaxRows = 4
    Initially = 3
    AskedLimit = 1
    DefaultLimit = 2
    MaxLimit = 3
    CachePaths = {l1, i1}
    ParentPath = l1
    Readers = {u1, u2}
    Writers = {u1, u2}
    MaxSize = 1
    NoEntry = NoEntry
    Memories = {m1, m2, m3}
    Owner <- MCOwner
    Rememberers = {h1, h2}
    SystemUser = sys
    RecallLimit = 1
    RedisDown = TRUE
    ProxyRequests = {u1, u2}
    Texts <- MCTexts
    RiskyTexts <- MCRiskyTexts
    Quota = 1
    RingSize = 1
    AddressLimit = 1
    Blocks = {u1, u2}
    BackendAnswers <- MCBackendAnswers
    PatternHits = {{}, {1, 5}, {4}}
    LLMAnswers <- MCLLMAnswers
    Places <- MCPlaces
    ToolLevels = {"high", "low"}
    DeepAnswers <- MCDeepAnswers
    Calls = {c1, c2, c3}
    Prompts = {x1, x2}
    PromptOf <- MCPromptOf
    MaxTries = 2
    MaxRetries = 1
    CacheSize = 1
    Threshold = 75
    NoContent = NoContent
    LoginClients = {c1, c2}
    LockStores = {"memory", "redis"}
    MaxAttempts = 2
    LockFor = 2
    Window = 1
    LockoutDurations <- MCLockoutDurations
    Callers = {c1, c2}
    Tokens = {u1, u2}
    ResetTokens = {r1, r2}
    TokenLife = 2
    BlacklistTTL = 2
    ResetLife = 1
    VerifyLife = 2
    NoToken = NoToken
    KeyClients = {c1, c2}
    Keys = {a1, a2, a3, a4}
    MaxKeys = 2
    Grace = 1
    Conns = {w1, w2}
    NoUser = NoUser
    User = user
    MaxPerUser = 1
    SendSize = 1
    Endpoints = {e1, e2}
    HookEvents = {b1, b2}
    Replays = {b2}
    MaxSlots = 2
    MaxRetry = 1
    CacheTTL = 1
    Messages = {m1, m2}
    MaxDeliver = 3
    IdemCallers = {i1, i2, i3}
    IdemKeys = {k1, k2}
    KeyOf <- MCKeyOf
    MaxEntries = 1
    Wrapper = "middleware"
    LimitedRequests = {u1, u2, u3}
    KeyLimit = 1
    SlidingWindow = 2
    PerMinute = 1
    MinuteLength = 2
    PerDay = 1
    TasksPerMonth = 1
    LastSecond = 2
    RedisFails = TRUE
    Reloads = {d1, d2, d3}
    MaxEdits = 3
    FlagGets = {"g1"}
    FlagSets = {"w1", "w2"}
    MaxFlagWrites = 3
    Broken = {2}
SYMMETRY MCSymmetry
INVARIANT WalkComplete
INVARIANT StaleOnlyByOverlap
INVARIANT LostOnlyByOverlap
INVARIANT WithheldStaysWithheld
INVARIANT VerdictsSound
INVARIANT LimitsExact
INVARIANT CredentialsSound
INVARIANT UserReached
INVARIANT FanOutBounded
INVARIANT TasksKept
INVARIANT ExecutedOnce
INVARIANT ReloadsQuiesce
CHECK_DEADLOCK FALSE
