SPECIFICATION ServiceLiveSpec
CONSTANTS
    t1 = t1
    t2 = t2
    h1 = h1
    Tasks = {t1}
    Tools <- MCTools
    Registered <- MCTools
    HITLTools = {"edit_file"}
    MaybeHITLTools = {}
    DefaultPlan <- MCDefaultPlan
    MaxPlan = 1
    MaxIter = 1
    MaxRetries = 1
    MaxTokens = 1
    CallTokens = 0
    MaxConcurrent = 1
    Humans = {h1}
    HumanActions = {"cancel", "approve"}
    QueueAnswers = {"approve", "timed_out"}
    DBFails = FALSE
    ColumnsFilled = FALSE
    MaxCrashes = 0
INVARIANT RowsAreFound
CHECK_DEADLOCK FALSE
