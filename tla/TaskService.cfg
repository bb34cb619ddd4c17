SPECIFICATION ServiceSpec

CONSTANTS
    t1 = t1
    t2 = t2
    h1 = h1
    Tasks = {t1, t2}
    Tools = {"edit_file"}
    Registered = {"edit_file"}
    HITLTools = {"edit_file"}
    MaybeHITLTools = {}
    DefaultPlan <- MCDefaultPlan
    MaxPlan = 1
    MaxIter = 1
    MaxRetries = 1
    MaxTokens = 1
    CallTokens = 0
    MaxConcurrent = 1
    Humans = {h1}
    HumanActions = {"cancel", "approve", "reject"}
    QueueAnswers = {"approve", "timed_out"}
    DBFails = TRUE
    ColumnsFilled = TRUE
    MaxCrashes = 1

INVARIANT ServiceConsistent
INVARIANT FinishedIsTerminal

SYMMETRY TaskSymmetry
CHECK_DEADLOCK FALSE
