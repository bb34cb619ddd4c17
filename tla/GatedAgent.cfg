SPECIFICATION GatedLiveSpec
CONSTANTS
    t1 = t1
    r1 = r1
    r2 = r2
    alice = alice
    bob = bob
    Tasks = {t1}
    Tools <- MCTools
    Registered <- MCTools
    HITLTools = {"edit_file"}
    MaybeHITLTools = {}
    DefaultPlan <- MCDefaultPlan
    MaxPlan = 2
    MaxIter = 2
    MaxRetries = 2
    MaxTokens = 1
    CallTokens = 0
    Checkpoints <- MCCheckpoints
    Requests = {r1, r2}
    Users = {alice, bob}
    Admins = {}
    Owner <- MCOwner
    RedisFails = TRUE
INVARIANT HumanDecides
PROPERTY GatedTaskReturns
CHECK_DEADLOCK FALSE
