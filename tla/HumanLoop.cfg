SPECIFICATION HumanLoopSpec

CONSTANTS
    t1 = t1
    c1 = c1
    r1 = r1
    r2 = r2
    alice = alice
    root = root
    bob = bob
    Tasks = {t1}
    Tools <- MCTools
    Registered <- MCRegistered
    HITLTools = {"edit_file"}
    MaybeHITLTools = {"write_file"}
    DefaultPlan <- MCDefaultPlan
    MaxPlan = 4
    MaxIter = 3
    MaxRetries = 2
    MaxTokens = 2
    CallTokens = 1
    Checkpoints = {c1}
    Requests = {r1, r2}
    Users = {alice, root, bob}
    Admins = {root}
    Owner <- OwnedByAlice
    RedisFails = TRUE

INVARIANT DecisionIntegrity
INVARIANT AnswerFaithful
INVARIANT NoLostWakeup
INVARIANT RedisMatchesPending
INVARIANT AgentConsistent
INVARIANT HITLGated
PROPERTY SubmitReturns
PROPERTY ImplementsPromise
PROPERTY ExecuteTaskReturns

CHECK_DEADLOCK FALSE
