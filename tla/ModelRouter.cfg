SPECIFICATION SpendingSpec
CONSTANTS
    c1 = c1
    c2 = c2
    t1 = t1
    t2 = t2
    u1 = u1
    u2 = u2
    u3 = u3
    p1 = p1
    p2 = p2
    m1 = m1
    m2 = m2
    Calls = {c1, c2}
    Tasks = {t1}
    Providers = {p1, p2}
    Models = {m1, m2}
    TaskOf <- MCTaskOf
    ProviderOf <- MCProviderOf
    EstCost <- MCEstCost
    Considered <- MCConsidered
    Fallback <- MCFallback
    Threshold = 1
    MaxFails = 1
    Budget = 1
    Costs = {1}
    MaxCost = 1
    MaxSpent = 4
    Spenders = {u1, u2, u3}
    BudgetTasks = {t1, t2}
    TaskFor <- MCTaskFor
    OrgKey = org
    TaskBudget = 1
    MaxUsage = 5
    LoadFails = TRUE
    StoreFails = TRUE
    MaxCrashes = 1
INVARIANT FailoverSound
INVARIANT BudgetConsistent
PROPERTY AttemptsRunOut
