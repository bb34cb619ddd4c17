---------------------------- MODULE Spending_proofs ----------------------------
(***************************************************************************)
(* What is spent on models, for any number of requests, tasks, providers,  *)
(* models and restarts: the budget manager's books (BudgetManager), the    *)
(* failover loop that spends (ModelRouter) and the streamed answers it     *)
(* relays (StreamRelay).                                                   *)
(***************************************************************************)
EXTENDS ModelRouter, BudgetManager, StreamRelay, SequenceTheorems, FiniteSetTheorems, TLAPS

--------------------------------------------------------------------------------
(* The budget manager *)

\* The requests for task t, and those of them that passed the check.
RequestsFor(t) == { u \in Spenders : TaskFor[u] = t }
Allowed(t) == { u \in RequestsFor(t) : stage[u] = "request" }

\* The spend of key k that the table holds or will hold.
Committed(k) == store[k] + Cardinality(Owing(k))

(***************************************************************************)
(* RestartKeepsBudget is not inductive: it must count the requests that    *)
(* passed the check and have not been recorded, each of which may still    *)
(* add a unit; and the check is good only if a request never gets to it    *)
(* with memory unloaded.                                                   *)
(***************************************************************************)
BudgetInv ==
    /\ BudgetTypeOK
    /\ \A k \in UsageKeys : Committed(k) + lost[k] = spent[k] /\ counters[k] <= spent[k]
    /\ ~loadFailed => \A u \in Spenders : stage[u] # "idle" => loaded
    /\ ~loadFailed /\ loaded => \A k \in UsageKeys : counters[k] >= Committed(k)
    /\ ~loadFailed => \A t \in BudgetTasks :
          Committed(t) + Cardinality(Allowed(t)) <= TaskBudget + Cardinality(RequestsFor(t))

\* Every set of requests is finite.
LEMMA FiniteRequests ==
    ASSUME NEW S \in SUBSET Spenders
    PROVE  IsFiniteSet(S) /\ Cardinality(S) \in Nat
  BY BudgetAssumption, FS_Subset, FS_CardinalityType

\* One request more or less in such a set.
LEMMA OneMore ==
    ASSUME NEW S \in SUBSET Spenders, NEW u \in Spenders
    PROVE  /\ u \notin S => Cardinality(S \cup { u }) = Cardinality(S) + 1
           /\ u \in S => Cardinality(S \ { u }) = Cardinality(S) - 1
  BY FiniteRequests, FS_AddElement, FS_RemoveElement

\* The keys of a request are two (budget.go:181-212).
LEMMA TwoKeys ==
    ASSUME NEW u \in Spenders
    PROVE  /\ TaskFor[u] \in BudgetTasks /\ TaskFor[u] \in UsageKeys /\ OrgKey \in UsageKeys
           /\ TaskFor[u] # OrgKey
           /\ \A t \in BudgetTasks : t \in UsageKeys /\ t # OrgKey
  BY BudgetAssumption DEF UsageKeys

\* Nothing is spent, nothing loaded.
LEMMA BudgetInitInv == BudgetInit => BudgetInv
  <1> SUFFICES ASSUME BudgetInit PROVE BudgetInv
    OBVIOUS
  <1>1. BudgetTypeOK
    <2>1. loaded \in BOOLEAN /\ loadFailed \in BOOLEAN
      BY Zenon DEF BudgetInit
    <2> QED
      BY <2>1, BudgetAssumption DEF BudgetInit, BudgetTypeOK, BudgetSteps
  <1>2. ASSUME NEW k \in UsageKeys PROVE Owing(k) = {}
    BY DEF BudgetInit, Owing
  <1>3. ASSUME NEW k \in UsageKeys PROVE Committed(k) = 0
    BY <1>2, FS_EmptySet DEF BudgetInit, Committed
  <1>4. ASSUME NEW t \in BudgetTasks
        PROVE  Committed(t) + Cardinality(Allowed(t)) <= TaskBudget + Cardinality(RequestsFor(t))
    <2>1. Allowed(t) = {}
      BY DEF BudgetInit, Allowed, RequestsFor
    <2>2. Cardinality(Allowed(t)) = 0
      BY <2>1, FS_EmptySet
    <2>3. Cardinality(RequestsFor(t)) \in Nat
      BY FiniteRequests DEF RequestsFor
    <2>4. t \in UsageKeys
      BY DEF UsageKeys
    <2> QED
      BY <1>3, <2>2, <2>3, <2>4, BudgetAssumption
  <1> QED
    BY <1>1, <1>3, <1>4 DEF BudgetInit, BudgetInv

\* What a request's move to stage x does to the two sets it may be counted in.
LEMMA StageChange ==
    ASSUME BudgetTypeOK, NEW u \in Spenders, NEW x \in BudgetSteps,
           stage' = [stage EXCEPT ![u] = x]
    PROVE  /\ stage' \in [Spenders -> BudgetSteps] /\ stage'[u] = x
           /\ \A v \in Spenders : v # u => stage'[v] = stage[v]
           /\ \A k \in UsageKeys :
                 Owing(k)' = IF (x = "org" /\ k \in KeysOf(u)) \/ (x = "task" /\ k = TaskFor[u])
                             THEN Owing(k) \cup { u } ELSE Owing(k) \ { u }
           /\ \A t \in BudgetTasks :
                 Allowed(t)' = IF x = "request" /\ TaskFor[u] = t
                               THEN Allowed(t) \cup { u } ELSE Allowed(t) \ { u }
  <1>1. /\ stage' \in [Spenders -> BudgetSteps] /\ stage'[u] = x
        /\ \A v \in Spenders : v # u => stage'[v] = stage[v]
    BY DEF BudgetTypeOK
  <1>2. ASSUME NEW k \in UsageKeys
        PROVE  Owing(k)' = IF (x = "org" /\ k \in KeysOf(u)) \/ (x = "task" /\ k = TaskFor[u])
                           THEN Owing(k) \cup { u } ELSE Owing(k) \ { u }
    BY <1>1 DEF Owing
  <1>3. ASSUME NEW t \in BudgetTasks
        PROVE  Allowed(t)' = IF x = "request" /\ TaskFor[u] = t
                             THEN Allowed(t) \cup { u } ELSE Allowed(t) \ { u }
    BY <1>1 DEF Allowed, RequestsFor
  <1> QED
    BY <1>1, <1>2, <1>3

\* The same in numbers: Owing by key and Allowed by task, before and after.
LEMMA CountsChange ==
    ASSUME BudgetTypeOK, NEW u \in Spenders, NEW x \in BudgetSteps,
           stage' = [stage EXCEPT ![u] = x]
    PROVE  /\ \A k \in UsageKeys :
                 /\ Cardinality(Owing(k)) \in Nat
                 /\ LET was == u \in Owing(k)
                        is == (x = "org" /\ k \in KeysOf(u)) \/ (x = "task" /\ k = TaskFor[u])
                    IN  Cardinality(Owing(k)') =
                          Cardinality(Owing(k)) + (IF is THEN 1 ELSE 0) - (IF was THEN 1 ELSE 0)
           /\ \A t \in BudgetTasks :
                 /\ Cardinality(Allowed(t)) \in Nat /\ Cardinality(RequestsFor(t)) \in Nat
                 /\ Cardinality(Allowed(t)') <= Cardinality(RequestsFor(t))
                 /\ LET was == u \in Allowed(t)
                        is == x = "request" /\ TaskFor[u] = t
                    IN  Cardinality(Allowed(t)') =
                          Cardinality(Allowed(t)) + (IF is THEN 1 ELSE 0) - (IF was THEN 1 ELSE 0)
  <1>1. ASSUME NEW k \in UsageKeys
        PROVE  /\ Cardinality(Owing(k)) \in Nat
               /\ LET was == u \in Owing(k)
                      is == (x = "org" /\ k \in KeysOf(u)) \/ (x = "task" /\ k = TaskFor[u])
                  IN  Cardinality(Owing(k)') =
                        Cardinality(Owing(k)) + (IF is THEN 1 ELSE 0) - (IF was THEN 1 ELSE 0)
    <2>1. Owing(k) \in SUBSET Spenders
      BY DEF Owing
    <2>2. Cardinality(Owing(k)) \in Nat
      BY <2>1, FiniteRequests
    <2>3. Owing(k)' = IF (x = "org" /\ k \in KeysOf(u)) \/ (x = "task" /\ k = TaskFor[u])
                      THEN Owing(k) \cup { u } ELSE Owing(k) \ { u }
      BY StageChange
    <2>4. CASE u \in Owing(k)
      <3>1. Owing(k) \cup { u } = Owing(k) /\ Cardinality(Owing(k) \ { u }) = Cardinality(Owing(k)) - 1
        BY <2>1, <2>4, OneMore
      <3>2. Cardinality(Owing(k)') =
              IF (x = "org" /\ k \in KeysOf(u)) \/ (x = "task" /\ k = TaskFor[u])
              THEN Cardinality(Owing(k)) ELSE Cardinality(Owing(k)) - 1
        BY <2>3, <3>1
      <3> QED
        BY <2>2, <2>4, <3>2
    <2>5. CASE u \notin Owing(k)
      <3>1. Owing(k) \ { u } = Owing(k) /\ Cardinality(Owing(k) \cup { u }) = Cardinality(Owing(k)) + 1
        BY <2>1, <2>5, OneMore
      <3> QED
        BY <2>2, <2>3, <2>5, <3>1
    <2> QED
      BY <2>4, <2>5
  <1>2. ASSUME NEW t \in BudgetTasks
        PROVE  /\ Cardinality(Allowed(t)) \in Nat /\ Cardinality(RequestsFor(t)) \in Nat
               /\ Cardinality(Allowed(t)') <= Cardinality(RequestsFor(t))
               /\ LET was == u \in Allowed(t)
                      is == x = "request" /\ TaskFor[u] = t
                  IN  Cardinality(Allowed(t)') =
                        Cardinality(Allowed(t)) + (IF is THEN 1 ELSE 0) - (IF was THEN 1 ELSE 0)
    <2>1. /\ Allowed(t) \in SUBSET Spenders /\ RequestsFor(t) \in SUBSET Spenders
          /\ Allowed(t)' \in SUBSET RequestsFor(t)
      BY DEF Allowed, RequestsFor
    <2>2. /\ Cardinality(Allowed(t)) \in Nat /\ Cardinality(RequestsFor(t)) \in Nat
          /\ IsFiniteSet(RequestsFor(t))
      BY <2>1, FiniteRequests
    <2>3. Cardinality(Allowed(t)') <= Cardinality(RequestsFor(t))
      BY <2>1, <2>2, FS_Subset
    <2>4. Allowed(t)' = IF x = "request" /\ TaskFor[u] = t
                        THEN Allowed(t) \cup { u } ELSE Allowed(t) \ { u }
      BY StageChange
    <2>5. CASE u \in Allowed(t)
      <3>1. Allowed(t) \cup { u } = Allowed(t) /\ Cardinality(Allowed(t) \ { u }) = Cardinality(Allowed(t)) - 1
        BY <2>1, <2>5, OneMore
      <3>2. Cardinality(Allowed(t)') =
              IF x = "request" /\ TaskFor[u] = t
              THEN Cardinality(Allowed(t)) ELSE Cardinality(Allowed(t)) - 1
        BY <2>4, <3>1
      <3> QED
        BY <2>2, <2>3, <2>5, <3>2
    <2>6. CASE u \notin Allowed(t)
      <3>1. Allowed(t) \ { u } = Allowed(t) /\ Cardinality(Allowed(t) \cup { u }) = Cardinality(Allowed(t)) + 1
        BY <2>1, <2>6, OneMore
      <3> QED
        BY <2>2, <2>3, <2>4, <2>6, <3>1
    <2> QED
      BY <2>5, <2>6
  <1> QED
    BY <1>1, <1>2

\* The types of the state, and what they say of one key.
LEMMA BudgetNumbers ==
    ASSUME BudgetInv, NEW k \in UsageKeys
    PROVE  /\ store[k] \in Nat /\ lost[k] \in Nat /\ spent[k] \in 0 .. MaxUsage
           /\ counters[k] \in Nat /\ MaxUsage \in Nat /\ Cardinality(Owing(k)) \in Nat
           /\ store[k] + Cardinality(Owing(k)) + lost[k] = spent[k]
           /\ counters[k] <= spent[k]
  <1>1. MaxUsage \in Nat
    BY BudgetAssumption
  <1>2. Owing(k) \in SUBSET Spenders
    BY DEF Owing
  <1>3. Cardinality(Owing(k)) \in Nat
    BY <1>2, FiniteRequests
  <1> QED
    BY <1>1, <1>3 DEF BudgetInv, BudgetTypeOK, Committed

\* No counter outgrows what was spent, so the bound on that bounds them all.
LEMMA BudgetBounded ==
    ASSUME stage' \in [Spenders -> BudgetSteps], loaded' \in BOOLEAN, loadFailed' \in BOOLEAN,
           crashes' \in 0 .. MaxCrashes, spent' \in [UsageKeys -> 0 .. MaxUsage],
           store' \in [UsageKeys -> Nat], lost' \in [UsageKeys -> Nat],
           counters' \in [UsageKeys -> Nat],
           \A k \in UsageKeys : /\ Cardinality(Owing(k)') \in Nat
                                /\ store'[k] + Cardinality(Owing(k)') + lost'[k] = spent'[k]
                                /\ counters'[k] <= spent'[k]
    PROVE  BudgetTypeOK'
  <1>1. MaxUsage \in Nat
    BY BudgetAssumption
  <1>2. ASSUME NEW k \in UsageKeys
        PROVE  store'[k] \in 0 .. MaxUsage /\ lost'[k] \in 0 .. MaxUsage /\ counters'[k] \in 0 .. MaxUsage
    BY <1>1
  <1>3. /\ store' \in [UsageKeys -> 0 .. MaxUsage] /\ lost' \in [UsageKeys -> 0 .. MaxUsage]
        /\ counters' \in [UsageKeys -> 0 .. MaxUsage]
    BY <1>2
  <1> QED
    BY <1>3 DEF BudgetTypeOK

\* ensureLoaded and the check before a request, and a request that fails
\* (budget.go:60-180).
LEMMA CheckStep ==
    ASSUME BudgetInv, NEW u \in Spenders, EnsureLoaded(u) \/ CheckBudget(u) \/ RequestFails(u)
    PROVE  BudgetInv'
  <1>t. BudgetTypeOK
    BY DEF BudgetInv
  <1>b. loaded \in BOOLEAN /\ loadFailed \in BOOLEAN
    BY <1>t DEF BudgetTypeOK
  <1>u. UNCHANGED <<store, crashes, spent, lost>>
    BY DEF EnsureLoaded, CheckBudget, RequestFails
  <1>1. PICK x \in { "idle", "check", "request" } : stage' = [stage EXCEPT ![u] = x]
    BY DEF EnsureLoaded, CheckBudget, RequestFails
  <1>2. stage[u] \in { "idle", "check", "request" }
    BY DEF EnsureLoaded, CheckBudget, RequestFails
  <1>x. x \in BudgetSteps
    BY DEF BudgetSteps
  <1>3. ASSUME NEW k \in UsageKeys
        PROVE  Cardinality(Owing(k)') = Cardinality(Owing(k)) /\ Committed(k)' = Committed(k)
    <2>1. u \notin Owing(k)
      BY <1>2 DEF Owing
    <2>2. Cardinality(Owing(k)') = Cardinality(Owing(k))
      <3>1. /\ Cardinality(Owing(k)) \in Nat
            /\ Cardinality(Owing(k)') = Cardinality(Owing(k))
                  + (IF (x = "org" /\ k \in KeysOf(u)) \/ (x = "task" /\ k = TaskFor[u]) THEN 1 ELSE 0)
                  - (IF u \in Owing(k) THEN 1 ELSE 0)
        BY <1>t, <1>1, <1>x, CountsChange
      <3>2. x # "org" /\ x # "task"
        OBVIOUS
      <3> QED
        BY <2>1, <3>1, <3>2
    <2> QED
      BY <1>u, <2>2 DEF Committed
  <1>4. CASE EnsureLoaded(u)
    <2>1. stage[u] = "idle" /\ stage' = [stage EXCEPT ![u] = "check"]
      BY <1>4 DEF EnsureLoaded
    <2>2. /\ stage' \in [Spenders -> BudgetSteps] /\ stage'[u] = "check"
          /\ \A v \in Spenders : v # u => stage'[v] = stage[v]
      BY <1>t, <2>1, StageChange DEF BudgetSteps
    <2>3. ASSUME NEW t \in BudgetTasks PROVE Cardinality(Allowed(t)') = Cardinality(Allowed(t))
      <3>1. u \notin Allowed(t)
        BY <2>1 DEF Allowed
      <3>2. Cardinality(Allowed(t)) \in Nat
        BY FiniteRequests DEF Allowed, RequestsFor
      <3>3. Cardinality(Allowed(t)') =
              Cardinality(Allowed(t)) + (IF "check" = "request" /\ TaskFor[u] = t THEN 1 ELSE 0)
                                      - (IF u \in Allowed(t) THEN 1 ELSE 0)
        BY <1>t, <2>1, CountsChange DEF BudgetSteps
      <3> QED
        BY <3>1, <3>2, <3>3
    <2>4. ASSUME NEW t \in BudgetTasks, ~loadFailed
          PROVE  Committed(t)' + Cardinality(Allowed(t)') <= TaskBudget + Cardinality(RequestsFor(t))
      BY <1>3, <2>3, <2>4, TwoKeys DEF BudgetInv, UsageKeys
    <2>5. CASE loaded /\ UNCHANGED <<counters, loaded, loadFailed>>
      <3>1. BudgetTypeOK'
        BY <1>t, <1>u, <2>2, <2>5 DEF BudgetTypeOK
      <3> QED
        BY <1>u, <1>3, <2>2, <2>4, <2>5, <3>1 DEF BudgetInv, RequestsFor
    <2>6. CASE /\ ~loaded /\ loaded' = TRUE /\ loadFailed' = loadFailed
               /\ counters' = [k \in UsageKeys |-> IF store[k] > 0 THEN store[k] ELSE counters[k]]
      <3>1. ASSUME NEW k \in UsageKeys
            PROVE  counters'[k] \in Nat /\ counters'[k] <= spent[k] /\ counters'[k] >= store[k]
        BY <2>6, BudgetNumbers
      <3>2. ASSUME ~loadFailed, NEW k \in UsageKeys PROVE Committed(k) = store[k]
        <4>1. Owing(k) = {}
          BY <2>6, <3>2 DEF BudgetInv, Owing
        <4> QED
          BY <4>1, FS_EmptySet, BudgetNumbers DEF Committed
      <3>3. BudgetTypeOK'
        <4>1. counters' \in [UsageKeys -> Nat] /\ loaded' \in BOOLEAN /\ loadFailed' \in BOOLEAN
          BY <1>b, <2>6, <3>1
        <4>2. /\ store' \in [UsageKeys -> Nat] /\ lost' \in [UsageKeys -> Nat]
              /\ spent' \in [UsageKeys -> 0 .. MaxUsage] /\ crashes' \in 0 .. MaxCrashes
          BY <1>t, <1>u DEF BudgetTypeOK
        <4> QED
          BY <1>u, <1>3, <2>2, <3>1, <4>1, <4>2, BudgetNumbers, BudgetBounded
      <3> QED
        BY <1>u, <1>3, <2>4, <2>6, <3>1, <3>2, <3>3 DEF BudgetInv, RequestsFor
    <2>7. CASE ~loaded /\ loadFailed' = TRUE /\ UNCHANGED <<counters, loaded>>
      <3>1. BudgetTypeOK'
        <4>1. loadFailed' \in BOOLEAN
          BY <2>7, Zenon
        <4> QED
          BY <1>t, <1>u, <2>2, <2>7, <4>1 DEF BudgetTypeOK
      <3> QED
        BY <1>u, <1>3, <2>7, <3>1 DEF BudgetInv
    <2> QED
      BY <1>4, <2>5, <2>6, <2>7 DEF EnsureLoaded
  <1>5. CASE CheckBudget(u) \/ RequestFails(u)
    <2>1. /\ stage[u] \in { "check", "request" } /\ UNCHANGED <<counters, loaded, loadFailed>>
          /\ x = "request" => stage[u] = "check" /\ counters[TaskFor[u]] <= TaskBudget
      <3>1. CASE RequestFails(u)
        <4>1. stage'[u] = "idle" /\ stage'[u] = x
          BY <1>t, <1>1, <3>1 DEF RequestFails, BudgetTypeOK
        <4> QED
          BY <3>1, <4>1 DEF RequestFails
      <3>2. CASE CheckBudget(u)
        <4>1. stage'[u] = x
          BY <1>t, <1>1 DEF BudgetTypeOK
        <4>2. counters[TaskFor[u]] \in Nat /\ TaskBudget \in Nat
          BY <1>t, TwoKeys, BudgetNumbers, BudgetAssumption
        <4>3. PICK est \in { 0, 1 } :
                  stage'[u] = IF counters[TaskFor[u]] + est > TaskBudget THEN "idle" ELSE "request"
          BY <1>t, <3>2 DEF CheckBudget, BudgetTypeOK
        <4> QED
          BY <3>2, <4>1, <4>2, <4>3 DEF CheckBudget
      <3> QED
        BY <1>5, <3>1, <3>2
    <2>2. /\ stage' \in [Spenders -> BudgetSteps] /\ stage'[u] = x
          /\ \A v \in Spenders : v # u => stage'[v] = stage[v]
      BY <1>t, <1>1, <1>x, StageChange
    <2>3. BudgetTypeOK'
      BY <1>t, <1>u, <2>1, <2>2 DEF BudgetTypeOK
    <2>4. ~loadFailed => \A v \in Spenders : stage'[v] # "idle" => loaded
      BY <2>1, <2>2 DEF BudgetInv
    <2>5. ASSUME NEW t \in BudgetTasks, ~loadFailed
          PROVE  Committed(t)' + Cardinality(Allowed(t)') <= TaskBudget + Cardinality(RequestsFor(t))
      <3>n. /\ Cardinality(Allowed(t)) \in Nat /\ Cardinality(RequestsFor(t)) \in Nat
            /\ Cardinality(Allowed(t)') <= Cardinality(RequestsFor(t))
            /\ Cardinality(Allowed(t)') =
                  Cardinality(Allowed(t)) + (IF x = "request" /\ TaskFor[u] = t THEN 1 ELSE 0)
                                          - (IF u \in Allowed(t) THEN 1 ELSE 0)
        BY <1>t, <1>1, <1>x, CountsChange
      <3>c. t \in UsageKeys /\ Committed(t) \in Nat /\ TaskBudget \in Nat
        BY TwoKeys, BudgetNumbers, BudgetAssumption DEF Committed, UsageKeys
      <3>1. CASE x = "request" /\ TaskFor[u] = t
        <4>1. counters[t] >= Committed(t) /\ counters[t] <= TaskBudget /\ counters[t] \in Nat
          BY <2>1, <2>5, <3>1, <3>c, BudgetNumbers DEF BudgetInv
        <4> QED
          BY <1>3, <3>n, <3>c, <4>1
      <3>2. CASE ~(x = "request" /\ TaskFor[u] = t)
        <4>1. Committed(t) + Cardinality(Allowed(t)) <= TaskBudget + Cardinality(RequestsFor(t))
          BY <2>5 DEF BudgetInv
        <4>2. Cardinality(Allowed(t)') <= Cardinality(Allowed(t))
          BY <3>n, <3>2
        <4> QED
          BY <1>3, <3>n, <3>c, <4>1, <4>2
      <3> QED
        BY <3>1, <3>2
    <2> QED
      BY <1>u, <1>3, <2>1, <2>3, <2>4, <2>5 DEF BudgetInv, RequestsFor
  <1> QED
    BY <1>4, <1>5

\* RecordCost's lock section: a request allowed becomes a cost owed
\* (budget.go:181-197).
LEMMA RecordStep ==
    ASSUME BudgetInv, NEW u \in Spenders, RecordCost(u)
    PROVE  BudgetInv'
  <1>t. BudgetTypeOK
    BY DEF BudgetInv
  <1>1. /\ stage[u] = "request" /\ stage' = [stage EXCEPT ![u] = "org"]
        /\ \A k \in KeysOf(u) : spent[k] < MaxUsage
        /\ counters' = AddOne(counters, KeysOf(u)) /\ spent' = AddOne(spent, KeysOf(u))
        /\ UNCHANGED <<loaded, loadFailed, store, crashes, lost>>
    BY DEF RecordCost
  <1>2. /\ stage' \in [Spenders -> BudgetSteps] /\ stage'[u] = "org"
        /\ \A v \in Spenders : v # u => stage'[v] = stage[v]
    BY <1>t, <1>1, StageChange DEF BudgetSteps
  <1>3. ASSUME NEW k \in UsageKeys
        PROVE  /\ Cardinality(Owing(k)') = Cardinality(Owing(k)) + (IF k \in KeysOf(u) THEN 1 ELSE 0)
               /\ counters'[k] = counters[k] + (IF k \in KeysOf(u) THEN 1 ELSE 0)
               /\ spent'[k] = spent[k] + (IF k \in KeysOf(u) THEN 1 ELSE 0)
               /\ spent'[k] \in 0 .. MaxUsage
               /\ Committed(k)' = Committed(k) + (IF k \in KeysOf(u) THEN 1 ELSE 0)
    <2>1. u \notin Owing(k)
      BY <1>1 DEF Owing
    <2>2. /\ Cardinality(Owing(k)) \in Nat
          /\ Cardinality(Owing(k)') = Cardinality(Owing(k))
                + (IF ("org" = "org" /\ k \in KeysOf(u)) \/ ("org" = "task" /\ k = TaskFor[u]) THEN 1 ELSE 0)
                - (IF u \in Owing(k) THEN 1 ELSE 0)
      BY <1>t, <1>1, CountsChange DEF BudgetSteps
    <2>3. /\ counters[k] \in Nat /\ spent[k] \in 0 .. MaxUsage /\ store[k] \in Nat /\ MaxUsage \in Nat
      BY BudgetNumbers
    <2>4. /\ counters'[k] = counters[k] + (IF k \in KeysOf(u) THEN 1 ELSE 0)
          /\ spent'[k] = spent[k] + (IF k \in KeysOf(u) THEN 1 ELSE 0)
      BY <1>1, <2>3 DEF AddOne
    <2>5. spent'[k] \in 0 .. MaxUsage
      BY <1>1, <2>3, <2>4
    <2>6. Cardinality(Owing(k)') = Cardinality(Owing(k)) + (IF k \in KeysOf(u) THEN 1 ELSE 0)
      BY <2>1, <2>2
    <2> QED
      BY <1>1, <2>2, <2>3, <2>4, <2>5, <2>6 DEF Committed
  <1>4. BudgetTypeOK'
    <2>1. spent' \in [UsageKeys -> 0 .. MaxUsage]
      BY <1>1, <1>3 DEF AddOne
    <2>2. counters' \in [UsageKeys -> Nat]
      BY <1>1, <1>3, BudgetNumbers DEF AddOne
    <2>3. /\ store' \in [UsageKeys -> Nat] /\ lost' \in [UsageKeys -> Nat]
          /\ loaded' \in BOOLEAN /\ loadFailed' \in BOOLEAN /\ crashes' \in 0 .. MaxCrashes
      BY <1>t, <1>1 DEF BudgetTypeOK
    <2>4. ASSUME NEW k \in UsageKeys
          PROVE  /\ Cardinality(Owing(k)') \in Nat
                 /\ store'[k] + Cardinality(Owing(k)') + lost'[k] = spent'[k]
                 /\ counters'[k] <= spent'[k]
      BY <1>1, <1>3, BudgetNumbers
    <2> QED
      BY <1>2, <2>1, <2>2, <2>3, <2>4, BudgetBounded
  <1>5. ASSUME NEW k \in UsageKeys
        PROVE  Committed(k)' + lost'[k] = spent'[k] /\ counters'[k] <= spent'[k]
    BY <1>1, <1>3, BudgetNumbers DEF Committed
  <1>6. ~loadFailed => \A v \in Spenders : stage'[v] # "idle" => loaded
    BY <1>1, <1>2 DEF BudgetInv
  <1>7. ASSUME ~loadFailed, loaded, NEW k \in UsageKeys PROVE counters'[k] >= Committed(k)'
    <2>1. counters[k] >= Committed(k) /\ counters[k] \in Nat /\ Committed(k) \in Nat
      BY <1>7, BudgetNumbers DEF BudgetInv, Committed
    <2> QED
      BY <1>3, <2>1
  <1>8. ASSUME NEW t \in BudgetTasks, ~loadFailed
        PROVE  Committed(t)' + Cardinality(Allowed(t)') <= TaskBudget + Cardinality(RequestsFor(t))
    <2>n. /\ Cardinality(Allowed(t)) \in Nat /\ Cardinality(RequestsFor(t)) \in Nat
          /\ Cardinality(Allowed(t)') =
                Cardinality(Allowed(t)) + (IF "org" = "request" /\ TaskFor[u] = t THEN 1 ELSE 0)
                                        - (IF u \in Allowed(t) THEN 1 ELSE 0)
      BY <1>t, <1>1, CountsChange DEF BudgetSteps
    <2>c. t \in UsageKeys /\ t # OrgKey /\ Committed(t) \in Nat /\ TaskBudget \in Nat
      BY TwoKeys, BudgetNumbers, BudgetAssumption DEF Committed, UsageKeys
    <2>1. Committed(t) + Cardinality(Allowed(t)) <= TaskBudget + Cardinality(RequestsFor(t))
      BY <1>8 DEF BudgetInv
    <2>2. t \in KeysOf(u) <=> u \in Allowed(t)
      BY <1>1, <2>c DEF KeysOf, Allowed, RequestsFor
    <2>3. Committed(t)' = Committed(t) + (IF t \in KeysOf(u) THEN 1 ELSE 0)
      BY <1>3, <2>c
    <2> QED
      BY <2>n, <2>c, <2>1, <2>2, <2>3
  <1> QED
    BY <1>1, <1>4, <1>5, <1>6, <1>7, <1>8 DEF BudgetInv, RequestsFor

\* A turn of RecordCost's loop: the cost owed is in the table, or lost
\* (budget.go:198-212).
LEMMA PersistStep ==
    ASSUME BudgetInv, NEW u \in Spenders, PersistOrg(u) \/ PersistTask(u)
    PROVE  BudgetInv'
  <1>t. BudgetTypeOK
    BY DEF BudgetInv
  <1>1. PICK key \in UsageKeys, x \in { "task", "idle" } :
            /\ \/ stage[u] = "org" /\ key = OrgKey /\ x = "task"
               \/ stage[u] = "task" /\ key = TaskFor[u] /\ x = "idle"
            /\ stage' = [stage EXCEPT ![u] = x]
            /\ \/ store' = AddOne(store, { key }) /\ lost' = lost
               \/ lost' = AddOne(lost, { key }) /\ store' = store
            /\ UNCHANGED <<counters, loaded, loadFailed, crashes, spent>>
    BY TwoKeys DEF PersistOrg, PersistTask, Persist
  <1>x. x \in BudgetSteps
    BY DEF BudgetSteps
  <1>2. /\ stage' \in [Spenders -> BudgetSteps] /\ stage'[u] = x
        /\ \A v \in Spenders : v # u => stage'[v] = stage[v]
    BY <1>t, <1>1, <1>x, StageChange
  <1>3. ASSUME NEW k \in UsageKeys
        PROVE  /\ Cardinality(Owing(k)') \in Nat
               /\ Cardinality(Owing(k)') = Cardinality(Owing(k)) - (IF k = key THEN 1 ELSE 0)
               /\ store'[k] \in Nat /\ lost'[k] \in Nat
               /\ store'[k] + lost'[k] = store[k] + lost[k] + (IF k = key THEN 1 ELSE 0)
               /\ lost'[k] >= lost[k]
    <2>1. u \in Owing(k) <=> (stage[u] = "org" /\ k \in KeysOf(u)) \/ (stage[u] = "task" /\ k = TaskFor[u])
      BY DEF Owing
    <2>2. /\ Cardinality(Owing(k)) \in Nat
          /\ Cardinality(Owing(k)') = Cardinality(Owing(k))
                + (IF (x = "org" /\ k \in KeysOf(u)) \/ (x = "task" /\ k = TaskFor[u]) THEN 1 ELSE 0)
                - (IF u \in Owing(k) THEN 1 ELSE 0)
      BY <1>t, <1>1, <1>x, CountsChange
    <2>3. Cardinality(Owing(k)') = Cardinality(Owing(k)) - (IF k = key THEN 1 ELSE 0)
      BY <1>1, <2>1, <2>2, TwoKeys DEF KeysOf
    <2>4. Cardinality(Owing(k)') \in Nat
      <3>1. Owing(k)' \in SUBSET Spenders
        BY DEF Owing
      <3> QED
        BY <3>1, FiniteRequests
    <2>5. store[k] \in Nat /\ lost[k] \in Nat
      BY BudgetNumbers
    <2> QED
      BY <1>1, <2>3, <2>4, <2>5 DEF AddOne
  <1>4. ASSUME NEW k \in UsageKeys
        PROVE  /\ store'[k] + Cardinality(Owing(k)') + lost'[k] = spent'[k]
               /\ counters'[k] <= spent'[k] /\ Committed(k)' + lost'[k] = spent'[k]
               /\ Committed(k)' <= Committed(k)
    <2> DEFINE was == Cardinality(Owing(k))
               is == Cardinality(Owing(k)')
    <2>1. /\ store[k] \in Nat /\ lost[k] \in Nat /\ spent[k] \in Nat /\ counters[k] \in Nat
          /\ was \in Nat /\ store[k] + was + lost[k] = spent[k] /\ counters[k] <= spent[k]
      BY BudgetNumbers
    <2>2. /\ is \in Nat /\ is = was - (IF k = key THEN 1 ELSE 0)
          /\ store'[k] \in Nat /\ lost'[k] \in Nat /\ lost'[k] >= lost[k]
          /\ store'[k] + lost'[k] = store[k] + lost[k] + (IF k = key THEN 1 ELSE 0)
      BY <1>3
    <2>3. counters'[k] = counters[k] /\ spent'[k] = spent[k]
      BY <1>1
    <2>4. Committed(k) = store[k] + was /\ Committed(k)' = store'[k] + is
      BY DEF Committed
    <2> HIDE DEF was, is
    <2>5. store'[k] + is + lost'[k] = spent[k] /\ store'[k] + is <= store[k] + was
      BY <2>1, <2>2
    <2>6. is = Cardinality(Owing(k)')
      BY DEF is
    <2> QED
      BY <2>1, <2>2, <2>3, <2>4, <2>5, <2>6
  <1>5. BudgetTypeOK'
    <2>1. store' \in [UsageKeys -> Nat] /\ lost' \in [UsageKeys -> Nat]
      BY <1>t, <1>1, <1>3 DEF AddOne, BudgetTypeOK
    <2>2. /\ counters' \in [UsageKeys -> Nat] /\ spent' \in [UsageKeys -> 0 .. MaxUsage]
          /\ loaded' \in BOOLEAN /\ loadFailed' \in BOOLEAN /\ crashes' \in 0 .. MaxCrashes
      BY <1>t, <1>1 DEF BudgetTypeOK
    <2> QED
      BY <1>2, <1>3, <1>4, <2>1, <2>2, BudgetBounded
  <1>6. ~loadFailed => \A v \in Spenders : stage'[v] # "idle" => loaded
    BY <1>1, <1>2 DEF BudgetInv
  <1>7. ASSUME ~loadFailed, loaded, NEW k \in UsageKeys PROVE counters'[k] >= Committed(k)'
    <2>1. counters[k] >= Committed(k) /\ counters[k] \in Nat /\ Committed(k) \in Nat
      BY <1>7, BudgetNumbers DEF BudgetInv, Committed
    <2>2. Committed(k)' \in Nat
      BY <1>3 DEF Committed
    <2> QED
      BY <1>1, <1>4, <2>1, <2>2
  <1>8. ASSUME NEW t \in BudgetTasks, ~loadFailed
        PROVE  Committed(t)' + Cardinality(Allowed(t)') <= TaskBudget + Cardinality(RequestsFor(t))
    <2>1. Allowed(t)' = Allowed(t)
      BY <1>1, <1>2 DEF Allowed, RequestsFor
    <2>2. Cardinality(Allowed(t)) \in Nat /\ Cardinality(RequestsFor(t)) \in Nat
      BY FiniteRequests DEF Allowed, RequestsFor
    <2>c. t \in UsageKeys /\ Committed(t) \in Nat /\ Committed(t)' \in Nat /\ TaskBudget \in Nat
      BY <1>3, TwoKeys, BudgetNumbers, BudgetAssumption DEF Committed, UsageKeys
    <2>3. Committed(t) + Cardinality(Allowed(t)) <= TaskBudget + Cardinality(RequestsFor(t))
      BY <1>8 DEF BudgetInv
    <2> QED
      BY <1>4, <2>1, <2>2, <2>c, <2>3
  <1> QED
    BY <1>1, <1>4, <1>5, <1>6, <1>7, <1>8 DEF BudgetInv, RequestsFor

\* A restart loses what is owed and every request under way.
LEMMA BudgetCrashStep ==
    ASSUME BudgetInv, Crash
    PROVE  BudgetInv'
  <1>t. BudgetTypeOK
    BY DEF BudgetInv
  <1>1. /\ crashes < MaxCrashes /\ crashes' = crashes + 1
        /\ stage' = [u \in Spenders |-> "idle"] /\ counters' = [k \in UsageKeys |-> 0]
        /\ lost' = [k \in UsageKeys |-> lost[k] + Cardinality(Owing(k))]
        /\ UNCHANGED <<loadFailed, store, spent>>
    BY DEF Crash
  <1>2. ASSUME NEW k \in UsageKeys
        PROVE  Cardinality(Owing(k)') = 0 /\ Committed(k)' = store[k] /\ lost'[k] \in Nat
               /\ store'[k] + Cardinality(Owing(k)') + lost'[k] = spent'[k]
               /\ counters'[k] <= spent'[k] /\ Committed(k)' + lost'[k] = spent'[k]
    <2>1. Owing(k)' = {}
      BY <1>1 DEF Owing
    <2>2. Cardinality(Owing(k)') = 0
      BY <2>1, FS_EmptySet
    <2>3. /\ store[k] \in Nat /\ lost[k] \in Nat /\ spent[k] \in Nat
          /\ Cardinality(Owing(k)) \in Nat
          /\ store[k] + Cardinality(Owing(k)) + lost[k] = spent[k]
      BY BudgetNumbers
    <2>4. lost'[k] = lost[k] + Cardinality(Owing(k)) /\ counters'[k] = 0
      BY <1>1
    <2> QED
      BY <1>1, <2>2, <2>3, <2>4 DEF Committed
  <1>3. loaded' = FALSE /\ loaded' \in BOOLEAN
    BY Zenon DEF Crash
  <1>4. BudgetTypeOK'
    <2>1. /\ stage' \in [Spenders -> BudgetSteps] /\ counters' \in [UsageKeys -> Nat]
          /\ lost' \in [UsageKeys -> Nat]
      BY <1>1, <1>2 DEF BudgetSteps
    <2>2. /\ store' \in [UsageKeys -> Nat] /\ spent' \in [UsageKeys -> 0 .. MaxUsage]
          /\ loadFailed' \in BOOLEAN
      BY <1>t, <1>1 DEF BudgetTypeOK
    <2>3. crashes' \in 0 .. MaxCrashes
      BY <1>t, <1>1, BudgetAssumption DEF BudgetTypeOK
    <2> QED
      BY <1>2, <1>3, <2>1, <2>2, <2>3, BudgetBounded
  <1>5. ASSUME NEW t \in BudgetTasks, ~loadFailed
        PROVE  Committed(t)' + Cardinality(Allowed(t)') <= TaskBudget + Cardinality(RequestsFor(t))
    <2>1. Allowed(t)' = {}
      BY <1>1 DEF Allowed, RequestsFor
    <2>2. Cardinality(Allowed(t)') = 0
      BY <2>1, FS_EmptySet
    <2>3. Cardinality(Allowed(t)) \in Nat /\ Cardinality(RequestsFor(t)) \in Nat
      BY FiniteRequests DEF Allowed, RequestsFor
    <2>c. t \in UsageKeys /\ store[t] \in Nat /\ Cardinality(Owing(t)) \in Nat /\ TaskBudget \in Nat
      BY TwoKeys, BudgetNumbers, BudgetAssumption DEF UsageKeys
    <2>4. store[t] + Cardinality(Owing(t)) + Cardinality(Allowed(t)) <= TaskBudget + Cardinality(RequestsFor(t))
      BY <1>5 DEF BudgetInv, Committed
    <2> QED
      BY <1>2, <2>2, <2>3, <2>c, <2>4
  <1>6. \A v \in Spenders : stage'[v] = "idle"
    BY <1>1
  <1> QED
    BY <1>1, <1>2, <1>3, <1>4, <1>5, <1>6 DEF BudgetInv, RequestsFor

\* The books are in order throughout (budget.go:13-212).
THEOREM BudgetInvariant == BudgetSpec => []BudgetInv
  <1>1. BudgetInv /\ [BudgetNext]_budgetVars => BudgetInv'
    <2> SUFFICES ASSUME BudgetInv, [BudgetNext]_budgetVars PROVE BudgetInv'
      OBVIOUS
    <2>1. CASE UNCHANGED budgetVars
      BY <2>1
      DEF budgetVars, BudgetInv, BudgetTypeOK, Committed, Owing, Allowed, RequestsFor
    <2> QED
      BY <2>1, CheckStep, RecordStep, PersistStep, BudgetCrashStep DEF BudgetNext
  <1> QED
    BY BudgetInitInv, <1>1, PTL DEF BudgetSpec

(***************************************************************************)
(* budget.go:13-212.  For any number of requests, tasks, restarts and      *)
(* failing statements: every unit spent is in the table, on its way there  *)
(* or lost, once; loaded memory never knows less than the table; and while *)
(* loads succeed a task overspends by at most one response for each of its *)
(* concurrent requests and what never reached the table.                   *)
(***************************************************************************)
THEOREM BudgetAlwaysConsistent == BudgetSpec => []BudgetConsistent
  <1>1. BudgetInv => BudgetConsistent
    <2> SUFFICES ASSUME BudgetInv PROVE BudgetConsistent
      OBVIOUS
    <2>1. SpendAccounted /\ MemoryCoversStore
      BY DEF BudgetInv, Committed, SpendAccounted, MemoryCoversStore
    <2>2. ASSUME ~loadFailed, NEW t \in BudgetTasks
          PROVE  spent[t] <= TaskBudget + Cardinality(RequestsFor(t)) + lost[t]
      <3>1. t \in UsageKeys
        BY DEF UsageKeys
      <3>2. /\ store[t] \in Nat /\ lost[t] \in Nat /\ Cardinality(Owing(t)) \in Nat
            /\ store[t] + Cardinality(Owing(t)) + lost[t] = spent[t]
        BY <3>1, BudgetNumbers
      <3>3. /\ Cardinality(Allowed(t)) \in Nat /\ Cardinality(RequestsFor(t)) \in Nat
        BY FiniteRequests DEF Allowed, RequestsFor
      <3>4. store[t] + Cardinality(Owing(t)) + Cardinality(Allowed(t)) <= TaskBudget + Cardinality(RequestsFor(t))
        BY <2>2 DEF BudgetInv, Committed
      <3> QED
        BY <3>2, <3>3, <3>4, BudgetAssumption
    <2>3. RestartKeepsBudget
      BY <2>2 DEF RestartKeepsBudget, RequestsFor
    <2> QED
      BY <2>1, <2>3 DEF BudgetConsistent, BudgetInv
  <1> QED
    BY BudgetInvariant, <1>1, PTL
--------------------------------------------------------------------------------
(* The failover loop *)

\* Inside an attempt, and past its budget check.
Attempting == { "cache", "budget", "chat", "record", "enter", "exit", "charge" }
Spending == { "chat", "record", "enter", "exit", "charge" }

\* The calls for task t, and those of them that may still be charged.
CallsFor(t) == { c \in Calls : TaskOf[c] = t }
Paying(t) == { c \in CallsFor(t) : pc[c] \in Spending }

\* The providers of the attempts in q.
Ahead(q) == { ProviderOf[q[i].model] : i \in 1 .. Len(q) }

(***************************************************************************)
(* TriesEveryProvider is not inductive: in the second loop every provider  *)
(* was attempted or is still ahead.  Nor is OvershootBounded: a call past  *)
(* its check may still add MaxCost.                                        *)
(***************************************************************************)
CallInv(c) ==
    /\ pc[c] \in Attempting => queue[c] # <<>>
    /\ lastResort[c] => pc[c] # "idle" /\ Priced \subseteq tried[c] \cup Ahead(queue[c])
    /\ pc[c] = "failed" => Priced \subseteq tried[c]

Exposure(t) ==
    usage[t] + MaxCost * Cardinality(Paying(t)) <= Budget + MaxCost * Cardinality(CallsFor(t))

RouterInv ==
    /\ RouterTypeOK
    /\ \A c \in Calls : CallInv(c)
    /\ \A t \in Tasks : Exposure(t)

\* Every set of calls is finite.
LEMMA FiniteCalls ==
    ASSUME NEW S \in SUBSET Calls
    PROVE  IsFiniteSet(S) /\ Cardinality(S) \in Nat
  BY RouterAssumption, FS_Subset, FS_CardinalityType

\* The step of a product.
LEMMA Products ==
    ASSUME NEW m \in Nat, NEW a \in Nat, NEW b \in Nat
    PROVE  m * a \in Nat /\ (a <= b => m * a <= m * b) /\ m * (a + 1) = m * a + m
  OBVIOUS

\* The attempts ahead are the current one and those behind it.
LEMMA AheadSplits ==
    ASSUME NEW q \in Seq(Candidates), q # <<>>
    PROVE  /\ Head(q) \in Candidates /\ Tail(q) \in Seq(Candidates) /\ Len(Tail(q)) = Len(q) - 1
           /\ Ahead(q) = { ProviderOf[Head(q).model] } \cup Ahead(Tail(q))
           /\ ProviderOf[Head(q).model] \in Providers
  <1>1. /\ Head(q) \in Candidates /\ Tail(q) \in Seq(Candidates) /\ Len(Tail(q)) = Len(q) - 1
        /\ \A i \in 1 .. Len(Tail(q)) : Tail(q)[i] = q[i + 1]
    BY HeadTailProperties
  <1>2. Head(q) = q[1] /\ Len(q) \in Nat /\ Len(q) > 0
    OBVIOUS
  <1>3. \A x : x \in Ahead(q) <=> x \in { ProviderOf[Head(q).model] } \cup Ahead(Tail(q))
    <2> TAKE x
    <2>1. ASSUME x \in Ahead(q) PROVE x \in { ProviderOf[Head(q).model] } \cup Ahead(Tail(q))
      <3>1. PICK i \in 1 .. Len(q) : x = ProviderOf[q[i].model]
        BY <2>1 DEF Ahead
      <3>2. CASE i = 1
        BY <3>1, <3>2, <1>2
      <3>3. CASE i # 1
        <4>1. i - 1 \in 1 .. Len(Tail(q)) /\ Tail(q)[i - 1] = q[i]
          BY <3>3, <1>1, <1>2
        <4> QED
          BY <4>1, <3>1 DEF Ahead
      <3> QED
        BY <3>2, <3>3
    <2>2. ASSUME x \in Ahead(Tail(q)) PROVE x \in Ahead(q)
      <3>1. PICK i \in 1 .. Len(Tail(q)) : x = ProviderOf[Tail(q)[i].model]
        BY <2>2 DEF Ahead
      <3>2. i + 1 \in 1 .. Len(q) /\ Tail(q)[i] = q[i + 1]
        BY <1>1, <1>2
      <3> QED
        BY <3>1, <3>2 DEF Ahead
    <2>3. ProviderOf[Head(q).model] \in Ahead(q)
      BY <1>2 DEF Ahead
    <2> QED
      BY <2>1, <2>2, <2>3
  <1>4. ProviderOf[Head(q).model] \in Providers
    BY <1>1, RouterAssumption DEF Candidates
  <1> QED
    BY <1>1, <1>3, <1>4

\* An ordering of a finite set is a sequence that holds each element.
LEMMA OrderingCovers ==
    ASSUME NEW S, IsFiniteSet(S), NEW f \in SetToSeqs(S)
    PROVE  /\ f \in Seq(S) /\ Len(f) = Cardinality(S) /\ DOMAIN f = 1 .. Cardinality(S)
           /\ \A x \in S : \E i \in DOMAIN f : f[i] = x
  <1> DEFINE D == 1 .. Cardinality(S)
  <1>1. Cardinality(S) \in Nat
    BY FS_CardinalityType
  <1>2. f \in [D -> S] /\ \A i, j \in D : i # j => f[i] # f[j]
    BY DEF SetToSeqs
  <1>3. Cardinality(D) = Cardinality(S)
    BY <1>1, FS_Interval
  <1>4. f \in Injection(D, S)
    BY <1>2 DEF Injection, IsInjective
  <1>5. f \in Surjection(D, S)
    BY <1>3, <1>4, FS_Injection
  <1>6. \A x \in S : \E i \in D : f[i] = x
    BY <1>5 DEF Surjection
  <1> QED
    BY <1>1, <1>2, <1>6

\* What sort.Slice leaves is a list of candidates.
LEMMA RankingTyping ==
    ASSUME NEW list \in Seq(Models), NEW r \in Rankings(list)
    PROVE  FirstFour(r) \in Seq(Candidates)
  <1>1. PICK p \in SetToSeqs(Viable(list)) : r = [i \in DOMAIN p |-> Candidate(list[p[i]])]
    BY DEF Rankings
  <1>2. Viable(list) \subseteq 1 .. Len(list) /\ Len(list) \in Nat
    BY DEF Viable
  <1>3. IsFiniteSet(Viable(list))
    <2>1. IsFiniteSet(1 .. Len(list))
      BY <1>2, FS_Interval
    <2> QED
      BY <1>2, <2>1, FS_Subset
  <1>4. p \in Seq(Viable(list)) /\ DOMAIN p = 1 .. Len(p) /\ Len(p) \in Nat
    BY <1>3, OrderingCovers
  <1>5. \A i \in 1 .. Len(p) : r[i] \in Candidates
    <2> TAKE i \in 1 .. Len(p)
    <2>1. list[p[i]] \in Models
      BY <1>2, <1>4
    <2>2. Candidate(list[p[i]]) \in Candidates
      BY <2>1, RouterAssumption DEF Candidate, Candidates
    <2> QED
      BY <1>1, <1>4, <2>2
  <1>6. r \in Seq(Candidates)
    BY <1>1, <1>4, <1>5
  <1> QED
    BY <1>6 DEF FirstFour

\* Nothing under way, nothing spent.
LEMMA RouterInitInv == RouterInit => RouterInv
  <1> SUFFICES ASSUME RouterInit PROVE RouterInv
    OBVIOUS
  <1>1. NewBreaker \in Breakers
    BY ThresholdAssumption DEF NewBreaker, Breakers
  <1>2. /\ lastResort \in [Calls -> BOOLEAN] /\ chatOK \in [Calls -> BOOLEAN]
        /\ cooled \in [Providers -> BOOLEAN] /\ breaker \in [Providers -> Breakers]
    BY <1>1, Zenon DEF RouterInit
  <1>3. queue \in [Calls -> Seq(Candidates)]
    BY DEF RouterInit
  <1>4. RouterTypeOK
    BY <1>2, <1>3 DEF RouterInit, RouterTypeOK, Steps
  <1>5. ASSUME NEW c \in Calls PROVE CallInv(c)
    BY DEF RouterInit, CallInv, Attempting
  <1>6. ASSUME NEW t \in Tasks PROVE Exposure(t)
    <2>1. Paying(t) = {}
      BY DEF RouterInit, Paying, CallsFor, Spending
    <2>2. Cardinality(Paying(t)) = 0 /\ Cardinality(CallsFor(t)) \in Nat
      BY <2>1, FS_EmptySet, FiniteCalls DEF CallsFor
    <2>3. usage[t] = 0 /\ MaxCost \in Nat /\ Budget \in Nat
      BY RouterAssumption DEF RouterInit
    <2>4. MaxCost * Cardinality(CallsFor(t)) \in Nat /\ MaxCost * 0 = 0
      BY <2>2, <2>3, Products
    <2> QED
      BY <2>2, <2>3, <2>4 DEF Exposure
  <1> QED
    BY <1>4, <1>5, <1>6 DEF RouterInv

\* A call at x no longer pays, or pays as it did: no exposure grows.
LEMMA ExposureKept ==
    ASSUME RouterInv, NEW c \in Calls, NEW x \in Steps, pc' = [pc EXCEPT ![c] = x],
           x \in Spending => pc[c] \in Spending,
           UNCHANGED usage, NEW t \in Tasks
    PROVE  Exposure(t)'
  <1>1. Paying(t)' \subseteq Paying(t) /\ Paying(t) \subseteq Calls /\ CallsFor(t)' = CallsFor(t)
    BY DEF RouterInv, RouterTypeOK, Paying, CallsFor
  <1> DEFINE is == Cardinality(Paying(t)')
             was == Cardinality(Paying(t))
             all == Cardinality(CallsFor(t))
  <1>2. is \in Nat /\ was \in Nat /\ all \in Nat /\ is <= was
    BY <1>1, FiniteCalls, FS_Subset DEF CallsFor
  <1>3. usage[t] \in Nat /\ usage'[t] = usage[t] /\ MaxCost \in Nat /\ Budget \in Nat
    BY RouterAssumption DEF RouterInv, RouterTypeOK
  <1>4. usage[t] + MaxCost * was <= Budget + MaxCost * all
    BY DEF RouterInv, Exposure
  <1>5. Exposure(t)' <=> usage'[t] + MaxCost * is <= Budget + MaxCost * all
    BY <1>1 DEF Exposure
  <1> HIDE DEF is, was, all
  <1>6. MaxCost * is <= MaxCost * was /\ MaxCost * is \in Nat /\ MaxCost * was \in Nat
        /\ MaxCost * all \in Nat
    BY <1>2, <1>3, Products
  <1> QED
    BY <1>3, <1>4, <1>5, <1>6

\* The current attempt of a call inside one.
LEMMA CurrentAttempt ==
    ASSUME RouterInv, NEW c \in Calls, queue[c] # <<>>
    PROVE  /\ queue[c] \in Seq(Candidates) /\ Current(c) \in Candidates
           /\ Current(c).model \in Models /\ Current(c).est \in Nat
           /\ ProviderNow(c) \in Providers
           /\ Tail(queue[c]) \in Seq(Candidates) /\ Len(Tail(queue[c])) = Len(queue[c]) - 1
           /\ Ahead(queue[c]) = { ProviderNow(c) } \cup Ahead(Tail(queue[c]))
  <1>1. queue[c] \in Seq(Candidates)
    BY DEF RouterInv, RouterTypeOK
  <1> QED
    BY <1>1, AheadSplits DEF Current, ProviderNow, Candidates

\* What a call keeps of its own when another one moves.
LEMMA OtherCalls ==
    ASSUME RouterInv, NEW c \in Calls, NEW d \in Calls, d # c,
           NEW x, pc' = [pc EXCEPT ![c] = x],
           NEW q, queue' = [queue EXCEPT ![c] = q],
           NEW y, tried' = [tried EXCEPT ![c] = y],
           NEW z, lastResort' = [lastResort EXCEPT ![c] = z]
    PROVE  CallInv(d)'
  BY DEF RouterInv, RouterTypeOK, CallInv, Priced

\* A failed attempt: its provider was attempted, the rest is still ahead
\* (provider.go:519-532).
LEMMA NextAttemptStep ==
    ASSUME RouterInv, NEW c \in Calls, queue[c] # <<>>, NextAttempt(c), UNCHANGED usage
    PROVE  /\ pc' \in [Calls -> Steps] /\ queue' \in [Calls -> Seq(Candidates)]
           /\ tried' \in [Calls -> SUBSET Providers] /\ lastResort' = lastResort
           /\ \A d \in Calls : CallInv(d)'
           /\ \A t \in Tasks : Exposure(t)'
  <1>1. /\ pc' = [pc EXCEPT ![c] = "gate"]
        /\ queue' = [queue EXCEPT ![c] = Tail(queue[c])]
        /\ tried' = [tried EXCEPT ![c] = tried[c] \cup { ProviderNow(c) }]
        /\ lastResort' = [lastResort EXCEPT ![c] = lastResort[c]]
        /\ lastResort' = lastResort
    BY DEF NextAttempt, RouterInv, RouterTypeOK
  <1>2. "gate" \in Steps /\ "gate" \notin Spending /\ "gate" \notin Attempting
    BY DEF Steps, Spending, Attempting
  <1>3. /\ Tail(queue[c]) \in Seq(Candidates) /\ ProviderNow(c) \in Providers
        /\ Ahead(queue[c]) = { ProviderNow(c) } \cup Ahead(Tail(queue[c]))
    BY CurrentAttempt
  <1>4. /\ pc' \in [Calls -> Steps] /\ queue' \in [Calls -> Seq(Candidates)]
        /\ tried' \in [Calls -> SUBSET Providers]
    BY <1>1, <1>2, <1>3 DEF RouterInv, RouterTypeOK
  <1>5. CallInv(c)'
    <2>1. /\ pc'[c] = "gate" /\ queue'[c] = Tail(queue[c]) /\ lastResort'[c] = lastResort[c]
          /\ tried'[c] = tried[c] \cup { ProviderNow(c) }
      BY <1>1 DEF RouterInv, RouterTypeOK
    <2>2. lastResort[c] => Priced \subseteq tried[c] \cup Ahead(queue[c])
      BY DEF RouterInv, CallInv
    <2>3. Ahead(queue[c])' = Ahead(Tail(queue[c])) /\ Priced' = Priced
      BY <2>1 DEF Ahead, Priced
    <2>4. lastResort'[c] => Priced \subseteq tried'[c] \cup Ahead(Tail(queue[c]))
      BY <1>3, <2>1, <2>2
    <2> QED
      BY <1>2, <2>1, <2>3, <2>4 DEF CallInv
  <1>6. \A d \in Calls : CallInv(d)'
    BY <1>1, <1>5, OtherCalls
  <1>7. \A t \in Tasks : Exposure(t)'
    BY <1>1, <1>2, ExposureKept
  <1> QED
    BY <1>1, <1>4, <1>6, <1>7

\* An attempt goes on to its next part, or the call returns an answer.
LEMMA AdvanceStep ==
    ASSUME RouterInv, NEW c \in Calls,
           NEW x \in Attempting \cup { "served" }, queue[c] # <<>>, pc[c] # "idle",
           pc' = [pc EXCEPT ![c] = x], UNCHANGED <<queue, tried, lastResort>>
    PROVE  pc' \in [Calls -> Steps] /\ \A d \in Calls : CallInv(d)'
  <1>1. x \in Steps /\ x # "failed" /\ x # "idle"
    BY DEF Steps, Attempting
  <1>2. pc' \in [Calls -> Steps] /\ pc'[c] = x /\ \A d \in Calls : d # c => pc'[d] = pc[d]
    BY <1>1 DEF RouterInv, RouterTypeOK
  <1> QED
    BY <1>1, <1>2 DEF RouterInv, CallInv, Priced

\* The critical sections of a provider's breaker keep it one.
LEMMA BreakerSections ==
    ASSUME NEW b \in Breakers
    PROVE  Admitted(b) \in Breakers /\ Failed(b) \in Breakers /\ Succeeded(b) \in Breakers
  <1>1. Count(b.failCount) \in 0 .. MaxFails
    BY ThresholdAssumption DEF Count, Breakers
  <1> QED
    BY <1>1, ThresholdAssumption
    DEF Admitted, Failed, Succeeded, ResetBreaker, Breakers

\* Routing: the call has no last resort yet (provider.go:380-454, 506).
LEMMA RouteStep ==
    ASSUME RouterInv, NEW c \in Calls, Route(c)
    PROVE  RouterInv'
  <1>1. PICK q \in Seq(Candidates), x \in { "gate", "unroutable" } :
            pc' = [pc EXCEPT ![c] = x] /\ queue' = [queue EXCEPT ![c] = q]
    <2>1. CASE /\ \E r \in Rankings(Offered(c)) : queue' = [queue EXCEPT ![c] = FirstFour(r)]
               /\ pc' = [pc EXCEPT ![c] = "gate"]
      <3>1. Offered(c) \in Seq(Models)
        BY RouterAssumption DEF Offered
      <3> QED
        BY <2>1, <3>1, RankingTyping
    <2>2. CASE pc' = [pc EXCEPT ![c] = "unroutable"] /\ UNCHANGED queue
      <3>1. queue[c] \in Seq(Candidates) /\ queue' = [queue EXCEPT ![c] = queue[c]]
        BY <2>2 DEF RouterInv, RouterTypeOK
      <3> QED
        BY <2>2, <3>1
    <2> QED
      BY <2>1, <2>2 DEF Route
  <1>2. /\ pc[c] = "idle" /\ UNCHANGED <<tried, lastResort, refused, chatOK, sharedVars>>
    BY DEF Route
  <1>3. x \in Steps /\ x \notin Spending /\ x \notin Attempting /\ x # "failed"
    BY DEF Steps, Spending, Attempting
  <1>4. RouterTypeOK'
    BY <1>1, <1>2, <1>3 DEF RouterInv, RouterTypeOK, sharedVars
  <1>5. ASSUME NEW d \in Calls PROVE CallInv(d)'
    <2>1. CASE d = c
      BY <1>1, <1>2, <1>3, <2>1 DEF RouterInv, RouterTypeOK, CallInv
    <2>2. CASE d # c
      BY <1>1, <1>2, <2>2 DEF RouterInv, RouterTypeOK, CallInv, Priced
    <2> QED
      BY <2>1, <2>2
  <1>6. \A t \in Tasks : Exposure(t)'
    BY <1>1, <1>2, <1>3, ExposureKept DEF sharedVars
  <1> QED
    BY <1>4, <1>5, <1>6 DEF RouterInv

\* The breaker check and the cache lookup (provider.go:514-532, 569-591).
LEMMA GateStep ==
    ASSUME RouterInv, NEW c \in Calls, Gate(c) \/ Lookup(c)
    PROVE  RouterInv'
  <1>1. CASE Gate(c)
    <2>1. queue[c] # <<>> /\ pc[c] = "gate" /\ UNCHANGED <<refused, chatOK, sharedVars>>
      BY <1>1 DEF Gate
    <2>2. CASE NextAttempt(c)
      <3>1. UNCHANGED <<refused, chatOK, healthy, breaker, cooled, cached, usage>>
        BY <2>1 DEF sharedVars
      <3> QED
        BY <2>1, <2>2, <3>1, NextAttemptStep DEF RouterInv, RouterTypeOK
    <2>3. CASE pc' = [pc EXCEPT ![c] = "cache"] /\ UNCHANGED <<queue, tried, lastResort>>
      <3>1. UNCHANGED <<refused, chatOK, healthy, breaker, cooled, cached, usage>>
        BY <2>1 DEF sharedVars
      <3>2. "cache" \in Attempting /\ "cache" \in Steps /\ "cache" \notin Spending
        BY DEF Attempting, Steps, Spending
      <3>3. pc' \in [Calls -> Steps] /\ \A d \in Calls : CallInv(d)'
        BY <2>1, <2>3, <3>2, AdvanceStep
      <3>4. \A t \in Tasks : Exposure(t)'
        BY <2>3, <3>1, <3>2, ExposureKept
      <3> QED
        BY <2>3, <3>1, <3>3, <3>4 DEF RouterInv, RouterTypeOK
    <2> QED
      BY <1>1, <2>2, <2>3 DEF Gate
  <1>2. CASE Lookup(c)
    <2>1. /\ pc[c] = "cache" /\ UNCHANGED <<queue, tried, lastResort>>
          /\ UNCHANGED <<refused, chatOK, healthy, breaker, cooled, cached, usage>>
      BY <1>2 DEF Lookup, callVars, sharedVars
    <2>2. PICK x \in { "served", "budget" } : pc' = [pc EXCEPT ![c] = x]
      BY <1>2 DEF Lookup
    <2>3. x \in Attempting \cup { "served" } /\ x \in Steps /\ x \notin Spending
      BY DEF Attempting, Steps, Spending
    <2>4. queue[c] # <<>>
      BY <2>1 DEF RouterInv, CallInv, Attempting
    <2>5. pc' \in [Calls -> Steps] /\ \A d \in Calls : CallInv(d)'
      BY <2>1, <2>2, <2>3, <2>4, AdvanceStep
    <2>6. \A t \in Tasks : Exposure(t)'
      BY <2>1, <2>2, <2>3, ExposureKept
    <2> QED
      BY <2>1, <2>5, <2>6 DEF RouterInv, RouterTypeOK
  <1> QED
    BY <1>1, <1>2

\* The budget check: one more call may be charged, of those there are
\* (provider.go:593-602).
LEMMA BudgetGateStep ==
    ASSUME RouterInv, NEW c \in Calls, BudgetGate(c)
    PROVE  RouterInv'
  <1>1. pc[c] = "budget" /\ UNCHANGED <<chatOK, healthy, breaker, cooled, cached, usage>>
    BY DEF BudgetGate, sharedVars
  <1>2. queue[c] # <<>>
    BY <1>1 DEF RouterInv, CallInv, Attempting
  <1>3. CASE NextAttempt(c) /\ refused' = refused \cup { c }
    BY <1>1, <1>2, <1>3, NextAttemptStep DEF RouterInv, RouterTypeOK
  <1>4. CASE /\ usage[TaskOf[c]] + Current(c).est <= Budget
             /\ pc' = [pc EXCEPT ![c] = "chat"]
             /\ UNCHANGED <<queue, tried, lastResort, refused>>
    <2>1. "chat" \in Attempting /\ "chat" \in Steps
      BY DEF Attempting, Steps
    <2>2. pc' \in [Calls -> Steps] /\ \A d \in Calls : CallInv(d)'
      BY <1>1, <1>2, <1>4, <2>1, AdvanceStep
    <2>3. ASSUME NEW t \in Tasks PROVE Exposure(t)'
      <3>1. CallsFor(t)' = CallsFor(t) /\ Paying(t)' \subseteq CallsFor(t) /\ usage'[t] = usage[t]
        BY <1>1 DEF CallsFor, Paying
      <3> DEFINE is == Cardinality(Paying(t)')
                 was == Cardinality(Paying(t))
                 all == Cardinality(CallsFor(t))
      <3>2. is \in Nat /\ was \in Nat /\ all \in Nat /\ is <= all
        <4>1. CallsFor(t) \in SUBSET Calls /\ Paying(t) \in SUBSET Calls
          BY DEF CallsFor, Paying
        <4>2. IsFiniteSet(CallsFor(t)) /\ all \in Nat /\ was \in Nat
          BY <4>1, FiniteCalls
        <4>3. IsFiniteSet(Paying(t)') /\ is <= all
          BY <3>1, <4>2, FS_Subset
        <4> QED
          BY <4>2, <4>3, FS_CardinalityType
      <3>3. usage[t] \in Nat /\ MaxCost \in Nat /\ Budget \in Nat
        BY RouterAssumption DEF RouterInv, RouterTypeOK
      <3>4. Exposure(t)' <=> usage[t] + MaxCost * is <= Budget + MaxCost * all
        BY <3>1 DEF Exposure
      <3>5. usage[t] + MaxCost * was <= Budget + MaxCost * all
        BY DEF RouterInv, Exposure
      <3>6. CASE t = TaskOf[c]
        <4>1. usage[t] <= Budget
          BY <1>2, <1>4, <3>3, <3>6, CurrentAttempt
        <4> HIDE DEF is, was, all
        <4>2. MaxCost * is <= MaxCost * all /\ MaxCost * is \in Nat /\ MaxCost * all \in Nat
          BY <3>2, <3>3, Products
        <4> QED
          BY <3>3, <3>4, <4>1, <4>2
      <3>7. CASE t # TaskOf[c]
        <4>1. Paying(t)' = Paying(t)
          BY <1>4, <3>7 DEF Paying, CallsFor, RouterInv, RouterTypeOK
        <4> QED
          BY <3>4, <3>5, <4>1
      <3> QED
        BY <3>6, <3>7
    <2> QED
      BY <1>1, <1>4, <2>2, <2>3 DEF RouterInv, RouterTypeOK
  <1> QED
    BY <1>3, <1>4 DEF BudgetGate

\* The provider's answer and what health is told of it (provider.go:604-617).
LEMMA RequestStep ==
    ASSUME RouterInv, NEW c \in Calls, Chat(c) \/ RecordHealth(c)
    PROVE  RouterInv'
  <1>1. PICK x \in { "record", "enter" } :
            /\ pc[c] \in { "chat", "record" } /\ pc' = [pc EXCEPT ![c] = x]
            /\ UNCHANGED <<queue, tried, lastResort, refused, breaker, cooled, cached, usage>>
    BY DEF Chat, RecordHealth, callVars, sharedVars
  <1>2. queue[c] # <<>>
    BY <1>1 DEF RouterInv, CallInv, Attempting
  <1>3. chatOK' \in [Calls -> BOOLEAN] /\ healthy' \subseteq Providers
    <2>1. CASE Chat(c)
      <3>1. PICK ok \in BOOLEAN : chatOK' = [chatOK EXCEPT ![c] = ok]
        BY <2>1 DEF Chat
      <3>2. chatOK \in [Calls -> BOOLEAN] /\ healthy \subseteq Providers /\ healthy' = healthy
        BY <2>1 DEF Chat, sharedVars, RouterInv, RouterTypeOK
      <3> QED
        BY <3>1, <3>2, Zenon
    <2>2. CASE RecordHealth(c)
      <3>1. ProviderNow(c) \in Providers
        BY <1>2, CurrentAttempt
      <3> QED
        BY <2>2, <3>1 DEF RecordHealth, RecordSuccess, RecordFailure, callVars, RouterInv, RouterTypeOK
    <2> QED
      BY <2>1, <2>2
  <1>4. x \in Attempting /\ x \in Steps /\ pc[c] \in Spending /\ pc[c] # "idle"
    BY <1>1 DEF Attempting, Steps, Spending
  <1>5. pc' \in [Calls -> Steps] /\ \A d \in Calls : CallInv(d)'
    BY <1>1, <1>2, <1>4, AdvanceStep
  <1>6. \A t \in Tasks : Exposure(t)'
    BY <1>1, <1>4, ExposureKept
  <1> QED
    BY <1>1, <1>3, <1>5, <1>6 DEF RouterInv, RouterTypeOK

\* cb.Execute: the answer goes on to be charged, the error to the next attempt
\* (circuit_breaker.go:46-107).
LEMMA ExecuteStep ==
    ASSUME RouterInv, NEW c \in Calls, ExecuteEnter(c) \/ ExecuteExit(c)
    PROVE  RouterInv'
  <1> DEFINE p == ProviderNow(c)
  <1>1. /\ pc[c] \in { "enter", "exit" } /\ UNCHANGED <<refused, chatOK, healthy, cached, usage>>
    BY DEF ExecuteEnter, ExecuteExit
  <1>2. queue[c] # <<>> /\ pc[c] \in Spending /\ pc[c] # "idle"
    BY <1>1 DEF RouterInv, CallInv, Attempting, Spending
  <1>3. p \in Providers /\ breaker[p] \in Breakers
    BY <1>2, CurrentAttempt DEF RouterInv, RouterTypeOK
  <1>4. breaker' \in [Providers -> Breakers] /\ cooled' \in [Providers -> BOOLEAN]
    <2>1. breaker \in [Providers -> Breakers] /\ cooled \in [Providers -> BOOLEAN]
      BY DEF RouterInv, RouterTypeOK
    <2>2. /\ \/ UNCHANGED breaker
             \/ \E b \in Breakers : breaker' = [breaker EXCEPT ![p] = b]
          /\ \/ UNCHANGED cooled
             \/ cooled' = [cooled EXCEPT ![p] = FALSE]
      BY <1>3, BreakerSections DEF ExecuteEnter, ExecuteExit
    <2> HIDE DEF p
    <2>3. breaker' \in [Providers -> Breakers]
      BY <2>1, <2>2
    <2>4. cooled' \in [Providers -> BOOLEAN]
      BY <2>1, <2>2, Zenon
    <2> QED
      BY <2>3, <2>4
  <1>5. CASE NextAttempt(c)
    BY <1>1, <1>2, <1>4, <1>5, NextAttemptStep DEF RouterInv, RouterTypeOK
  <1>6. CASE \E x \in { "exit", "charge" } :
                pc' = [pc EXCEPT ![c] = x] /\ UNCHANGED <<queue, tried, lastResort>>
    <2>1. PICK x \in { "exit", "charge" } :
                pc' = [pc EXCEPT ![c] = x] /\ UNCHANGED <<queue, tried, lastResort>>
      BY <1>6
    <2>2. x \in Attempting /\ x \in Steps
      BY DEF Attempting, Steps
    <2>3. pc' \in [Calls -> Steps] /\ \A d \in Calls : CallInv(d)'
      BY <1>2, <2>1, <2>2, AdvanceStep
    <2>4. \A t \in Tasks : Exposure(t)'
      BY <1>1, <1>2, <2>1, <2>2, ExposureKept
    <2> QED
      BY <1>1, <1>4, <2>1, <2>3, <2>4 DEF RouterInv, RouterTypeOK
  <1> QED
    BY <1>5, <1>6 DEF ExecuteEnter, ExecuteExit, AfterExecute

\* The answer is charged: the call pays at most MaxCost and pays no more
\* (provider.go:606-617).
LEMMA ChargeStep ==
    ASSUME RouterInv, NEW c \in Calls, Charge(c)
    PROVE  RouterInv'
  <1>1. /\ pc[c] = "charge" /\ pc' = [pc EXCEPT ![c] = "served"]
        /\ cached' = cached \cup { <<Current(c).model, TaskOf[c]>> }
        /\ UNCHANGED <<queue, tried, lastResort, refused, chatOK, healthy, breaker, cooled>>
    BY DEF Charge, callVars
  <1>2. PICK cost \in Costs : usage' = [usage EXCEPT ![TaskOf[c]] = usage[TaskOf[c]] + cost]
    BY DEF Charge
  <1>3. queue[c] # <<>>
    BY <1>1 DEF RouterInv, CallInv, Attempting
  <1>4. /\ cost \in Nat /\ cost <= MaxCost /\ MaxCost \in Nat /\ Budget \in Nat
        /\ TaskOf[c] \in Tasks /\ usage \in [Tasks -> Nat]
    BY RouterAssumption DEF RouterInv, RouterTypeOK
  <1>5. cached' \subseteq Models \X Tasks /\ usage' \in [Tasks -> Nat]
    <2>1. Current(c).model \in Models /\ cached \subseteq Models \X Tasks
      BY <1>3, CurrentAttempt DEF RouterInv, RouterTypeOK
    <2> QED
      BY <1>1, <1>2, <1>4, <2>1
  <1>6. "served" \in Steps /\ "served" \notin Spending
    BY DEF Steps, Spending
  <1>7. pc' \in [Calls -> Steps] /\ \A d \in Calls : CallInv(d)'
    BY <1>1, <1>3, AdvanceStep
  <1>8. ASSUME NEW t \in Tasks PROVE Exposure(t)'
    <2>1. /\ CallsFor(t)' = CallsFor(t) /\ Paying(t) \in SUBSET Calls /\ CallsFor(t) \in SUBSET Calls
          /\ Paying(t)' = Paying(t) \ { c }
      BY <1>1, <1>6 DEF CallsFor, Paying, RouterInv, RouterTypeOK
    <2> DEFINE is == Cardinality(Paying(t)')
               was == Cardinality(Paying(t))
               all == Cardinality(CallsFor(t))
    <2>2. was \in Nat /\ all \in Nat /\ is \in Nat
      <3>1. Paying(t)' \in SUBSET Calls
        BY <2>1
      <3> QED
        BY <2>1, <3>1, FiniteCalls
    <2>3. Exposure(t)' <=> usage'[t] + MaxCost * is <= Budget + MaxCost * all
      BY <2>1 DEF Exposure
    <2>4. usage[t] + MaxCost * was <= Budget + MaxCost * all /\ usage[t] \in Nat
      BY <1>4 DEF RouterInv, Exposure
    <2>5. CASE t = TaskOf[c]
      <3>1. c \in Paying(t)
        BY <1>1, <2>5 DEF Paying, CallsFor, Spending
      <3>2. was = is + 1
        BY <2>1, <2>2, <3>1, FiniteCalls, FS_RemoveElement
      <3>3. usage'[t] = usage[t] + cost
        BY <1>2, <1>4, <2>5
      <3> HIDE DEF is, was, all
      <3>4. /\ MaxCost * was = MaxCost * is + MaxCost /\ MaxCost * is \in Nat
            /\ MaxCost * all \in Nat
        BY <1>4, <2>2, <3>2, Products
      <3> QED
        BY <1>4, <2>3, <2>4, <3>3, <3>4
    <2>6. CASE t # TaskOf[c]
      <3>1. Paying(t)' = Paying(t) /\ usage'[t] = usage[t]
        BY <1>2, <1>4, <2>1, <2>6 DEF Paying, CallsFor
      <3> QED
        BY <2>3, <2>4, <3>1
    <2> QED
      BY <2>5, <2>6
  <1> QED
    BY <1>1, <1>5, <1>7, <1>8 DEF RouterInv, RouterTypeOK

\* The second loop: the providers not attempted are all ahead, one attempt each
\* (provider.go:536-556).
LEMMA LastResort ==
    ASSUME RouterInv, NEW c \in Calls, Exhausted(c)
    PROVE  \E q \in Seq(Candidates) :
              /\ queue' = [queue EXCEPT ![c] = q]
              /\ Priced \subseteq tried[c] \cup Ahead(q)
              /\ Len(q) <= Cardinality(Providers)
  <1> DEFINE left == Priced \ tried[c]
  <1>1. PICK order \in SetToSeqs(left),
             model \in { f \in [left -> Models] : \A p \in DOMAIN f : ProviderOf[f[p]] = p } :
            queue' = [queue EXCEPT ![c] =
                        [i \in DOMAIN order |-> [model |-> model[order[i]], est |-> 0]]]
    BY DEF Exhausted
  <1>2. left \subseteq Providers
    BY RouterAssumption DEF Priced
  <1>3. /\ IsFiniteSet(left) /\ Cardinality(left) <= Cardinality(Providers)
        /\ Cardinality(left) \in Nat
    BY <1>2, RouterAssumption, FS_Subset, FS_CardinalityType
  <1>4. /\ order \in Seq(left) /\ Len(order) = Cardinality(left)
        /\ DOMAIN order = 1 .. Cardinality(left)
        /\ \A x \in left : \E i \in DOMAIN order : order[i] = x
    BY <1>3, OrderingCovers
  <1>5. \A p \in left : model[p] \in Models /\ ProviderOf[model[p]] = p
    OBVIOUS
  <1> DEFINE q == [i \in DOMAIN order |-> [model |-> model[order[i]], est |-> 0]]
  <1> HIDE DEF left
  <1>6. q \in Seq(Candidates) /\ Len(q) = Cardinality(left)
    <2>1. \A i \in 1 .. Cardinality(left) : [model |-> model[order[i]], est |-> 0] \in Candidates
      BY <1>4, <1>5 DEF Candidates
    <2>2. q \in [1 .. Cardinality(left) -> Candidates]
      BY <1>4, <2>1
    <2> HIDE DEF q
    <2> QED
      BY <1>3, <2>2
  <1>7. left \subseteq Ahead(q)
    <2> SUFFICES ASSUME NEW x \in left PROVE x \in Ahead(q)
      OBVIOUS
    <2>1. PICK i \in 1 .. Cardinality(left) : order[i] = x
      BY <1>4
    <2>2. ProviderOf[q[i].model] = x
      BY <1>4, <1>5, <2>1
    <2> QED
      BY <1>6, <2>2 DEF Ahead
  <1>8. Priced \subseteq tried[c] \cup Ahead(q)
    BY <1>7 DEF left
  <1>9. queue' = [queue EXCEPT ![c] = q]
    BY <1>1
  <1> HIDE DEF q
  <1> QED
    BY <1>3, <1>6, <1>8, <1>9

\* The end of a loop, and the end of the call (provider.go:536-557).
LEMMA LoopEndStep ==
    ASSUME RouterInv, NEW c \in Calls, Exhausted(c) \/ Fail(c) \/ Return(c)
    PROVE  RouterInv'
  <1>1. UNCHANGED <<healthy, breaker, cooled, cached, usage>>
    BY DEF Exhausted, Fail, Return, sharedVars
  <1>2. CASE Exhausted(c)
    <2>1. PICK q \in Seq(Candidates) :
              queue' = [queue EXCEPT ![c] = q] /\ Priced \subseteq tried[c] \cup Ahead(q)
      BY <1>2, LastResort
    <2>2. /\ pc[c] = "gate" /\ lastResort' = [lastResort EXCEPT ![c] = TRUE]
          /\ UNCHANGED <<pc, tried, refused, chatOK>>
      BY <1>2 DEF Exhausted
    <2>3. lastResort' \in [Calls -> BOOLEAN]
      <3>1. lastResort \in [Calls -> BOOLEAN]
        BY DEF RouterInv, RouterTypeOK
      <3> QED
        BY <2>2, <3>1, Zenon
    <2>4. RouterTypeOK'
      BY <1>1, <2>1, <2>2, <2>3 DEF RouterInv, RouterTypeOK
    <2>5. ASSUME NEW d \in Calls PROVE CallInv(d)'
      <3>1. CASE d = c
        <4>1. queue'[c] = q /\ pc'[c] = "gate" /\ tried'[c] = tried[c]
          BY <2>1, <2>2 DEF RouterInv, RouterTypeOK
        <4>2. Ahead(queue[c])' = Ahead(q) /\ Priced' = Priced
          BY <4>1 DEF Ahead, Priced
        <4>3. "gate" \notin Attempting
          BY DEF Attempting
        <4> QED
          BY <2>1, <3>1, <4>1, <4>2, <4>3 DEF CallInv
      <3>2. CASE d # c
        BY <2>1, <2>2, <3>2 DEF RouterInv, RouterTypeOK, CallInv, Priced
      <3> QED
        BY <3>1, <3>2
    <2>6. \A t \in Tasks : Exposure(t)'
      BY <1>1, <2>2 DEF RouterInv, Exposure, Paying, CallsFor
    <2> QED
      BY <2>4, <2>5, <2>6 DEF RouterInv
  <1>3. CASE Fail(c)
    <2>1. /\ pc[c] = "gate" /\ queue[c] = <<>> /\ lastResort[c] /\ pc' = [pc EXCEPT ![c] = "failed"]
          /\ UNCHANGED <<queue, tried, lastResort, refused, chatOK>>
      BY <1>3 DEF Fail, callVars
    <2>2. "failed" \in Steps /\ "failed" \notin Spending /\ "failed" \notin Attempting
      BY DEF Steps, Spending, Attempting
    <2>3. RouterTypeOK'
      BY <1>1, <2>1, <2>2 DEF RouterInv, RouterTypeOK
    <2>4. Priced \subseteq tried[c] \cup Ahead(queue[c]) /\ Ahead(<<>>) = {}
      BY <2>1 DEF RouterInv, CallInv, Ahead
    <2>5. ASSUME NEW d \in Calls PROVE CallInv(d)'
      <3>1. CASE d = c
        BY <2>1, <2>2, <2>4, <3>1 DEF RouterInv, RouterTypeOK, CallInv, Priced
      <3>2. CASE d # c
        BY <2>1, <3>2 DEF RouterInv, RouterTypeOK, CallInv, Priced
      <3> QED
        BY <3>1, <3>2
    <2>6. \A t \in Tasks : Exposure(t)'
      BY <1>1, <2>1, <2>2, ExposureKept
    <2> QED
      BY <2>3, <2>5, <2>6 DEF RouterInv
  <1>4. CASE Return(c)
    <2>1. /\ pc' = [pc EXCEPT ![c] = "idle"] /\ queue' = [queue EXCEPT ![c] = <<>>]
          /\ tried' = [tried EXCEPT ![c] = {}]
          /\ lastResort' = [lastResort EXCEPT ![c] = FALSE]
          /\ refused' = refused \ { c }
          /\ chatOK' = [chatOK EXCEPT ![c] = FALSE]
      BY <1>4 DEF Return
    <2>2. "idle" \in Steps /\ "idle" \notin Spending /\ "idle" \notin Attempting
      BY DEF Steps, Spending, Attempting
    <2>3. lastResort' \in [Calls -> BOOLEAN] /\ chatOK' \in [Calls -> BOOLEAN]
      <3>1. lastResort \in [Calls -> BOOLEAN] /\ chatOK \in [Calls -> BOOLEAN]
        BY DEF RouterInv, RouterTypeOK
      <3> QED
        BY <2>1, <3>1, Zenon
    <2>4. <<>> \in Seq(Candidates) /\ {} \in SUBSET Providers
      OBVIOUS
    <2>5. RouterTypeOK'
      BY <1>1, <2>1, <2>2, <2>3, <2>4 DEF RouterInv, RouterTypeOK
    <2>6. ASSUME NEW d \in Calls PROVE CallInv(d)'
      <3>1. CASE d = c
        BY <2>1, <2>2, <3>1 DEF RouterInv, RouterTypeOK, CallInv
      <3>2. CASE d # c
        BY <2>1, <3>2, OtherCalls
      <3> QED
        BY <3>1, <3>2
    <2>7. \A t \in Tasks : Exposure(t)'
      BY <1>1, <2>1, <2>2, ExposureKept
    <2> QED
      BY <2>5, <2>6, <2>7 DEF RouterInv
  <1> QED
    BY <1>2, <1>3, <1>4

\* What runs beside the calls touches none of them (health.go, cache.go).
LEMMA BesideStep ==
    ASSUME RouterInv,
           (\E p \in Providers : CheckHealth(p) \/ CoolDown(p)) \/ Evict \/ UNCHANGED routerVars
    PROVE  RouterInv'
  <1>1. UNCHANGED <<pc, queue, tried, lastResort, refused, chatOK, breaker, usage>>
    BY DEF CheckHealth, CoolDown, Evict, callVars, routerVars
  <1>2. cooled' \in [Providers -> BOOLEAN]
    <2>1. cooled \in [Providers -> BOOLEAN]
      BY DEF RouterInv, RouterTypeOK
    <2>2. UNCHANGED cooled \/ \E p \in Providers : cooled' = [cooled EXCEPT ![p] = TRUE]
      BY DEF CheckHealth, CoolDown, Evict, routerVars
    <2> QED
      BY <2>1, <2>2, Zenon
  <1>3. healthy' \subseteq Providers /\ cached' \subseteq Models \X Tasks
    BY DEF CheckHealth, CoolDown, Evict, RecordSuccess, RecordFailure, routerVars, RouterInv, RouterTypeOK
  <1>4. RouterTypeOK'
    BY <1>1, <1>2, <1>3 DEF RouterInv, RouterTypeOK
  <1>5. \A c \in Calls : CallInv(c)'
    BY <1>1 DEF RouterInv, CallInv, Priced
  <1>6. \A t \in Tasks : Exposure(t)'
    BY <1>1 DEF RouterInv, Exposure, Paying, CallsFor
  <1> QED
    BY <1>4, <1>5, <1>6 DEF RouterInv

(***************************************************************************)
(* provider.go:506-617.  The failover loop keeps its invariant, whatever   *)
(* providers, health checks and other calls do meanwhile.                  *)
(***************************************************************************)
THEOREM RouterInvariant == RouterSpec => []RouterInv
  <1>1. RouterInv /\ [RouterNext]_routerVars => RouterInv'
    BY RouteStep, GateStep, BudgetGateStep, RequestStep, ExecuteStep, ChargeStep,
       LoopEndStep, BesideStep DEF RouterNext, Work
  <1> QED
    BY RouterInitInv, <1>1, PTL DEF RouterSpec

(***************************************************************************)
(* provider.go:506-617.  For any providers, models and numbers of calls:   *)
(* an execution that the budget refused nothing and that reports that all  *)
(* providers failed attempted every one of them, and concurrent executions *)
(* overspend a task's budget by at most one response each.                 *)
(***************************************************************************)
THEOREM FailoverAlwaysSound == RouterSpec => []FailoverSound
  <1>1. RouterInv => FailoverSound
    <2> SUFFICES ASSUME RouterInv PROVE FailoverSound
      OBVIOUS
    <2>1. TriesEveryProvider
      BY DEF RouterInv, CallInv, TriesEveryProvider
    <2>2. ASSUME NEW t \in Tasks
          PROVE  usage[t] <= Budget + MaxCost * Cardinality(CallsFor(t))
      <3> DEFINE was == Cardinality(Paying(t))
                 all == Cardinality(CallsFor(t))
      <3>1. was \in Nat /\ all \in Nat
        BY FiniteCalls DEF Paying, CallsFor
      <3>2. usage[t] \in Nat /\ MaxCost \in Nat /\ Budget \in Nat
        BY RouterAssumption DEF RouterInv, RouterTypeOK
      <3>3. usage[t] + MaxCost * was <= Budget + MaxCost * all
        BY DEF RouterInv, Exposure
      <3> HIDE DEF was
      <3>4. MaxCost * was \in Nat /\ MaxCost * all \in Nat
        BY <3>1, <3>2, Products
      <3> QED
        BY <3>2, <3>3, <3>4
    <2>3. OvershootBounded
      BY <2>2 DEF OvershootBounded, CallsFor
    <2> QED
      BY <2>1, <2>3 DEF FailoverSound, RouterInv
  <1> QED
    BY RouterInvariant, <1>1, PTL

\* The parts of an attempt, in their order.
LEMMA StepsInOrder ==
    /\ StepsLeft["gate"] = 8 /\ StepsLeft["cache"] = 7 /\ StepsLeft["budget"] = 6
    /\ StepsLeft["chat"] = 5 /\ StepsLeft["record"] = 4 /\ StepsLeft["enter"] = 3
    /\ StepsLeft["exit"] = 2 /\ StepsLeft["charge"] = 1
    /\ \A x \in Steps \ Returned : StepsLeft[x] \in 1 .. 8
  <1>1. /\ StepsLeft["gate"] = 8 /\ StepsLeft["cache"] = 7 /\ StepsLeft["budget"] = 6
        /\ StepsLeft["chat"] = 5 /\ StepsLeft["record"] = 4 /\ StepsLeft["enter"] = 3
        /\ StepsLeft["exit"] = 2 /\ StepsLeft["charge"] = 1
    BY DEF StepsLeft
  <1>2. Steps \ Returned = { "gate" } \cup Attempting
    BY DEF Steps, Returned, Attempting
  <1> QED
    BY <1>1, <1>2 DEF Attempting

\* The turns the second loop may still take.
LEMMA LoopTurns ==
    /\ Cardinality(Providers) \in Nat
    /\ \A b \in BOOLEAN : (IF b THEN 0 ELSE 8 * (Cardinality(Providers) + 1)) \in Nat
  <1>1. Cardinality(Providers) \in Nat
    BY RouterAssumption, FS_CardinalityType
  <1> QED
    BY <1>1

\* Every step of a call under way brings it closer to its return.
LEMMA WorkDecreases ==
    ASSUME RouterInv, NEW c \in Calls, Work(c)
    PROVE  Remaining(c)' < Remaining(c)
  <1> DEFINE turns == IF lastResort[c] THEN 0 ELSE 8 * (Cardinality(Providers) + 1)
             turns2 == IF lastResort'[c] THEN 0 ELSE 8 * (Cardinality(Providers) + 1)
  <1>1. pc[c] \in Steps \ Returned
    BY DEF Work, Gate, Lookup, BudgetGate, Chat, RecordHealth, ExecuteEnter, ExecuteExit,
           Charge, Exhausted, Fail, Steps, Returned
  <1>2. /\ queue[c] \in Seq(Candidates) /\ Len(queue[c]) \in Nat
        /\ c \in DOMAIN pc /\ c \in DOMAIN queue /\ c \in DOMAIN lastResort
        /\ lastResort[c] \in BOOLEAN
    BY DEF RouterInv, RouterTypeOK
  <1>3. turns \in Nat /\ StepsLeft[pc[c]] \in 1 .. 8
    BY <1>1, <1>2, LoopTurns, StepsInOrder
  <1>4. /\ Remaining(c) = StepsLeft[pc[c]] + 8 * Len(queue[c]) + turns
        /\ pc'[c] \in Returned => Remaining(c)' = 0
        /\ pc'[c] \notin Returned =>
              Remaining(c)' = StepsLeft[pc'[c]] + 8 * Len(queue'[c]) + turns2
    BY <1>1 DEF Remaining
  <1> HIDE DEF turns, turns2
  <1>5. "gate" \notin Returned
    BY DEF Returned
  <1>6. ASSUME queue[c] # <<>>, NextAttempt(c) PROVE Remaining(c)' < Remaining(c)
    <2>1. Len(Tail(queue[c])) = Len(queue[c]) - 1
      BY <1>6, CurrentAttempt
    <2>2. /\ pc'[c] = "gate" /\ queue'[c] = Tail(queue[c]) /\ lastResort'[c] = lastResort[c]
      BY <1>2, <1>6 DEF NextAttempt
    <2>3. turns2 = turns
      BY <2>2 DEF turns, turns2
    <2>4. Remaining(c)' = 8 + 8 * (Len(queue[c]) - 1) + turns
      BY <1>4, <1>5, <2>1, <2>2, <2>3, StepsInOrder
    <2> QED
      BY <1>2, <1>3, <1>4, <2>4
  <1>7. ASSUME NEW x, pc' = [pc EXCEPT ![c] = x], UNCHANGED <<queue, lastResort>>,
               x \in Returned \/ (x \in Steps \ Returned /\ StepsLeft[x] < StepsLeft[pc[c]])
        PROVE  Remaining(c)' < Remaining(c)
    <2>1. pc'[c] = x /\ queue'[c] = queue[c] /\ turns2 = turns
      BY <1>2, <1>7 DEF turns, turns2
    <2>2. CASE x \in Returned
      <3>1. Remaining(c)' = 0
        BY <1>4, <2>1, <2>2
      <3> QED
        BY <1>2, <1>3, <1>4, <3>1
    <2>3. CASE x \in Steps \ Returned /\ StepsLeft[x] < StepsLeft[pc[c]]
      <3>1. Remaining(c)' = StepsLeft[x] + 8 * Len(queue[c]) + turns
        BY <1>4, <2>1, <2>3
      <3>2. StepsLeft[x] \in 1 .. 8
        BY <2>3, StepsInOrder
      <3>3. ASSUME NEW a \in Nat, NEW b \in Nat, NEW l \in Nat, NEW t \in Nat, a < b
            PROVE  a + 8 * l + t < b + 8 * l + t
        BY <3>3
      <3>4. StepsLeft[x] \in Nat /\ StepsLeft[pc[c]] \in Nat /\ StepsLeft[x] < StepsLeft[pc[c]]
        BY <1>3, <2>3, <3>2
      <3>5. StepsLeft[x] + 8 * Len(queue[c]) + turns < StepsLeft[pc[c]] + 8 * Len(queue[c]) + turns
        BY <1>2, <1>3, <3>4, <3>3
      <3> QED
        BY <1>4, <3>1, <3>5
    <2> QED
      BY <1>7, <2>2, <2>3
  <1>8. { "cache", "budget", "chat", "record", "enter", "exit", "charge" } \subseteq Steps \ Returned
        /\ { "served", "failed" } \subseteq Returned
    BY DEF Steps, Returned
  <1>q. pc[c] \in Attempting => queue[c] # <<>>
    BY DEF RouterInv, CallInv
  <1>9. CASE Gate(c)
    BY <1>6, <1>7, <1>8, <1>9, StepsInOrder DEF Gate
  <1>10. CASE Lookup(c)
    <2>1. pc[c] = "cache" /\ UNCHANGED <<queue, lastResort>>
      BY <1>10 DEF Lookup, callVars
    <2>2. PICK x \in { "served", "budget" } : pc' = [pc EXCEPT ![c] = x]
      BY <1>10 DEF Lookup
    <2>3. x \in Returned \/ (x \in Steps \ Returned /\ StepsLeft[x] < StepsLeft[pc[c]])
      BY <1>8, <2>1, StepsInOrder
    <2> QED
      BY <1>7, <2>1, <2>2, <2>3
  <1>11. CASE BudgetGate(c)
    BY <1>6, <1>7, <1>8, <1>q, <1>11, StepsInOrder DEF BudgetGate, Attempting
  <1>12. CASE Chat(c)
    <2>1. /\ pc[c] = "chat" /\ pc' = [pc EXCEPT ![c] = "record"]
          /\ UNCHANGED <<queue, lastResort>>
      BY <1>12 DEF Chat
    <2>2. StepsLeft["record"] < StepsLeft[pc[c]]
      BY <2>1, StepsInOrder
    <2> QED
      BY <1>7, <1>8, <2>1, <2>2
  <1>13. CASE RecordHealth(c)
    <2>1. /\ pc[c] = "record" /\ pc' = [pc EXCEPT ![c] = "enter"]
          /\ UNCHANGED <<queue, lastResort>>
      BY <1>13 DEF RecordHealth, callVars
    <2>2. StepsLeft["enter"] < StepsLeft[pc[c]]
      BY <2>1, StepsInOrder
    <2> QED
      BY <1>7, <1>8, <2>1, <2>2
  <1>14. CASE ExecuteEnter(c)
    BY <1>6, <1>7, <1>8, <1>q, <1>14, StepsInOrder DEF ExecuteEnter, AfterExecute, Attempting
  <1>15. CASE ExecuteExit(c)
    BY <1>6, <1>7, <1>8, <1>q, <1>15, StepsInOrder DEF ExecuteExit, AfterExecute, Attempting
  <1>16. CASE Charge(c)
    BY <1>7, <1>8, <1>16 DEF Charge, callVars
  <1>17. CASE Exhausted(c)
    <2>1. PICK q \in Seq(Candidates) :
              queue' = [queue EXCEPT ![c] = q] /\ Len(q) <= Cardinality(Providers)
      BY <1>17, LastResort
    <2>2. /\ pc[c] = "gate" /\ pc' = pc /\ ~lastResort[c]
          /\ lastResort' = [lastResort EXCEPT ![c] = TRUE]
      BY <1>17 DEF Exhausted
    <2>3. /\ queue'[c] = q /\ lastResort'[c] /\ Len(q) \in Nat
      BY <1>2, <2>1, <2>2
    <2>4. turns = 8 * (Cardinality(Providers) + 1) /\ turns2 = 0
      BY <2>2, <2>3 DEF turns, turns2
    <2> QED
      BY <1>2, <1>4, <1>5, <2>1, <2>2, <2>3, <2>4, StepsInOrder, LoopTurns
  <1>18. CASE Fail(c)
    BY <1>7, <1>8, <1>18 DEF Fail, callVars
  <1> QED
    BY <1>9, <1>10, <1>11, <1>12, <1>13, <1>14, <1>15, <1>16, <1>17, <1>18 DEF Work

\* A step of call d leaves the other calls where they are.
LEMMA CallsApart ==
    ASSUME RouterInv, NEW c \in Calls, NEW d \in Calls, d # c, Route(d) \/ Work(d) \/ Return(d)
    PROVE  UNCHANGED <<pc[c], queue[c], lastResort[c]>>
  <1>1. \/ pc' = pc
        \/ \E x : pc' = [pc EXCEPT ![d] = x]
    BY DEF Route, Work, Return, Gate, Lookup, BudgetGate, Chat, RecordHealth, ExecuteEnter,
           ExecuteExit, AfterExecute, NextAttempt, Charge, Exhausted, Fail
  <1>2. \/ queue' = queue
        \/ \E x : queue' = [queue EXCEPT ![d] = x]
    BY LastResort
    DEF Route, Work, Return, Gate, Lookup, BudgetGate, Chat, RecordHealth, ExecuteEnter,
        ExecuteExit, AfterExecute, NextAttempt, Charge, Fail, callVars
  <1>3. \/ lastResort' = lastResort
        \/ \E x : lastResort' = [lastResort EXCEPT ![d] = x]
    BY DEF Route, Work, Return, Gate, Lookup, BudgetGate, Chat, RecordHealth, ExecuteEnter,
           ExecuteExit, AfterExecute, NextAttempt, Charge, Exhausted, Fail, callVars
  <1> QED
    BY <1>1, <1>2, <1>3 DEF RouterInv, RouterTypeOK

(***************************************************************************)
(* provider.go:510-557.  For any number of providers, models and calls the *)
(* failover loops end: every step of an execution brings it closer to its  *)
(* return, by a measure that nothing else in the system can raise.         *)
(***************************************************************************)
THEOREM AttemptsAlwaysRunOut == RouterSpec => AttemptsRunOut
  <1>1. RouterInv /\ [RouterNext]_routerVars =>
          [\A c \in Calls : pc[c] \notin Returned =>
              \/ UNCHANGED <<pc[c], queue[c], lastResort[c]>>
              \/ Remaining(c)' < Remaining(c)]_routerVars
    <2> SUFFICES ASSUME RouterInv, RouterNext, NEW c \in Calls, pc[c] \notin Returned
                 PROVE  \/ UNCHANGED <<pc[c], queue[c], lastResort[c]>>
                        \/ Remaining(c)' < Remaining(c)
      OBVIOUS
    <2>1. CASE \E d \in Calls : Route(d) \/ Work(d) \/ Return(d)
      <3>1. PICK d \in Calls : Route(d) \/ Work(d) \/ Return(d)
        BY <2>1
      <3>2. CASE d = c
        <4>1. ~Route(c) /\ ~Return(c)
          BY DEF Route, Return, Returned
        <4> QED
          BY <3>1, <3>2, <4>1, WorkDecreases
      <3>3. CASE d # c
        BY <3>1, <3>3, CallsApart
      <3> QED
        BY <3>2, <3>3
    <2>2. CASE (\E p \in Providers : CheckHealth(p) \/ CoolDown(p)) \/ Evict
      BY <2>2 DEF CheckHealth, CoolDown, Evict, callVars
    <2> QED
      BY <2>1, <2>2 DEF RouterNext
  <1> QED
    BY RouterInvariant, <1>1, PTL DEF RouterSpec, AttemptsRunOut

--------------------------------------------------------------------------------
(* A streamed answer *)

\* What the producer has sent, on this side of the relay and on the other.
Sent == relayed \o raw

StreamTypeOK ==
    /\ tryNo \in 1 .. MaxStreamTries /\ piecesSent \in 0 .. Pieces /\ costs \in Nat
    /\ raw \in Seq(Nat) /\ wrapped \in Seq(Nat) /\ relayed \in Seq(Nat) /\ received \in Seq(Nat)
    /\ producer \in { "unopened", "reading", "sending", "ending", "extra", "over" }
    /\ relay \in { "unopened", "relaying", "finished", "failed", "closed" }
    /\ listener \in { "waiting", "reading", "finished", "closed", "refused" }
    /\ outcomes \in [1 .. MaxStreamTries -> Seq({ "success", "failure" })]

\* The pieces come first and in order, then finishing chunks, which follow the last
\* piece unless the stream broke off.
PiecesInOrder ==
    /\ Len(Sent) >= piecesSent
    /\ \A i \in 1 .. Len(Sent) : Sent[i] = IF i <= piecesSent THEN i ELSE Finish
    /\ producer \in { "unopened", "reading", "sending", "ending" } => Len(Sent) = piecesSent
    /\ producer = "sending" => piecesSent < Pieces
    /\ producer \in { "ending", "extra" } \/ Len(Sent) > piecesSent => broke \/ piecesSent = Pieces

\* What the relay passes on arrives, unless it dropped something, and it stops at the
\* first finishing chunk.
RelayedArrives ==
    /\ ~full => received \o wrapped = relayed
    /\ \A i \in 1 .. Len(relayed) - 1 : relayed[i] # Finish
    /\ relay \in { "unopened", "relaying", "failed" } => ~Contains(relayed, Finish)
    /\ relay = "finished" => Contains(relayed, Finish)
    /\ listener = "finished" => received # <<>> /\ received[Len(received)] = Finish

\* Tries are recorded one after the other, the one that opened when its channel closes.
TriesRecorded ==
    /\ \A i \in 1 .. MaxStreamTries : /\ Len(outcomes[i]) <= 1
                                      /\ i > tryNo => outcomes[i] = <<>>
    /\ listener = "waiting" \/ relay \in { "relaying", "finished", "failed" } => outcomes[tryNo] = <<>>
    /\ listener \in { "waiting", "refused" } <=> relay = "unopened"
    /\ listener = "waiting" => producer = "unopened"
    /\ relay # "closed" => costs = 0
    /\ relay = "closed" =>
          /\ outcomes[tryNo] = IF Contains(relayed, Finish) THEN <<"success">> ELSE <<"failure">>
          /\ costs = IF Contains(relayed, Finish) THEN 1 ELSE 0

StreamInv == StreamTypeOK /\ PiecesInOrder /\ RelayedArrives /\ TriesRecorded

\* A chunk that moves from one channel to the next changes nothing of the whole.
LEMMA ChunkMoves ==
    ASSUME NEW s \in Seq(Nat), NEW t \in Seq(Nat), t # <<>>
    PROVE  /\ Append(s, Head(t)) \in Seq(Nat) /\ Tail(t) \in Seq(Nat) /\ Head(t) \in Nat
           /\ Append(s, Head(t)) \o Tail(t) = s \o t
<1>1. Head(t) \in Nat /\ Tail(t) \in Seq(Nat) /\ Append(s, Head(t)) \in Seq(Nat)
  BY HeadTailProperties, AppendProperties
<1>2. t = <<Head(t)>> \o Tail(t)
  BY HeadTailProperties, SMT
<1>3. Append(s, Head(t)) = s \o <<Head(t)>>
  BY <1>1, AppendIsConcat
<1>4. (s \o <<Head(t)>>) \o Tail(t) = s \o (<<Head(t)>> \o Tail(t))
  BY <1>1, ConcatAssociative
<1> QED
  BY <1>1, <1>2, <1>3, <1>4

\* One that is sent comes last.
LEMMA ChunkSent ==
    ASSUME NEW s \in Seq(Nat), NEW t \in Seq(Nat), NEW e \in Nat
    PROVE  /\ Append(t, e) \in Seq(Nat) /\ s \o Append(t, e) = Append(s \o t, e)
           /\ s \o t \in Seq(Nat) /\ s \o Append(t, e) \in Seq(Nat)
           /\ Len(s \o Append(t, e)) = Len(s \o t) + 1
           /\ \A i \in 1 .. Len(s \o t) : (s \o Append(t, e))[i] = (s \o t)[i]
           /\ (s \o Append(t, e))[Len(s \o t) + 1] = e
<1>1. s \o t \in Seq(Nat) /\ Append(t, e) \in Seq(Nat)
  BY ConcatProperties, AppendProperties
<1>2. Append(t, e) = t \o <<e>> /\ Append(s \o t, e) = (s \o t) \o <<e>>
  BY <1>1, AppendIsConcat
<1>3. s \o (t \o <<e>>) = (s \o t) \o <<e>>
  BY ConcatAssociative
<1>4. s \o Append(t, e) = Append(s \o t, e)
  BY <1>2, <1>3
<1> QED
  BY <1>1, <1>4, AppendProperties

LEMMA StreamSizes == MaxStreamTries \in Nat /\ MaxStreamTries >= 1 /\ Pieces \in Nat /\ Pieces >= 1
BY StreamRelayAssumption

LEMMA StreamInitial == StreamRelayInit => StreamInv
<1> SUFFICES ASSUME StreamRelayInit PROVE StreamInv
  OBVIOUS
<1> USE DEF StreamRelayInit
<1>1. Sent = <<>> /\ received \o wrapped = <<>>
  BY DEF Sent
<1>2. StreamTypeOK
  BY StreamRelayAssumption DEF StreamTypeOK
<1>3. ~Contains(relayed, Finish) /\ Len(relayed) = 0 /\ Len(Sent) = 0
  BY <1>1 DEF Contains
<1>4. PiecesInOrder /\ RelayedArrives
  BY <1>1, <1>3, StreamRelayAssumption DEF PiecesInOrder, RelayedArrives
<1>5. TriesRecorded
  <2>1. /\ outcomes[tryNo] = <<>> /\ costs = 0 /\ listener = "waiting" /\ relay = "unopened" /\ producer = "unopened"
        /\ \A i \in 1 .. MaxStreamTries : outcomes[i] = <<>> /\ Len(outcomes[i]) <= 1
    BY StreamSizes
  <2> QED
    BY <2>1 DEF TriesRecorded
<1> QED
  BY <1>2, <1>4, <1>5 DEF StreamInv

\* Looking for a provider, and the steps that touch neither chunks nor records.
LEMMA OpeningKeeps ==
    ASSUME StreamInv, OpenStep \/ CancelContext \/ UNCHANGED relayVars
    PROVE  StreamInv'
<1> USE DEF StreamInv
<1>1. UNCHANGED <<streamChannels, piecesSent, broke, costs>> /\ Sent' = Sent
  BY DEF OpenStep, TryRefused, TryFails, TryOpens, CancelContext, relayVars, streamChannels, Sent
<1>2. tryNo' \in { tryNo, tryNo + 1 } /\ tryNo' \in 1 .. MaxStreamTries
  BY StreamSizes DEF OpenStep, TryRefused, TryFails, TryOpens, NextTry, CancelContext, relayVars, StreamTypeOK
<1>3. StreamTypeOK'
  <2>1. outcomes' \in [1 .. MaxStreamTries -> Seq({ "success", "failure" })]
    <3>1. CASE TryFails
      <4>1. outcomes[tryNo] \in Seq({ "success", "failure" })
        BY DEF StreamTypeOK
      <4>2. Append(outcomes[tryNo], "failure") \in Seq({ "success", "failure" })
        BY <4>1, AppendProperties
      <4> QED
        BY <3>1, <4>2 DEF TryFails, Records, StreamTypeOK
    <3> QED
      BY <3>1 DEF OpenStep, TryRefused, TryOpens, CancelContext, relayVars, StreamTypeOK
  <2> QED
    BY <1>1, <1>2, <2>1
    DEF OpenStep, TryRefused, TryFails, TryOpens, NextTry, CancelContext, relayVars, StreamTypeOK, streamChannels
<1>6. PiecesInOrder'
  <2>1. \/ producer' = producer
        \/ producer = "unopened" /\ producer' = "reading"
    BY DEF OpenStep, TryRefused, TryFails, TryOpens, CancelContext, relayVars, TriesRecorded
  <2> QED
    BY <1>1, <2>1 DEF PiecesInOrder
<1>4. RelayedArrives'
  BY <1>1 DEF OpenStep, TryRefused, TryFails, TryOpens, NextTry, CancelContext, relayVars, RelayedArrives,
       TriesRecorded, streamChannels
<1>5. TriesRecorded'
  <2>1. CASE TryFails
    <3>1. /\ outcomes[tryNo] = <<>> /\ outcomes' = [outcomes EXCEPT ![tryNo] = Append(@, "failure")]
          /\ listener = "waiting" /\ relay = "unopened" /\ relay' = relay /\ costs' = costs /\ costs = 0
          /\ producer = "unopened" /\ producer' = producer
          /\ \/ tryNo < MaxStreamTries /\ tryNo' = tryNo + 1 /\ listener' = listener
             \/ tryNo' = tryNo /\ listener' = "refused"
      BY <2>1 DEF TryFails, Records, NextTry, TriesRecorded
    <3>2. Append(outcomes[tryNo], "failure") = <<"failure">>
      BY <3>1
    <3>3. Len(outcomes'[tryNo]) = 1 /\ \A i \in (1 .. MaxStreamTries) \ { tryNo } : outcomes'[i] = outcomes[i]
      BY <3>1, <3>2 DEF StreamTypeOK
    <3> QED
      BY <3>1, <3>3, <1>2 DEF TriesRecorded, StreamTypeOK
  <2>2. CASE TryRefused
    BY <1>1, <1>2, <2>2, StreamSizes DEF TryRefused, NextTry, TriesRecorded, StreamTypeOK
  <2>3. CASE TryOpens \/ CancelContext \/ UNCHANGED relayVars
    BY <1>1, <2>3 DEF TryOpens, CancelContext, relayVars, TriesRecorded, streamChannels
  <2> QED
    BY <2>1, <2>2, <2>3 DEF OpenStep
<1> QED
  BY <1>3, <1>4, <1>5, <1>6

LEMMA ProducerKeeps ==
    ASSUME StreamInv, ProducerStep
    PROVE  StreamInv'
<1> USE DEF StreamInv
<1>1. UNCHANGED <<tryNo, wrapped, relay, listener, relayed, received, full, outcomes, costs>>
  BY DEF ProducerStep, RecvPiece, SendPiece, UpstreamEnds, SendFinish, SendGivenUp, EndUnsaid, streamChannels
<1>2. RelayedArrives' /\ TriesRecorded'
  <2>1. producer # "unopened"
    BY DEF ProducerStep, RecvPiece, SendPiece, UpstreamEnds, SendFinish, SendGivenUp, EndUnsaid
  <2> QED
    BY <1>1, <2>1 DEF RelayedArrives, TriesRecorded
<1>3. CASE RecvPiece \/ UpstreamEnds \/ SendGivenUp \/ EndUnsaid
  <2>1. Sent' = Sent
    BY <1>3 DEF RecvPiece, UpstreamEnds, SendGivenUp, EndUnsaid, streamChannels, Sent
  <2>2. StreamTypeOK'
    BY <1>1, <1>3 DEF RecvPiece, UpstreamEnds, SendGivenUp, EndUnsaid, streamChannels, StreamTypeOK
  <2>3. Len(Sent) \in Nat
    BY ConcatProperties, LenProperties DEF StreamTypeOK, Sent
  <2>4. PiecesInOrder'
    <3>1. CASE RecvPiece
      BY <2>1, <3>1 DEF RecvPiece, PiecesInOrder
    <3>2. CASE UpstreamEnds
      <4>1. /\ producer = "reading" /\ producer' = "ending" /\ piecesSent' = piecesSent
            /\ broke' = (piecesSent < Pieces) /\ piecesSent \in 0 .. Pieces /\ Len(Sent) = piecesSent
        BY <3>2 DEF UpstreamEnds, PiecesInOrder, StreamTypeOK
      <4>2. broke' \/ piecesSent = Pieces
        <5>1. piecesSent < Pieces \/ piecesSent = Pieces
          BY <4>1, StreamSizes
        <5> QED
          BY <4>1, <5>1, Zenon
      <4> QED
        BY <2>1, <4>1, <4>2 DEF PiecesInOrder
    <3>3. CASE SendGivenUp \/ EndUnsaid
      BY <2>1, <3>3 DEF SendGivenUp, EndUnsaid, PiecesInOrder
    <3> QED
      BY <1>3, <3>1, <3>2, <3>3
  <2> QED
    BY <1>2, <2>2, <2>4
<1>4. ASSUME NEW e \in Nat, raw' = Append(raw, e)
      PROVE  /\ raw' \in Seq(Nat) /\ Len(Sent') = Len(Sent) + 1 /\ Len(Sent) \in Nat
             /\ \A i \in 1 .. Len(Sent) : Sent'[i] = Sent[i]
             /\ Sent'[Len(Sent) + 1] = e
  <2>1. Sent' = relayed \o Append(raw, e)
    BY <1>1, <1>4 DEF Sent
  <2>2. Len(Sent) \in Nat
    BY ConcatProperties, LenProperties DEF StreamTypeOK, Sent
  <2>3. relayed \in Seq(Nat) /\ raw \in Seq(Nat)
    BY DEF StreamTypeOK
  <2> QED
    BY <1>4, <2>1, <2>2, <2>3, ChunkSent DEF Sent
<1>5. CASE SendPiece
  <2>1. /\ producer = "sending" /\ producer' = "reading" /\ piecesSent' = piecesSent + 1 /\ broke' = broke
        /\ raw' = Append(raw, piecesSent + 1) /\ piecesSent + 1 \in Nat /\ piecesSent < Pieces
        /\ Len(Sent) = piecesSent
    BY <1>5 DEF SendPiece, PiecesInOrder, StreamTypeOK
  <2>2. /\ raw' \in Seq(Nat) /\ Len(Sent') = Len(Sent) + 1
        /\ \A i \in 1 .. Len(Sent) : Sent'[i] = Sent[i]
        /\ Sent'[Len(Sent) + 1] = piecesSent + 1
    BY <1>4, <2>1
  <2>3. StreamTypeOK'
    BY <1>1, <2>1, <2>2, StreamSizes DEF StreamTypeOK
  <2>4. \A i \in 1 .. Len(Sent') : Sent'[i] = IF i <= piecesSent' THEN i ELSE Finish
    <3> SUFFICES ASSUME NEW i \in 1 .. piecesSent + 1 PROVE Sent'[i] = i
      BY <2>1, <2>2 DEF StreamTypeOK
    <3>1. CASE i = piecesSent + 1
      BY <2>1, <2>2, <3>1
    <3>2. CASE i \in 1 .. piecesSent
      BY <2>1, <2>2, <3>2 DEF PiecesInOrder
    <3> QED
      BY <3>1, <3>2 DEF StreamTypeOK
  <2>5. PiecesInOrder'
    BY <2>1, <2>2, <2>4 DEF PiecesInOrder, StreamTypeOK
  <2> QED
    BY <1>2, <2>3, <2>5
<1>6. CASE SendFinish
  <2>1. /\ producer \in { "ending", "extra" } /\ producer' \in { "extra", "over" } /\ UNCHANGED <<piecesSent, broke>>
        /\ raw' = Append(raw, Finish) /\ Finish \in Nat
    BY <1>6 DEF SendFinish, Finish
  <2>2. /\ raw' \in Seq(Nat) /\ Len(Sent') = Len(Sent) + 1 /\ Len(Sent) \in Nat
        /\ \A i \in 1 .. Len(Sent) : Sent'[i] = Sent[i]
        /\ Sent'[Len(Sent) + 1] = Finish
    BY <1>4, <2>1
  <2>3. StreamTypeOK'
    BY <1>1, <2>1, <2>2 DEF StreamTypeOK
  <2>4. \A i \in 1 .. Len(Sent') : Sent'[i] = IF i <= piecesSent' THEN i ELSE Finish
    <3> SUFFICES ASSUME NEW i \in 1 .. Len(Sent) + 1 PROVE Sent'[i] = IF i <= piecesSent THEN i ELSE Finish
      BY <2>1, <2>2
    <3>1. CASE i = Len(Sent) + 1
      BY <2>2, <3>1 DEF PiecesInOrder, StreamTypeOK
    <3>2. CASE i \in 1 .. Len(Sent)
      BY <2>2, <3>2 DEF PiecesInOrder
    <3> QED
      BY <2>2, <3>1, <3>2
  <2>5. PiecesInOrder'
    BY <2>1, <2>2, <2>4 DEF PiecesInOrder, StreamTypeOK
  <2> QED
    BY <1>2, <2>3, <2>5
<1> QED
  BY <1>3, <1>5, <1>6 DEF ProducerStep

LEMMA RelayKeeps ==
    ASSUME StreamInv, RelayStep
    PROVE  StreamInv'
<1> USE DEF StreamInv
<1>1. CASE RelayChunk
  <2>0. /\ relay = "relaying" /\ raw # <<>> /\ raw \in Seq(Nat) /\ relayed \in Seq(Nat)
        /\ raw' = Tail(raw) /\ relayed' = Append(relayed, Head(raw))
        /\ relay' = (IF Head(raw) = Finish THEN "finished" ELSE relay)
        /\ \/ wrapped' = Append(wrapped, Head(raw)) /\ full' = full
           \/ full' = TRUE /\ wrapped' = wrapped
        /\ UNCHANGED <<tryNo, piecesSent, producer, listener, received, broke, outcomes, costs>>
    BY <1>1 DEF RelayChunk, StreamTypeOK
  <2>1. raw' \in Seq(Nat) /\ relayed' \in Seq(Nat) /\ Head(raw) \in Nat /\ Sent' = Sent
    BY <2>0, ChunkMoves DEF Sent
  <2>2. wrapped' \in Seq(Nat) /\ (~full' => received' \o wrapped' = relayed')
    <3>1. CASE wrapped' = Append(wrapped, Head(raw)) /\ full' = full
      <4>1. received \in Seq(Nat) /\ wrapped \in Seq(Nat)
        BY DEF StreamTypeOK
      <4>2. /\ Append(wrapped, Head(raw)) \in Seq(Nat)
            /\ received \o Append(wrapped, Head(raw)) = Append(received \o wrapped, Head(raw))
        <5> HIDE DEF StreamInv
        <5>1. Head(raw) \in Nat
          BY <2>1
        <5> QED
          BY ONLY <4>1, <5>1, ChunkSent
      <4> QED
        BY <2>0, <3>1, <4>2 DEF RelayedArrives
    <3> QED
      BY <2>0, <3>1 DEF StreamTypeOK
  <2>3. /\ Len(relayed') = Len(relayed) + 1 /\ relayed'[Len(relayed) + 1] = Head(raw) /\ Len(relayed) \in Nat
        /\ \A i \in 1 .. Len(relayed) : relayed'[i] = relayed[i]
    BY <2>0, <2>1, AppendProperties, LenProperties
  <2>4. ~Contains(relayed, Finish)
    BY <2>0 DEF RelayedArrives
  <2>5. \A i \in 1 .. Len(relayed) : relayed'[i] # Finish
    BY <2>3, <2>4 DEF Contains
  <2>6. Contains(relayed', Finish) <=> Head(raw) = Finish
    BY <2>3, <2>5 DEF Contains
  <2>7. StreamTypeOK'
    BY <2>0, <2>1, <2>2 DEF StreamTypeOK
  <2>8. RelayedArrives'
    <3>1. \A i \in 1 .. Len(relayed') - 1 : relayed'[i] # Finish
      BY <2>3, <2>5
    <3>2. relay' \in { "unopened", "relaying", "failed" } => ~Contains(relayed', Finish)
      BY <2>0, <2>6
    <3>3. relay' = "finished" => Contains(relayed', Finish)
      BY <2>0, <2>6
    <3>4. listener' = "finished" => received' # <<>> /\ received'[Len(received')] = Finish
      BY <2>0 DEF RelayedArrives
    <3> QED
      BY <2>2, <3>1, <3>2, <3>3, <3>4 DEF RelayedArrives
  <2>9. PiecesInOrder' /\ TriesRecorded'
    BY <2>0, <2>1 DEF PiecesInOrder, TriesRecorded
  <2> QED
    BY <2>7, <2>8, <2>9
<1>2. CASE RelayBreaks
  BY <1>2 DEF RelayBreaks, streamChannels, StreamTypeOK, PiecesInOrder, Sent, RelayedArrives, TriesRecorded
<1>3. CASE RelayRecords
  <2>1. /\ relay \in { "finished", "failed" } /\ relay' = "closed" /\ outcomes[tryNo] = <<>> /\ costs = 0
        /\ UNCHANGED <<tryNo, piecesSent, producer, streamChannels, listener, broke>>
    BY <1>3 DEF RelayRecords, TriesRecorded
  <2> DEFINE result == IF relay = "finished" THEN "success" ELSE "failure"
  <2>2. outcomes' = [outcomes EXCEPT ![tryNo] = Append(@, result)] /\ costs' = costs + (IF relay = "finished" THEN 1 ELSE 0)
    BY <1>3 DEF RelayRecords, Records
  <2>3. Append(outcomes[tryNo], result) = <<result>> /\ <<result>> \in Seq({ "success", "failure" })
    BY <2>1
  <2>4. /\ outcomes'[tryNo] = <<result>> /\ \A i \in (1 .. MaxStreamTries) \ { tryNo } : outcomes'[i] = outcomes[i]
        /\ outcomes' \in [1 .. MaxStreamTries -> Seq({ "success", "failure" })]
    BY <2>2, <2>3 DEF StreamTypeOK
  <2>5. relay = "finished" <=> Contains(relayed, Finish)
    BY <2>1 DEF RelayedArrives
  <2>6. StreamTypeOK' /\ PiecesInOrder' /\ RelayedArrives'
    BY <2>1, <2>2, <2>4 DEF StreamTypeOK, PiecesInOrder, RelayedArrives, Sent, streamChannels
  <2>7. TriesRecorded'
    BY <2>1, <2>2, <2>4, <2>5 DEF TriesRecorded, streamChannels, StreamTypeOK
  <2> QED
    BY <2>6, <2>7
<1> QED
  BY <1>1, <1>2, <1>3 DEF RelayStep

LEMMA ReadingKeeps ==
    ASSUME StreamInv, ReadStep
    PROVE  StreamInv'
<1> USE DEF StreamInv
<1>1. CASE ReadChunk
  <2>0. /\ listener = "reading" /\ wrapped # <<>> /\ wrapped \in Seq(Nat) /\ received \in Seq(Nat)
        /\ wrapped' = Tail(wrapped) /\ received' = Append(received, Head(wrapped))
        /\ listener' = (IF Head(wrapped) = Finish THEN "finished" ELSE listener)
        /\ UNCHANGED <<tryNo, piecesSent, producer, raw, relay, relayed, full, broke, outcomes, costs>>
    BY <1>1 DEF ReadChunk, StreamTypeOK
  <2>1. /\ wrapped' \in Seq(Nat) /\ received' \in Seq(Nat) /\ Head(wrapped) \in Nat
        /\ received' \o wrapped' = received \o wrapped
    BY <2>0, ChunkMoves
  <2>2. Len(received') = Len(received) + 1 /\ received'[Len(received')] = Head(wrapped) /\ received' # <<>>
    BY <2>0, <2>1, AppendProperties, LenProperties
  <2>3. StreamTypeOK'
    BY <2>0, <2>1 DEF StreamTypeOK
  <2>4. RelayedArrives'
    BY <2>0, <2>1, <2>2 DEF RelayedArrives
  <2>5. PiecesInOrder' /\ TriesRecorded'
    BY <2>0 DEF PiecesInOrder, Sent, TriesRecorded
  <2> QED
    BY <2>3, <2>4, <2>5
<1>2. CASE ReadClosed
  BY <1>2 DEF ReadClosed, streamChannels, StreamTypeOK, PiecesInOrder, Sent, RelayedArrives, TriesRecorded
<1> QED
  BY <1>1, <1>2 DEF ReadStep

\* StreamRelay!StreamAccounted, for every length of the answer, size of the channels and
\* number of tries: what is read is what was relayed, a finished answer is whole unless
\* something was dropped or broke, and every try is recorded once.
THEOREM StreamAlwaysAccounted == StreamRelaySpec => []StreamAccounted
<1>1. StreamInv /\ [StreamRelayNext]_relayVars => StreamInv'
  BY OpeningKeeps, ProducerKeeps, RelayKeeps, ReadingKeeps DEF StreamRelayNext
<1>2. StreamInv => StreamAccounted
  <2> SUFFICES ASSUME StreamInv PROVE StreamAccounted
    OBVIOUS
  <2> USE DEF StreamInv
  <2>0. /\ received \in Seq(Nat) /\ wrapped \in Seq(Nat) /\ relayed \in Seq(Nat) /\ raw \in Seq(Nat)
        /\ Len(received) \in Nat /\ Len(relayed) \in Nat /\ Len(Sent) \in Nat
        /\ Len(Sent) = Len(relayed) + Len(raw) /\ Len(raw) \in Nat
        /\ \A i \in 1 .. Len(relayed) : Sent[i] = relayed[i]
    BY ConcatProperties, LenProperties DEF StreamTypeOK, Sent
  <2>1. ASSUME ~full PROVE /\ Len(received) <= Len(relayed)
                           /\ \A i \in 1 .. Len(received) : received[i] = relayed[i]
    BY <2>0, <2>1, ConcatProperties, LenProperties DEF RelayedArrives
  <2>2. ~full => IsPrefix(received, relayed)
    BY <2>0, <2>1, SubSeqProperties DEF IsPrefix
  <2>3. ASSUME listener = "finished", ~full, ~broke
        PROVE  received = [i \in 1 .. Pieces + 1 |-> IF i <= Pieces THEN i ELSE Finish]
    <3>1. Len(received) # 0 /\ received[Len(received)] = Finish
      BY <2>0, <2>3, EmptySeq DEF RelayedArrives
    <3>2. \A i \in 1 .. Len(received) : received[i] = Sent[i] /\ i <= Len(Sent) /\ i <= Len(relayed)
      <4>1. Len(received) <= Len(relayed) /\ \A i \in 1 .. Len(received) : received[i] = relayed[i]
        BY <2>1, <2>3
      <4> QED
        BY <2>0, <4>1
    <3>3. \A i \in 1 .. Len(received) : received[i] = IF i <= piecesSent THEN i ELSE Finish
      BY <2>0, <3>2 DEF PiecesInOrder
    <3>4. Len(received) > piecesSent /\ Len(Sent) > piecesSent
      <4>1. Len(received) \in 1 .. Len(received) /\ piecesSent \in Nat /\ Len(received) <= Len(Sent)
        BY <2>0, <3>1, <3>2, StreamSizes DEF StreamTypeOK
      <4>2. ~(Len(received) <= piecesSent)
        BY <2>0, <3>1, <3>3, <4>1 DEF Finish
      <4> QED
        BY <2>0, <4>1, <4>2
    <3>5. piecesSent = Pieces
      BY <2>3, <3>4 DEF PiecesInOrder
    <3>6. \A i \in 1 .. Len(received) - 1 : received[i] # Finish
      <4>1. Len(received) <= Len(relayed) /\ \A i \in 1 .. Len(received) : received[i] = relayed[i]
        BY <2>1, <2>3
      <4>2. \A i \in 1 .. Len(relayed) - 1 : relayed[i] # Finish
        BY DEF RelayedArrives
      <4> SUFFICES ASSUME NEW i \in 1 .. Len(received) - 1 PROVE received[i] # Finish
        OBVIOUS
      <4>3. i \in 1 .. Len(received) /\ i \in 1 .. Len(relayed) - 1
        BY <2>0, <4>1
      <4> QED
        BY <4>1, <4>2, <4>3
    <3>7. Len(received) = Pieces + 1
      <4>1. CASE Len(received) > Pieces + 1
        <5>1. Pieces + 1 \in 1 .. Len(received) - 1
          BY <2>0, <4>1, StreamSizes
        <5>2. received[Pieces + 1] = Finish
          <6>1. Pieces + 1 \in 1 .. Len(received) /\ ~(Pieces + 1 <= piecesSent)
            BY <2>0, <3>5, <5>1, StreamSizes
          <6> QED
            BY <3>3, <6>1
        <5> QED
          BY <3>6, <5>1, <5>2
      <4> QED
        BY <2>0, <3>4, <3>5, <4>1, StreamSizes
    <3>8. received = [i \in 1 .. Len(received) |-> received[i]]
      BY <2>0
    <3> QED
      BY <3>3, <3>5, <3>7, <3>8
  <2>4. \A i \in 1 .. MaxStreamTries : Len(outcomes[i]) <= 1
    BY DEF TriesRecorded
  <2>5. relay = "closed" =>
          /\ outcomes[tryNo] = IF Contains(relayed, Finish) THEN <<"success">> ELSE <<"failure">>
          /\ costs = IF Contains(relayed, Finish) THEN 1 ELSE 0
    BY DEF TriesRecorded
  <2> QED
    BY <2>2, <2>3, <2>4, <2>5 DEF StreamAccounted
<1> QED
  BY <1>1, <1>2, StreamInitial, PTL DEF StreamRelaySpec
================================================================================
