----------------------------- MODULE BudgetManager -----------------------------
(***************************************************************************)
(* Budget enforcement across restarts: internal/cost/budget.go over the    *)
(* budget_usage table of internal/cost/store.go.                           *)
(*                                                                         *)
(* A user of the manager is an LLM request: CheckBudget before it, and     *)
(* RecordCost after it succeeded.  Each lock section and each statement    *)
(* sent to the table is one action.  A response costs one unit.  The       *)
(* server passes a default organisation budget of zero and sets no other   *)
(* limit, so the organisation's usage is kept and never limits anything.   *)
(***************************************************************************)
EXTENDS FiniteSets, Naturals

CONSTANTS
    Spenders,       \* concurrent requests
    BudgetTasks,    \* the task keys
    TaskFor,        \* the task each request is for
    OrgKey,         \* the organisation's key, not a task
    TaskBudget,     \* the default task budget
    MaxUsage,       \* bound on the spend recorded under a key
    LoadFails,      \* whether LoadUsage may fail
    StoreFails,     \* whether AddUsage may fail
    MaxCrashes      \* bound on crashes

ASSUME BudgetAssumption ==
    /\ TaskFor \in [Spenders -> BudgetTasks] /\ OrgKey \notin BudgetTasks
    /\ IsFiniteSet(Spenders)
    /\ TaskBudget \in Nat \ { 0 } /\ MaxUsage \in Nat /\ MaxCrashes \in Nat
    /\ LoadFails \in BOOLEAN /\ StoreFails \in BOOLEAN

UsageKeys == BudgetTasks \cup { OrgKey }

VARIABLES
    stage,          \* where each request is
    counters,       \* the in-memory counters
    loaded,         \* usage was read from the table
    loadFailed,     \* history: some LoadUsage failed
    store,          \* the amounts in budget_usage; zero is no row
    crashes,
    spent,          \* history: everything RecordCost was told
    lost            \* history: what a failed AddUsage or a crash kept from the table

budgetVars == <<stage, counters, loaded, loadFailed, store, crashes, spent, lost>>

\* "org" and "task" are the two turns of RecordCost's loop over its keys.
BudgetSteps == { "idle", "check", "request", "org", "task" }

BudgetTypeOK ==
    /\ stage \in [Spenders -> BudgetSteps]
    /\ counters \in [UsageKeys -> 0 .. MaxUsage]
    /\ loaded \in BOOLEAN /\ loadFailed \in BOOLEAN
    /\ store \in [UsageKeys -> 0 .. MaxUsage]
    /\ crashes \in 0 .. MaxCrashes
    /\ spent \in [UsageKeys -> 0 .. MaxUsage]
    /\ lost \in [UsageKeys -> 0 .. MaxUsage]

BudgetInit ==
    /\ stage = [u \in Spenders |-> "idle"]
    /\ counters = [k \in UsageKeys |-> 0]
    /\ loaded = FALSE /\ loadFailed = FALSE
    /\ store = [k \in UsageKeys |-> 0]
    /\ crashes = 0
    /\ spent = [k \in UsageKeys |-> 0]
    /\ lost = [k \in UsageKeys |-> 0]

KeysOf(u) == { OrgKey, TaskFor[u] }

\* Adds one unit under each of the keys K.
AddOne(f, K) == [k \in UsageKeys |-> IF k \in K THEN f[k] + 1 ELSE f[k]]

\* The requests whose cost for key k is recorded and not yet in the table.
Owing(k) ==
    { u \in Spenders : \/ stage[u] = "org" /\ k \in KeysOf(u)
                       \/ stage[u] = "task" /\ k = TaskFor[u] }

(* Mutants *)

\* A failed first AddUsage leaves the loop.
PersistOrgReturns(u) ==
    /\ stage[u] = "org"
    /\ \/ /\ store' = AddOne(store, { OrgKey })
          /\ stage' = [stage EXCEPT ![u] = "task"]
          /\ UNCHANGED lost
       \/ /\ StoreFails
          /\ lost' = AddOne(lost, { OrgKey })
          /\ stage' = [stage EXCEPT ![u] = "idle"]
          /\ UNCHANGED store
    /\ UNCHANGED <<counters, loaded, loadFailed, crashes, spent>>

--------------------------------------------------------------------------------

\* ensureLoaded: once, unless the query fails; a row overwrites memory.
EnsureLoaded(u) ==
    /\ stage[u] = "idle"
    /\ \/ /\ loaded
          /\ UNCHANGED <<counters, loaded, loadFailed>>
       \/ /\ ~loaded
          /\ counters' = [k \in UsageKeys |-> IF store[k] > 0 THEN store[k] ELSE counters[k]]
          /\ loaded' = TRUE
          /\ UNCHANGED loadFailed
       \/ /\ ~loaded /\ LoadFails
          /\ loadFailed' = TRUE
          /\ UNCHANGED <<counters, loaded>>
    /\ stage' = [stage EXCEPT ![u] = "check"]
    /\ UNCHANGED <<store, crashes, spent, lost>>

\* The rest of CheckBudget, for an estimate of one unit or of none (the last
\* resort's): refuses, or lets the request be made.
CheckBudget(u) ==
    /\ stage[u] = "check"
    /\ \E est \in { 0, 1 } :
          stage' = [stage EXCEPT ![u] =
                    IF counters[TaskFor[u]] + est > TaskBudget THEN "idle" ELSE "request"]
    /\ UNCHANGED <<counters, loaded, loadFailed, store, crashes, spent, lost>>

\* The request fails: nothing is recorded.
RequestFails(u) ==
    /\ stage[u] = "request"
    /\ stage' = [stage EXCEPT ![u] = "idle"]
    /\ UNCHANGED <<counters, loaded, loadFailed, store, crashes, spent, lost>>

\* RecordCost's lock section.
RecordCost(u) ==
    /\ stage[u] = "request"
    /\ \A k \in KeysOf(u) : spent[k] < MaxUsage
    /\ counters' = AddOne(counters, KeysOf(u))
    /\ spent' = AddOne(spent, KeysOf(u))
    /\ stage' = [stage EXCEPT ![u] = "org"]
    /\ UNCHANGED <<loaded, loadFailed, store, crashes, lost>>

\* One turn of RecordCost's loop: a failed AddUsage is logged and forgotten.
Persist(u, at, key, next) ==
    /\ stage[u] = at
    /\ \/ /\ store' = AddOne(store, { key })
          /\ UNCHANGED lost
       \/ /\ StoreFails
          /\ lost' = AddOne(lost, { key })
          /\ UNCHANGED store
    /\ stage' = [stage EXCEPT ![u] = next]
    /\ UNCHANGED <<counters, loaded, loadFailed, crashes, spent>>

PersistOrg(u) == Persist(u, "org", OrgKey, "task")
PersistTask(u) == Persist(u, "task", TaskFor[u], "idle")

\* The process dies and is started again: memory is gone, the table stays.
Crash ==
    /\ crashes < MaxCrashes
    /\ crashes' = crashes + 1
    /\ stage' = [u \in Spenders |-> "idle"]
    /\ counters' = [k \in UsageKeys |-> 0]
    /\ loaded' = FALSE
    /\ lost' = [k \in UsageKeys |-> lost[k] + Cardinality(Owing(k))]
    /\ UNCHANGED <<loadFailed, store, spent>>

BudgetNext ==
    \/ \E u \in Spenders :
          \/ EnsureLoaded(u) \/ CheckBudget(u) \/ RequestFails(u)
          \/ RecordCost(u) \/ PersistOrg(u) \/ PersistTask(u)
    \/ Crash

BudgetSpec == BudgetInit /\ [][BudgetNext]_budgetVars

--------------------------------------------------------------------------------

(***************************************************************************)
(* budget.go:181-212.  Every recorded unit is in the table, on its way     *)
(* there, or lost to a failed statement or a crash, and counted only once, *)
(* whatever fails between the two AddUsage calls of a RecordCost.          *)
(***************************************************************************)
SpendAccounted ==
    \A k \in UsageKeys : store[k] + Cardinality(Owing(k)) + lost[k] = spent[k]

(***************************************************************************)
(* budget.go:13-17.  "mirrored to a UsageStore": once loaded, memory knows *)
(* of everything in the table and everything on its way there, so a check  *)
(* never allows what the table would refuse.  This needs every load to     *)
(* have succeeded at once: a later one overwrites costs recorded meanwhile *)
(* whose statements are still under way.                                   *)
(***************************************************************************)
MemoryCoversStore ==
    loaded /\ ~loadFailed =>
        \A k \in UsageKeys : counters[k] >= store[k] + Cardinality(Owing(k))

(***************************************************************************)
(* budget.go:13-17.  "without persistence, restarting would reset spend    *)
(* and silently bypass budgets": over any number of restarts a task spends *)
(* at most its budget, one response for each concurrent request, and what  *)
(* never reached the table; again while loads succeed (a request whose     *)
(* load failed is checked against what memory happens to hold).            *)
(***************************************************************************)
RestartKeepsBudget ==
    ~loadFailed =>
        \A t \in BudgetTasks :
            spent[t] <= TaskBudget + Cardinality({ u \in Spenders : TaskFor[u] = t }) + lost[t]

(***************************************************************************)
(* budget.go:13-212.  Memory, table and what was spent agree through       *)
(* failing statements, late loads and restarts.                            *)
(***************************************************************************)
BudgetConsistent == BudgetTypeOK /\ SpendAccounted /\ MemoryCoversStore /\ RestartKeepsBudget
================================================================================
