------------------------------ MODULE ModelRouter ------------------------------
(***************************************************************************)
(* ExecuteWithFailover, internal/llm/provider.go, over the health monitor  *)
(* (health.go), one circuit breaker per provider (circuit_breaker.go), the *)
(* response cache (cache.go) and the budget guard (internal/cost).         *)
(*                                                                         *)
(* Calls are the goroutines inside ExecuteWithFailover, each for one task  *)
(* and one prompt; every lock section or provider request of a call is one *)
(* action.  The background health checks of StartHealthChecks run beside   *)
(* them.  A candidate is a model of the price table with the cost          *)
(* estimate the budget is asked about.                                     *)
(***************************************************************************)
EXTENDS BreakerCore, FiniteSets, Sequences, SequencesExt

CONSTANTS
    Calls,          \* concurrent executions
    Tasks,          \* task ids, the keys of the task budget
    TaskOf,         \* the task each call is for
    Providers,      \* the registered providers
    Models,         \* the price table
    ProviderOf,     \* model -> provider
    EstCost,        \* model -> rankCandidates' estimate for the prompt
    Considered,     \* call -> the target model, if any, and the tier's models
                    \* that have the capabilities the task requires
    Fallback,       \* call -> llm.default_model as a list of one, or the empty list
                    \* when it lacks a capability the task requires
    Budget,         \* BudgetPerTask
    Costs,          \* what one response may really cost
    MaxCost,        \* bound on it
    MaxSpent        \* bound on recorded spend, to keep the model finite

ASSUME RouterAssumption ==
    /\ TaskOf \in [Calls -> Tasks]
    /\ ProviderOf \in [Models -> Providers]
    /\ EstCost \in [Models -> Nat]
    /\ Considered \in [Calls -> Seq(Models)] /\ Fallback \in [Calls -> Seq(Models)]
    /\ IsFiniteSet(Calls) /\ IsFiniteSet(Providers)
    /\ Budget \in Nat \ { 0 } /\ MaxCost \in Nat /\ Costs \subseteq 0 .. MaxCost /\ MaxSpent \in Nat

VARIABLES
    pc,             \* where each call is
    queue,          \* the attempts it has left, as candidates
    tried,          \* the providers already attempted
    lastResort,     \* in the second loop, over the providers not attempted
    refused,        \* the executions one of whose attempts exceeded the budget
    chatOK,         \* whether its current provider request succeeded
    healthy,        \* the providers whose Status is StatusHealthy
    breaker,        \* circuitBreakers
    cooled,         \* time.Since(lastFailure) > timeout, per breaker
    cached,         \* the keys of live cache entries: model and the task's prompt
    usage           \* budget usage per task

routerVars == <<pc, queue, tried, lastResort, refused, chatOK, healthy, breaker, cooled, cached, usage>>

callVars == <<queue, tried, lastResort, refused, chatOK>>
sharedVars == <<healthy, breaker, cooled, cached, usage>>

Candidates == [model : Models, est : Nat]

Steps == { "idle", "gate", "cache", "budget", "chat", "record", "enter", "exit",
           "charge", "served", "failed", "unroutable" }

Returned == { "idle", "served", "failed", "unroutable" }

RouterTypeOK ==
    /\ pc \in [Calls -> Steps]
    /\ queue \in [Calls -> Seq(Candidates)]
    /\ tried \in [Calls -> SUBSET Providers]
    /\ lastResort \in [Calls -> BOOLEAN]
    /\ refused \subseteq Calls
    /\ chatOK \in [Calls -> BOOLEAN]
    /\ healthy \subseteq Providers
    /\ breaker \in [Providers -> Breakers]
    /\ cooled \in [Providers -> BOOLEAN]
    /\ cached \subseteq Models \X Tasks
    /\ usage \in [Tasks -> Nat]

RouterInit ==
    /\ pc = [c \in Calls |-> "idle"]
    /\ queue = [c \in Calls |-> <<>>]
    /\ tried = [c \in Calls |-> {}]
    /\ lastResort = [c \in Calls |-> FALSE]
    /\ refused = {}
    /\ chatOK = [c \in Calls |-> FALSE]
    /\ healthy = Providers
    /\ breaker = [p \in Providers |-> NewBreaker]
    /\ cooled = [p \in Providers |-> TRUE]
    /\ cached = {}
    /\ usage = [t \in Tasks |-> 0]

--------------------------------------------------------------------------------
(* Health and routing *)

\* One failure makes a provider Unhealthy, three Down, and routing excludes both;
\* any success makes it Healthy (the error rate is zeroed first, so Degraded is
\* never assigned).
RecordFailure(p) == healthy \ { p }
RecordSuccess(p) == healthy \cup { p }

Candidate(m) == [model |-> m, est |-> EstCost[m]]

\* addCandidate over a list of models: the places of those it accepts.
Viable(list) == { i \in DOMAIN list : ProviderOf[list[i]] \in healthy }

\* The models to consider; the default model when none of them has a healthy provider.
Offered(c) == IF Viable(Considered[c]) # {} THEN Considered[c] ELSE Fallback[c]

\* sort.Slice by estimated cost; equal estimates may come in any order (their
\* confidence is read later, under another lock).
Rankings(list) ==
    { r \in { [i \in DOMAIN p |-> Candidate(list[p[i]])] : p \in SetToSeqs(Viable(list)) } :
        \A i, j \in DOMAIN r : i < j => r[i].est <= r[j].est }

\* The primary and at most three fallbacks.
FirstFour(s) == SubSeq(s, 1, IF Len(s) < 4 THEN Len(s) ELSE 4)

Current(c) == Head(queue[c])
ProviderNow(c) == ProviderOf[Current(c).model]

(* Mutants *)

\* The second loop over the providers not attempted is left out.
ExhaustedGivesUp(c) ==
    /\ pc[c] = "gate" /\ queue[c] = <<>> /\ ~lastResort[c]
    /\ pc' = [pc EXCEPT ![c] = "failed"]
    /\ UNCHANGED <<callVars, sharedVars>>

\* A failed attempt is retried in place.
NextAttemptRetries(c) ==
    /\ pc' = [pc EXCEPT ![c] = "gate"]
    /\ UNCHANGED <<queue, tried, lastResort>>

--------------------------------------------------------------------------------
(* A call *)

\* ExecuteWithFailover routes; with no healthy candidate it fails at once.
Route(c) ==
    /\ pc[c] = "idle"
    /\ \/ /\ Viable(Offered(c)) # {}
          /\ \E r \in Rankings(Offered(c)) : queue' = [queue EXCEPT ![c] = FirstFour(r)]
          /\ pc' = [pc EXCEPT ![c] = "gate"]
       \/ /\ Viable(Offered(c)) = {}
          /\ pc' = [pc EXCEPT ![c] = "unroutable"]
          /\ UNCHANGED queue
    /\ UNCHANGED <<tried, lastResort, refused, chatOK, sharedVars>>

\* The current attempt returned an error, whichever: lastErr, next attempt.
NextAttempt(c) ==
    /\ pc' = [pc EXCEPT ![c] = "gate"]
    /\ queue' = [queue EXCEPT ![c] = Tail(@)]
    /\ tried' = [tried EXCEPT ![c] = @ \cup { ProviderNow(c) }]
    /\ UNCHANGED lastResort

\* The breaker check: an open circuit skips the provider.
Gate(c) ==
    /\ pc[c] = "gate" /\ queue[c] # <<>>
    /\ \/ /\ IsOpen(breaker[ProviderNow(c)])
          /\ NextAttempt(c)
       \/ /\ ~IsOpen(breaker[ProviderNow(c)])
          /\ pc' = [pc EXCEPT ![c] = "cache"]
          /\ UNCHANGED <<queue, tried, lastResort>>
    /\ UNCHANGED <<refused, chatOK, sharedVars>>

Lookup(c) ==
    /\ pc[c] = "cache"
    /\ pc' = [pc EXCEPT ![c] =
                IF <<Current(c).model, TaskOf[c]>> \in cached THEN "served" ELSE "budget"]
    /\ UNCHANGED <<callVars, sharedVars>>

\* BudgetGate: the loops of ExecuteWithFailover take an exceeded budget for an error of
\* the attempt like any other.
BudgetGate(c) ==
    /\ pc[c] = "budget"
    /\ \/ /\ usage[TaskOf[c]] + Current(c).est > Budget
          /\ NextAttempt(c)
          /\ refused' = refused \cup { c }
       \/ /\ usage[TaskOf[c]] + Current(c).est <= Budget
          /\ pc' = [pc EXCEPT ![c] = "chat"]
          /\ UNCHANGED <<queue, tried, lastResort, refused>>
    /\ UNCHANGED <<chatOK, sharedVars>>

\* provider.Chat answers or fails.
Chat(c) ==
    /\ pc[c] = "chat"
    /\ \E ok \in BOOLEAN : chatOK' = [chatOK EXCEPT ![c] = ok]
    /\ pc' = [pc EXCEPT ![c] = "record"]
    /\ UNCHANGED <<queue, tried, lastResort, refused, sharedVars>>

\* healthMonitor.RecordFailure or RecordSuccess.
RecordHealth(c) ==
    /\ pc[c] = "record"
    /\ healthy' = IF chatOK[c] THEN RecordSuccess(ProviderNow(c))
                             ELSE RecordFailure(ProviderNow(c))
    /\ pc' = [pc EXCEPT ![c] = "enter"]
    /\ UNCHANGED <<callVars, breaker, cooled, cached, usage>>

\* What follows cb.Execute: the response is charged and cached, or the error
\* moves on to the next attempt.
AfterExecute(c) ==
    \/ /\ chatOK[c]
       /\ pc' = [pc EXCEPT ![c] = "charge"]
       /\ UNCHANGED <<queue, tried, lastResort>>
    \/ /\ ~chatOK[c]
       /\ NextAttempt(c)

\* cb.Execute, told of a result that is already known: its first section.
ExecuteEnter(c) ==
    LET p == ProviderNow(c) IN
    /\ pc[c] = "enter"
    /\ \/ /\ Admits(breaker[p], cooled[p])
          /\ breaker' = [breaker EXCEPT ![p] = Admitted(@)]
          /\ pc' = [pc EXCEPT ![c] = "exit"]
          /\ UNCHANGED <<queue, tried, lastResort>>
       \/ /\ ~Admits(breaker[p], cooled[p])
          /\ AfterExecute(c)
          /\ UNCHANGED breaker
    /\ UNCHANGED <<refused, chatOK, healthy, cooled, cached, usage>>

\* Its second section.
ExecuteExit(c) ==
    LET p == ProviderNow(c) IN
    /\ pc[c] = "exit"
    /\ \/ /\ chatOK[c]
          /\ breaker' = [breaker EXCEPT ![p] = Succeeded(@)]
          /\ UNCHANGED cooled
       \/ /\ ~chatOK[c]
          /\ breaker' = [breaker EXCEPT ![p] = Failed(@)]
          /\ cooled' = [cooled EXCEPT ![p] = FALSE]
    /\ AfterExecute(c)
    /\ UNCHANGED <<refused, chatOK, healthy, cached, usage>>

\* budget.RecordCost with the real cost of the response, then cache.Set.
Charge(c) ==
    /\ pc[c] = "charge"
    /\ \E cost \in Costs :
          /\ usage[TaskOf[c]] + cost <= MaxSpent
          /\ usage' = [usage EXCEPT ![TaskOf[c]] = @ + cost]
    /\ cached' = cached \cup { <<Current(c).model, TaskOf[c]>> }
    /\ pc' = [pc EXCEPT ![c] = "served"]
    /\ UNCHANGED <<callVars, healthy, breaker, cooled>>

\* defaultModelFor finds a model in the price table.
Priced == { ProviderOf[m] : m \in Models }

\* The first loop is over: any model of each registered provider not yet
\* attempted, in the map's order, with no cost estimate.
Exhausted(c) ==
    /\ pc[c] = "gate" /\ queue[c] = <<>> /\ ~lastResort[c]
    /\ \E order \in SetToSeqs(Priced \ tried[c]) :
       \E model \in { f \in [Priced \ tried[c] -> Models] :
                        \A p \in DOMAIN f : ProviderOf[f[p]] = p } :
          queue' = [queue EXCEPT ![c] =
              [i \in DOMAIN order |-> [model |-> model[order[i]], est |-> 0]]]
    /\ lastResort' = [lastResort EXCEPT ![c] = TRUE]
    /\ UNCHANGED <<pc, tried, refused, chatOK, sharedVars>>

\* "all providers failed".
Fail(c) ==
    /\ pc[c] = "gate" /\ queue[c] = <<>> /\ lastResort[c]
    /\ pc' = [pc EXCEPT ![c] = "failed"]
    /\ UNCHANGED <<callVars, sharedVars>>

\* The caller has its answer and may ask again (the next step of the task); the
\* execution's locals are gone.
Return(c) ==
    /\ pc[c] \in Returned \ { "idle" }
    /\ pc' = [pc EXCEPT ![c] = "idle"]
    /\ queue' = [queue EXCEPT ![c] = <<>>]
    /\ tried' = [tried EXCEPT ![c] = {}]
    /\ lastResort' = [lastResort EXCEPT ![c] = FALSE]
    /\ refused' = refused \ { c }
    /\ chatOK' = [chatOK EXCEPT ![c] = FALSE]
    /\ UNCHANGED sharedVars

--------------------------------------------------------------------------------
(* Beside the calls *)

\* One CheckHealth: the probe's result is recorded, the breakers are not told.
CheckHealth(p) ==
    /\ healthy' \in { RecordSuccess(p), RecordFailure(p) }
    /\ UNCHANGED <<pc, callVars, breaker, cooled, cached, usage>>

\* A breaker's timeout since its last failure passes; only an open one looks.
CoolDown(p) ==
    /\ IsOpen(breaker[p]) /\ ~cooled[p]
    /\ cooled' = [cooled EXCEPT ![p] = TRUE]
    /\ UNCHANGED <<pc, callVars, healthy, breaker, cached, usage>>

\* A cache entry's TTL passes.
Evict ==
    /\ cached # {}
    /\ \E e \in cached : cached' = cached \ { e }
    /\ UNCHANGED <<pc, callVars, healthy, breaker, cooled, usage>>

Work(c) ==
    \/ Gate(c) \/ Lookup(c) \/ BudgetGate(c) \/ Chat(c) \/ RecordHealth(c)
    \/ ExecuteEnter(c) \/ ExecuteExit(c) \/ Charge(c) \/ Exhausted(c) \/ Fail(c)

RouterNext ==
    \/ \E c \in Calls : Route(c) \/ Work(c) \/ Return(c)
    \/ \E p \in Providers : CheckHealth(p) \/ CoolDown(p)
    \/ Evict

RouterSpec == RouterInit /\ [][RouterNext]_routerVars

--------------------------------------------------------------------------------

(***************************************************************************)
(* provider.go:506-557.  "all providers failed" means it: an execution     *)
(* that got past routing, and that the budget refused nothing, gives up    *)
(* only after every registered provider with a model was attempted,        *)
(* whatever happened to health and breakers while it was under way.  (For  *)
(* one that was refused see RefusalEnds.)                                  *)
(***************************************************************************)
TriesEveryProvider ==
    \A c \in Calls : pc[c] = "failed" /\ c \notin refused => Priced \subseteq tried[c]

(***************************************************************************)
(* provider.go:593-617.  The budget is checked before the request and the  *)
(* real cost is recorded after it, so concurrent executions for one task   *)
(* can overshoot; the overshoot is at most one response each, however many *)
(* executions the task makes one after the other.                          *)
(***************************************************************************)
OvershootBounded ==
    \A t \in Tasks :
        usage[t] <= Budget + MaxCost * Cardinality({ c \in Calls : TaskOf[c] = t })

(***************************************************************************)
(* provider.go:506-617.  A failover neither skips a provider nor spends    *)
(* past the budget by more than what was under way.                        *)
(***************************************************************************)
FailoverSound == RouterTypeOK /\ TriesEveryProvider /\ OvershootBounded

\* How far a call is from returning: the steps left of the current attempt, the
\* attempts left, and the second loop.
StepsLeft == [gate |-> 8, cache |-> 7, budget |-> 6, chat |-> 5, record |-> 4,
              enter |-> 3, exit |-> 2, charge |-> 1]

Remaining(c) ==
    IF pc[c] \in Returned THEN 0
    ELSE StepsLeft[pc[c]] + 8 * Len(queue[c])
            + (IF lastResort[c] THEN 0 ELSE 8 * (Cardinality(Providers) + 1))

(***************************************************************************)
(* provider.go:510-557.  The failover loops end: every step of an          *)
(* execution brings it closer to its return, whatever providers, health    *)
(* checks, breakers and other executions do.  No failed attempt is         *)
(* repeated and the last resort is entered once.                           *)
(***************************************************************************)
AttemptsRunOut ==
    [][\A c \in Calls : pc[c] \notin Returned =>
          \/ UNCHANGED <<pc[c], queue[c], lastResort[c]>>
          \/ Remaining(c)' < Remaining(c)]_routerVars

--------------------------------------------------------------------------------
(* What comments say and the code does not do *)

(***************************************************************************)
(* provider.go:559-561, 596.  A budget error is "returned without trying   *)
(* fallbacks", "do not retry other providers": an execution that the       *)
(* budget refused sends no request to a provider any more.                 *)
(***************************************************************************)
RefusalEnds == \A c \in refused : pc[c] # "chat"

================================================================================
