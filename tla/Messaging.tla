------------------------------- MODULE Messaging -------------------------------
(*****************************************************************************)
(* What the server delivers until it is taken: the tasks of the JetStream    *)
(* worker and the events of the webhook engine. The two share no state.      *)
(*****************************************************************************)
EXTENDS Integers, FiniteSetsExt

--------------------------------------------------------------------------------
(* The task queue *)

(***************************************************************************)
(* The task worker on JetStream (queue/worker.go): PublishTask, the fetch  *)
(* loop of Start and processMessage.  The stream keeps a message until it  *)
(* is acknowledged; the consumer hands it out again when it is refused     *)
(* (Nak) or when AckWait passes without an answer, MaxDeliver times in     *)
(* all.  A delivery that timed out keeps running in its goroutine.         *)
(***************************************************************************)

CONSTANTS Messages, MaxDeliver

ASSUME TaskQueueAssumption == MaxDeliver \in Nat \ { 0 }

VARIABLES
    queued,         \* [Messages -> "new", "waiting", "out", "acked" or "spent"]
    deliveries,     \* [Messages -> how often it was handed out]
    running,        \* deliveries whose handler runs: <<message, number>>
    succeeded,      \* deliveries whose handler returned nil
    workerUp        \* Start's context is not cancelled

queueVars == <<queued, deliveries, running, succeeded, workerUp>>

TaskQueueInit ==
    /\ queued = [m \in Messages |-> "new"] /\ deliveries = [m \in Messages |-> 0]
    /\ running = {} /\ succeeded = {} /\ workerUp = TRUE

(* Mutants *)

\* A handler's error is acknowledged like a success.
HandlerFailsAcked(m, n) ==
    /\ <<m, n>> \in running /\ running' = running \ { <<m, n>> }
    /\ queued' = [queued EXCEPT ![m] = "acked"]
    /\ UNCHANGED <<deliveries, succeeded, workerUp>>

--------------------------------------------------------------------------------

PublishTask(m) ==
    /\ queued[m] = "new"
    /\ queued' = [queued EXCEPT ![m] = "waiting"]
    /\ UNCHANGED <<deliveries, running, succeeded, workerUp>>

\* Fetch(1) and the goroutine of the message.
Fetch(m) ==
    /\ workerUp /\ queued[m] = "waiting"
    /\ queued' = [queued EXCEPT ![m] = "out"]
    /\ deliveries' = [deliveries EXCEPT ![m] = @ + 1]
    /\ running' = running \cup { <<m, deliveries[m] + 1>> }
    /\ UNCHANGED <<succeeded, workerUp>>

\* What the consumer does with a message that is refused or forgotten: after
\* MaxDeliver deliveries it is left in the stream and not handed out again.
Requeued(m) == IF deliveries[m] < MaxDeliver THEN "waiting" ELSE "spent"

\* A Nak ends the wait of its own delivery; one that comes late, while a later
\* delivery is out, may be ignored.
Nak(m, n) ==
    \/ queued' = [queued EXCEPT ![m] = IF @ = "out" THEN Requeued(m) ELSE @]
    \/ deliveries[m] # n /\ UNCHANGED queued

\* Ack settles the message even from a delivery that timed out.
HandlerReturns(m, n) ==
    /\ <<m, n>> \in running /\ running' = running \ { <<m, n>> }
    /\ succeeded' = succeeded \cup { <<m, n>> }
    /\ queued' = [queued EXCEPT ![m] = "acked"]
    /\ UNCHANGED <<deliveries, workerUp>>

\* NakWithDelay(5s) after an error, NakWithDelay(2s) after a panic.
HandlerFails(m, n) ==
    /\ <<m, n>> \in running /\ running' = running \ { <<m, n>> }
    /\ Nak(m, n)
    /\ UNCHANGED <<deliveries, succeeded, workerUp>>

AckWaitOver(m) ==
    /\ queued[m] = "out"
    /\ queued' = [queued EXCEPT ![m] = Requeued(m)]
    /\ UNCHANGED <<deliveries, running, succeeded, workerUp>>

\* The process goes down: its goroutines end unanswered, the stream stays.
WorkerDies ==
    /\ workerUp /\ workerUp' = FALSE
    /\ running' = {}
    /\ UNCHANGED <<queued, deliveries, succeeded>>

WorkerRestarts ==
    /\ ~workerUp /\ workerUp' = TRUE
    /\ UNCHANGED <<queued, deliveries, running, succeeded>>

TaskQueueNext ==
    \/ \E m \in Messages :
          \/ PublishTask(m) \/ Fetch(m) \/ AckWaitOver(m)
          \/ \E n \in 1 .. MaxDeliver : HandlerReturns(m, n) \/ HandlerFails(m, n)
    \/ WorkerDies \/ WorkerRestarts

TaskQueueSpec == TaskQueueInit /\ [][TaskQueueNext]_queueVars

--------------------------------------------------------------------------------
(* Properties *)

(***************************************************************************)
(* worker.go:143-170.  A task leaves the queue only because a handler      *)
(* finished it: through errors, panics, crashes and redeliveries of a task *)
(* that still runs, an acknowledged message has a delivery whose handler   *)
(* returned nil, an unfinished one is still in the stream, and none is     *)
(* handed out more than MaxDeliver times.                                  *)
(***************************************************************************)
TasksKept ==
    \A m \in Messages :
        /\ queued[m] = "acked" <=> \E n \in 1 .. MaxDeliver : <<m, n>> \in succeeded
        /\ queued[m] = "spent" => deliveries[m] = MaxDeliver
        /\ deliveries[m] <= MaxDeliver

--------------------------------------------------------------------------------
(* Webhooks *)

(***************************************************************************)
(* The webhook engine (webhook/webhook.go): endpoints in the database and   *)
(* a cached list of them, deliveries that share a bounded number of slots,  *)
(* and retries from timers, which compete for the same slots.  An event     *)
(* goes to every active endpoint that subscribes to its type.  Time         *)
(* advances in units of which the cache lives CacheTTL.                     *)
(***************************************************************************)

CONSTANTS
    Endpoints,
    HookEvents,     \* calls of Dispatch
    Replays,        \* those that come from replayWebhookHandler
    MaxSlots, MaxRetry, CacheTTL

ASSUME WebhooksAssumption ==
    /\ Replays \subseteq HookEvents /\ IsFiniteSet(HookEvents) /\ IsFiniteSet(Endpoints)
    /\ { MaxSlots, MaxRetry, CacheTTL } \subseteq Nat \ { 0 }

VARIABLES
    endpoints,      \* rows of webhook_endpoints
    age,            \* [Endpoints -> time since its row was deleted, 0 before]
    cache, cacheAge,\* Engine.cache and its age; CacheTTL is expired
    dispatched,     \* events that were dispatched
    delivery,       \* [Deliveries -> where it is]
    tries,          \* [Deliveries -> its retryCount]
    slotsTaken,     \* len(slots)
    failures,       \* endpoints with a failed row in webhook_deliveries
    overdue         \* history: sent to an endpoint deleted before the cache was read

hookVars == <<endpoints, age, cache, cacheAge, dispatched, delivery, tries, slotsTaken,
              failures, overdue>>

Deliveries == HookEvents \X Endpoints
WebhooksInit ==
    /\ endpoints = {} /\ age = [e \in Endpoints |-> 0]
    /\ cache = {} /\ cacheAge = CacheTTL /\ dispatched = {}
    /\ delivery = [d \in Deliveries |-> "none"] /\ tries = [d \in Deliveries |-> 0]
    /\ slotsTaken = 0 /\ failures = {} /\ overdue = FALSE

(* Mutants                                                                  *)

\* A retry runs outside the pool.
RetryFiresUnbounded(d) ==
    /\ delivery[d] = "backoff"
    /\ delivery' = [delivery EXCEPT ![d] = "running"]
    /\ tries' = [tries EXCEPT ![d] = @ + 1]
    /\ UNCHANGED <<endpoints, age, cache, cacheAge, dispatched, slotsTaken, failures, overdue>>

--------------------------------------------------------------------------------
(* createWebhookHandler, deleteWebhookHandler                               *)

Register(e) ==
    /\ e \notin endpoints /\ age[e] = 0
    /\ endpoints' = endpoints \cup { e }
    /\ UNCHANGED <<age, cache, cacheAge, dispatched, delivery, tries, slotsTaken, failures, overdue>>

\* The row and, by the foreign key, its deliveries; the cache is left alone.
Unregister(e) ==
    /\ e \in endpoints
    /\ endpoints' = endpoints \ { e }
    /\ failures' = failures \ { e }
    /\ age' = [age EXCEPT ![e] = 1]
    /\ UNCHANGED <<cache, cacheAge, dispatched, delivery, tries, slotsTaken, overdue>>

--------------------------------------------------------------------------------

\* An empty list is a nil slice and counts as no cache.
Fresh == cacheAge < CacheTTL /\ cache # {}

\* cachedEndpoints, up to the list it returns: a failed query falls back on the
\* list of any age.
CachedEndpoints ==
    IF Fresh THEN cache ELSE endpoints

\* Dispatch: every endpoint of the list takes a slot or is skipped.  In which
\* order does not matter to the properties.
FanOut(ev, list) ==
    /\ dispatched' = dispatched \cup { ev }
    /\ \E taken \in SUBSET list :
          /\ Cardinality(taken) = Min({ MaxSlots - slotsTaken, Cardinality(list) })
          /\ slotsTaken' = slotsTaken + Cardinality(taken)
          /\ delivery' = [d \in Deliveries |->
                IF d[1] # ev \/ d[2] \notin list THEN delivery[d]
                ELSE IF d[2] \in taken THEN "running" ELSE "dropped"]

Dispatch(ev) ==
    /\ ev \notin dispatched
    /\ FanOut(ev, CachedEndpoints)
    /\ cache' = CachedEndpoints
    /\ cacheAge' = IF Fresh THEN cacheAge ELSE 0
    /\ overdue' = (overdue \/ \E e \in CachedEndpoints : age[e] > CacheTTL)
    /\ UNCHANGED <<endpoints, age, tries, failures>>

DispatchEvent(ev) == ev \notin Replays /\ Dispatch(ev)

\* The list cannot be read and is not fresh.
DispatchStale(ev) ==
    /\ ev \notin dispatched \cup Replays /\ ~Fresh
    /\ FanOut(ev, cache)
    /\ UNCHANGED <<endpoints, age, cache, cacheAge, tries, failures, overdue>>

\* replayWebhookHandler dispatches an event of the failed one's type anew: to all
\* subscribers, not to the endpoint alone.
ReplayWebhook(ev) ==
    /\ ev \in Replays /\ failures # {}
    /\ Dispatch(ev)

--------------------------------------------------------------------------------
(* deliver, in a goroutine that holds a slot                                *)

GivesSlotBack(d, s) ==
    /\ delivery' = [delivery EXCEPT ![d] = s]
    /\ slotsTaken' = slotsTaken - 1

\* A 2xx answer, or a URL that is not valid any more.
DeliverDone(d) ==
    /\ delivery[d] = "running" /\ GivesSlotBack(d, "done")
    /\ UNCHANGED <<endpoints, age, cache, cacheAge, dispatched, tries, failures, overdue>>

\* Any other answer or an error is recorded, unless that fails too, and retried.
DeliverFails(d) ==
    /\ delivery[d] = "running"
    /\ GivesSlotBack(d, IF tries[d] < MaxRetry THEN "backoff" ELSE "failed")
    /\ \/ failures' = failures \cup ({ d[2] } \cap endpoints)
       \/ UNCHANGED failures
    /\ UNCHANGED <<endpoints, age, cache, cacheAge, dispatched, tries, overdue>>

\* The timer of scheduleRetry.
RetryFires(d) ==
    /\ delivery[d] = "backoff"
    /\ \/ /\ slotsTaken < MaxSlots /\ slotsTaken' = slotsTaken + 1
          /\ delivery' = [delivery EXCEPT ![d] = "running"]
          /\ tries' = [tries EXCEPT ![d] = @ + 1]
       \/ /\ slotsTaken >= MaxSlots
          /\ delivery' = [delivery EXCEPT ![d] = "dropped"]
          /\ UNCHANGED <<slotsTaken, tries>>
    /\ UNCHANGED <<endpoints, age, cache, cacheAge, dispatched, failures, overdue>>

WebhooksTick ==
    /\ cacheAge' = Min({ cacheAge + 1, CacheTTL })
    /\ age' = [e \in Endpoints |-> IF age[e] = 0 THEN 0 ELSE Min({ age[e] + 1, CacheTTL + 1 })]
    /\ UNCHANGED <<endpoints, cache, dispatched, delivery, tries, slotsTaken, failures, overdue>>

DeliveryStep(d) == DeliverDone(d) \/ DeliverFails(d) \/ RetryFires(d)

WebhooksNext ==
    \/ \E e \in Endpoints : Register(e) \/ Unregister(e)
    \/ \E ev \in HookEvents : DispatchEvent(ev) \/ DispatchStale(ev) \/ ReplayWebhook(ev)
    \/ \E d \in Deliveries : DeliveryStep(d)
    \/ WebhooksTick

WebhooksSpec == WebhooksInit /\ [][WebhooksNext]_hookVars

--------------------------------------------------------------------------------
(* Properties                                                               *)

(***************************************************************************)
(* webhook.go:199-229, 262-276, 355-373.  The slots count exactly the       *)
(* deliveries that run, first attempts and retries alike, so no more than   *)
(* the pool allows are in flight; no delivery is tried more than            *)
(* 1 + maxRetry times, whatever is dropped, replayed or deleted in between; *)
(* and an event dispatched longer than the cache's life after an endpoint   *)
(* was deleted does not go there, unless the list could not be read.        *)
(***************************************************************************)
FanOutBounded ==
    /\ slotsTaken = Cardinality({ d \in Deliveries : delivery[d] = "running" })
    /\ slotsTaken <= MaxSlots
    /\ \A d \in Deliveries : tries[d] <= MaxRetry
    /\ ~overdue
================================================================================
