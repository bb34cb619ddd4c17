---------------------------- MODULE Services_proofs ----------------------------
(***************************************************************************)
(* The services around the agent, for any number of messages, endpoints,   *)
(* callers, connections, pods and goroutines: the task queue and the       *)
(* webhooks (Messaging); idempotent requests, the limits and the response  *)
(* cache (Middleware); the working memory (WorkingMemory); the LLM gateway *)
(* (ProxyGate); the hub (Hub); the migrations (Database); the hot reload   *)
(* and the feature flags (HotReload); the code review (ReviewPipeline);    *)
(* the life of the process (ServerLifecycle); the judging of generated     *)
(* code (RequestPipeline, DualEngine).                                     *)
(***************************************************************************)
EXTENDS Messaging, Middleware, WorkingMemory, ProxyGate, Hub, Database, HotReload,
        ReviewPipeline, ServerLifecycle, GeneratedCode, FiniteSetTheorems, SequenceTheorems, TLAPS

--------------------------------------------------------------------------------
(* The task queue *)

MessageStates == { "new", "waiting", "out", "acked", "spent" }

(***************************************************************************)
(* TasksKept is not inductive: the bound on deliveries needs a waiting     *)
(* message to have one left, and the acknowledgements need the number of a *)
(* running delivery to be one that was handed out.                         *)
(***************************************************************************)
QueueInv ==
    /\ queued \in [Messages -> MessageStates]
    /\ deliveries \in [Messages -> 0 .. MaxDeliver]
    /\ running \subseteq Messages \X (1 .. MaxDeliver)
    /\ succeeded \subseteq Messages \X (1 .. MaxDeliver)
    /\ \A m \in Messages :
          /\ queued[m] = "new" => deliveries[m] = 0
          /\ queued[m] = "waiting" => deliveries[m] < MaxDeliver
          /\ queued[m] = "spent" => deliveries[m] = MaxDeliver
          /\ queued[m] = "acked" <=> \E n \in 1 .. MaxDeliver : <<m, n>> \in succeeded

\* A message moves to state s, nothing else does.
LEMMA QueuedChange ==
    ASSUME QueueInv, NEW m \in Messages, NEW s \in MessageStates \ { "new", "acked" },
           queued[m] # "acked",
           queued' = [queued EXCEPT ![m] = s], UNCHANGED <<deliveries, succeeded>>,
           running' \subseteq running,
           s = "waiting" => deliveries[m] < MaxDeliver,
           s = "spent" => deliveries[m] = MaxDeliver
    PROVE  QueueInv'
  BY DEF QueueInv

\* What Requeued says of a message that is handed back.
LEMMA RequeuedState ==
    ASSUME QueueInv, NEW m \in Messages
    PROVE  /\ Requeued(m) \in MessageStates \ { "new", "acked" }
           /\ Requeued(m) = "waiting" => deliveries[m] < MaxDeliver
           /\ Requeued(m) = "spent" => deliveries[m] = MaxDeliver
  <1>1. deliveries[m] \in 0 .. MaxDeliver /\ MaxDeliver \in Nat
    BY TaskQueueAssumption DEF QueueInv
  <1>2. CASE deliveries[m] < MaxDeliver
    BY <1>2 DEF Requeued, MessageStates
  <1>3. CASE ~(deliveries[m] < MaxDeliver)
    BY <1>1, <1>3 DEF Requeued, MessageStates
  <1> QED
    BY <1>2, <1>3

(***************************************************************************)
(* worker.go:143-170.  The queue's invariant through every redelivery,     *)
(* late answer and crash of the worker.                                    *)
(***************************************************************************)
THEOREM QueueInvariant == TaskQueueSpec => []QueueInv
  <1>1. TaskQueueInit => QueueInv
    BY TaskQueueAssumption DEF TaskQueueInit, QueueInv, MessageStates
  <1>2. QueueInv /\ [TaskQueueNext]_queueVars => QueueInv'
    <2> SUFFICES ASSUME QueueInv, [TaskQueueNext]_queueVars PROVE QueueInv'
      OBVIOUS
    <2>1. ASSUME NEW m \in Messages, PublishTask(m) PROVE QueueInv'
      <3>1. deliveries[m] < MaxDeliver /\ "waiting" \in MessageStates \ { "new", "acked" }
        BY <2>1, TaskQueueAssumption DEF PublishTask, QueueInv, MessageStates
      <3> QED
        BY <2>1, <3>1, QueuedChange DEF PublishTask
    <2>2. ASSUME NEW m \in Messages, Fetch(m) PROVE QueueInv'
      <3>1. deliveries[m] + 1 \in 1 .. MaxDeliver
        BY <2>2, TaskQueueAssumption DEF Fetch, QueueInv
      <3>2. /\ queued' \in [Messages -> MessageStates] /\ queued'[m] = "out"
            /\ \A k \in Messages : k # m => queued'[k] = queued[k]
        BY <2>2 DEF Fetch, QueueInv, MessageStates
      <3>3. /\ deliveries' \in [Messages -> 0 .. MaxDeliver]
            /\ \A k \in Messages : k # m => deliveries'[k] = deliveries[k]
        BY <2>2, <3>1, TaskQueueAssumption DEF Fetch, QueueInv
      <3> QED
        BY <2>2, <3>1, <3>2, <3>3 DEF Fetch, QueueInv
    <2>3. ASSUME NEW m \in Messages, AckWaitOver(m) PROVE QueueInv'
      BY <2>3, RequeuedState, QueuedChange DEF AckWaitOver
    <2>4. ASSUME NEW m \in Messages, NEW n \in 1 .. MaxDeliver, HandlerReturns(m, n)
          PROVE  QueueInv'
      <3>1. /\ queued' \in [Messages -> MessageStates] /\ queued'[m] = "acked"
            /\ \A k \in Messages : k # m => queued'[k] = queued[k]
        BY <2>4 DEF HandlerReturns, QueueInv, MessageStates
      <3>2. succeeded' = succeeded \cup { <<m, n>> } /\ running' \subseteq running
            /\ UNCHANGED deliveries
        BY <2>4 DEF HandlerReturns
      <3> QED
        BY <3>1, <3>2 DEF QueueInv
    <2>5. ASSUME NEW m \in Messages, NEW n \in 1 .. MaxDeliver, HandlerFails(m, n)
          PROVE  QueueInv'
      <3>1. running' \subseteq running /\ UNCHANGED <<deliveries, succeeded>>
        BY <2>5 DEF HandlerFails
      <3>2. CASE queued[m] = "out" /\ queued' = [queued EXCEPT ![m] = Requeued(m)]
        BY <3>1, <3>2, RequeuedState, QueuedChange
      <3>3. CASE queued' = queued
        BY <3>1, <3>3 DEF QueueInv
      <3> QED
        BY <2>5, <3>2, <3>3 DEF HandlerFails, Nak, QueueInv
    <2>6. CASE WorkerDies \/ WorkerRestarts \/ UNCHANGED queueVars
      BY <2>6 DEF WorkerDies, WorkerRestarts, queueVars, QueueInv
    <2> QED
      BY <2>1, <2>2, <2>3, <2>4, <2>5, <2>6 DEF TaskQueueNext
  <1> QED
    BY <1>1, <1>2, PTL DEF TaskQueueSpec

(***************************************************************************)
(* worker.go:143-170.  For any number of messages and deliveries a task    *)
(* leaves the queue only because a handler finished it, and none is handed *)
(* out more than MaxDeliver times.                                         *)
(***************************************************************************)
THEOREM TasksAlwaysKept == TaskQueueSpec => []TasksKept
  <1>1. QueueInv => TasksKept
    BY TaskQueueAssumption DEF QueueInv, TasksKept
  <1> QED
    BY QueueInvariant, <1>1, PTL

--------------------------------------------------------------------------------
(* Idempotent requests *)

(***************************************************************************)
(* ExecutedOnce is not inductive: a key whose handler was started must     *)
(* have a live entry, so that the next caller finds it; and a finished     *)
(* entry must have a stored answer.                                        *)
(***************************************************************************)
IdemInv ==
    /\ entry \in [IdemKeys -> { "none", "processing", "done" }]
    /\ runs \in [IdemKeys -> { 0, 1 }]
    /\ DOMAIN answers = IdemKeys /\ DOMAIN request = IdemCallers
    /\ \A k \in IdemKeys :
          /\ runs[k] = 1 => Found(k)
          /\ entry[k] = "done" => answers[k] # {}
    /\ \A c \in IdemCallers : request[c] = "replayed" => answers[KeyOf[c]] # {}

(***************************************************************************)
(* middleware/idempotency.go:62-110.  The invariant through evictions,     *)
(* expiries, panics and repeats.                                           *)
(***************************************************************************)
THEOREM IdempotencyInvariant == IdempotencySpec => []IdemInv
  <1>1. IdempotencyInit => IdemInv
    BY DEF IdempotencyInit, IdemInv
  <1>2. IdemInv /\ [IdempotencyNext]_idemVars => IdemInv'
    <2> SUFFICES ASSUME IdemInv, [IdempotencyNext]_idemVars PROVE IdemInv'
      OBVIOUS
    <2>1. ASSUME NEW c \in IdemCallers, Begin(c) PROVE IdemInv'
      <3> DEFINE k == KeyOf[c]
      <3>1. k \in IdemKeys /\ UNCHANGED answers
        BY <2>1, IdempotencyAssumption DEF Begin
      <3>2. CASE /\ Found(k)
                 /\ request' = [request EXCEPT ![c] =
                        IF entry[k] = "done" THEN "replayed" ELSE "waiting"]
                 /\ UNCHANGED <<entry, created, expired, runs>>
        BY <3>1, <3>2 DEF IdemInv, Found
      <3>3. CASE /\ ~Found(k)
                 /\ request' = [request EXCEPT ![c] = "running"]
                 /\ Reserve(k)
        <4>1. PICK oldest : 
                /\ entry' = [x \in IdemKeys |->
                      IF x = k THEN "processing" ELSE IF x \in oldest THEN "none" ELSE entry[x]]
                /\ expired' = expired \ (oldest \cup { k })
                /\ runs' = [x \in IdemKeys |->
                      IF x \in oldest \ { k } THEN 0 ELSE IF x = k THEN runs[k] + 1 ELSE runs[x]]
          BY <3>3 DEF Reserve
        <4>2. runs[k] = 0
          BY <3>1, <3>3 DEF IdemInv
        <4>3. /\ entry' \in [IdemKeys -> { "none", "processing", "done" }]
              /\ runs' \in [IdemKeys -> { 0, 1 }]
          BY <3>1, <4>1, <4>2 DEF IdemInv
        <4>4. ASSUME NEW x \in IdemKeys
              PROVE  (runs'[x] = 1 => Found(x)') /\ (entry'[x] = "done" => answers'[x] # {})
          BY <3>1, <4>1, <4>2 DEF IdemInv, Found
        <4>5. \A d \in IdemCallers : request'[d] = "replayed" => answers'[KeyOf[d]] # {}
          BY <3>1, <3>3 DEF IdemInv
        <4>6. DOMAIN answers' = IdemKeys /\ DOMAIN request' = IdemCallers
          BY <3>1, <3>3 DEF IdemInv
        <4> QED
          BY <4>3, <4>4, <4>5, <4>6 DEF IdemInv
      <3> QED
        BY <2>1, <3>2, <3>3 DEF Begin
    <2>2. ASSUME NEW c \in IdemCallers, HandlerDone(c) PROVE IdemInv'
      <3>1. /\ KeyOf[c] \in IdemKeys /\ UNCHANGED runs
            /\ entry' = [entry EXCEPT ![KeyOf[c]] = "done"]
            /\ expired' = expired \ { KeyOf[c] }
            /\ answers' = [answers EXCEPT ![KeyOf[c]] = answers[KeyOf[c]] \cup { c }]
            /\ request' = [request EXCEPT ![c] = "ran"]
        BY <2>2, IdempotencyAssumption DEF HandlerDone, Stores
      <3>2. \A x \in IdemKeys : answers[x] \subseteq answers'[x] /\ c \in answers'[KeyOf[c]]
        BY <3>1 DEF IdemInv
      <3> QED
        BY <3>1, <3>2, IdempotencyAssumption DEF IdemInv, Found
    <2>3. ASSUME NEW c \in IdemCallers, HandlerPanics(c) \/ WaitOver(c) \/ WaitTimesOut(c)
          PROVE  IdemInv'
      <3>1. KeyOf[c] \in IdemKeys
        BY IdempotencyAssumption
      <3> QED
        BY <2>3, <3>1 DEF HandlerPanics, WaitOver, WaitTimesOut, IdemInv, Found
    <2>4. CASE EntryExpires
      <3>1. PICK k : expired' = expired \cup { k } /\ runs' = [runs EXCEPT ![k] = 0]
        BY <2>4 DEF EntryExpires
      <3>2. UNCHANGED <<entry, request, answers>>
        BY <2>4 DEF EntryExpires
      <3>3. /\ runs' \in [IdemKeys -> { 0, 1 }]
            /\ \A x \in IdemKeys : runs'[x] = IF x = k THEN 0 ELSE runs[x]
        BY <3>1 DEF IdemInv
      <3>4. \A x \in IdemKeys : runs'[x] = 1 => Found(x)'
        BY <3>1, <3>2, <3>3 DEF IdemInv, Found
      <3> QED
        BY <3>2, <3>3, <3>4 DEF IdemInv
    <2>5. CASE CleanupEntries
      <3>1. /\ entry' = [k \in IdemKeys |-> IF k \in expired THEN "none" ELSE entry[k]]
            /\ expired' = {} /\ UNCHANGED <<request, runs, answers>>
        BY <2>5 DEF CleanupEntries
      <3> QED
        BY <3>1 DEF IdemInv, Found
    <2>6. CASE UNCHANGED idemVars
      BY <2>6 DEF idemVars, IdemInv, Found
    <2> QED
      BY <2>1, <2>2, <2>3, <2>4, <2>5, <2>6 DEF IdempotencyNext
  <1> QED
    BY <1>1, <1>2, PTL DEF IdempotencySpec

(***************************************************************************)
(* middleware/idempotency.go:62-110.  For any number of callers, keys and  *)
(* entries: while a key's entry lives its handler runs once, and a repeat  *)
(* that is replayed has the answer of a run that ended.                    *)
(***************************************************************************)
THEOREM AlwaysExecutedOnce == IdempotencySpec => []ExecutedOnce
  <1>1. IdemInv => ExecutedOnce
    BY DEF IdemInv, ExecutedOnce
  <1> QED
    BY IdempotencyInvariant, <1>1, PTL

--------------------------------------------------------------------------------
(* The WebSocket hub *)

Upgraded == { "reading", "authenticating", "ready", "gone" }

(***************************************************************************)
(* A connection enters the register channel once, so that Run never takes  *)
(* up again one whose send channel it closed; and the connection's own     *)
(* meta knows the user from authentication on, whichever of the two copies *)
(* is made first.                                                          *)
(***************************************************************************)
HubInv ==
    /\ DOMAIN phase = Conns /\ DOMAIN meta = Conns /\ DOMAIN connections = Conns
    /\ ~broken
    /\ \A c \in Conns :
          /\ phase[c] \notin Upgraded =>
                c \notin toRegister /\ c \notin shut /\ connections[c] = "absent"
          /\ c \in toRegister => c \notin shut /\ connections[c] = "absent"
          /\ c \in shut => connections[c] = "absent"
          /\ phase[c] \in { "authenticating", "ready" } => meta[c] = User
          /\ phase[c] = "ready" /\ connections[c] # "absent" => connections[c] = User

(***************************************************************************)
(* websocket.go:107-125, 229-275.  The invariant under every order of the  *)
(* hub's four channels, the handlers and the pumps.                        *)
(***************************************************************************)
THEOREM HubInvariant == HubSpec => []HubInv
  <1>1. HubInit => HubInv
    BY DEF HubInit, HubInv
  <1>2. HubInv /\ [HubNext]_hubVars => HubInv'
    <2> SUFFICES ASSUME HubInv, [HubNext]_hubVars PROVE HubInv'
      OBVIOUS
    <2>1. ASSUME NEW c \in Conns, HandleWebSocket(c) PROVE HubInv'
      <3>1. CASE CanConnect(c) \/ RegisterConnection(c)
        BY <3>1 DEF CanConnect, RegisterConnection, Enters, HubInv, Upgraded
      <3>2. CASE ServeHTTP(c)
        <4>1. phase[c] = "upgrading" /\ UNCHANGED <<meta, connections, shut, broken>>
          BY <3>2 DEF ServeHTTP
        <4>2. PICK s \in { "reading", "gone" } : phase' = [phase EXCEPT ![c] = s]
          BY <3>2 DEF ServeHTTP, Enters
        <4>3. toRegister' \subseteq toRegister \cup { c }
          BY <3>2 DEF ServeHTTP
        <4> QED
          BY <4>1, <4>2, <4>3 DEF HubInv, Upgraded
      <3> QED
        BY <2>1, <3>1, <3>2 DEF HandleWebSocket
    <2>2. ASSUME NEW c \in Conns, Authenticate(c) PROVE HubInv'
      BY <2>2 DEF Authenticate, Enters, HubInv, Upgraded
    <2>3. ASSUME NEW c \in Conns, Republish(c) PROVE HubInv'
      <3>1. /\ phase[c] = "authenticating" /\ phase' = [phase EXCEPT ![c] = "ready"]
            /\ connections' = [connections EXCEPT ![c] =
                    IF connections[c] = "absent" THEN connections[c] ELSE meta[c]]
            /\ UNCHANGED <<toRegister, meta, shut, broken>>
        BY <2>3 DEF Republish, Enters
      <3>2. meta[c] = User /\ (c \in toRegister \/ c \in shut => connections[c] = "absent")
        BY <3>1 DEF HubInv
      <3>3. /\ connections'[c] = IF connections[c] = "absent" THEN "absent" ELSE User
            /\ \A d \in Conns : d # c => connections'[d] = connections[d] /\ phase'[d] = phase[d]
            /\ phase'[c] = "ready" /\ DOMAIN connections' = Conns /\ DOMAIN phase' = Conns
        BY <3>1, <3>2 DEF HubInv
      <3> QED
        BY <3>1, <3>2, <3>3 DEF HubInv, Upgraded
    <2>4. ASSUME NEW c \in Conns, ReadEnds(c) PROVE HubInv'
      BY <2>4 DEF ReadEnds, Enters, HubInv, Upgraded
    <2>5. ASSUME NEW c \in Conns, WriteEvent(c) PROVE HubInv'
      BY <2>5 DEF WriteEvent, HubInv
    <2>6. ASSUME NEW c \in Conns, RunRegister(c) PROVE HubInv'
      <3>1. /\ c \in toRegister /\ toRegister' = toRegister \ { c }
            /\ connections' = [connections EXCEPT ![c] = meta[c]]
            /\ UNCHANGED <<phase, meta, shut, broken>>
        BY <2>6 DEF RunRegister
      <3>2. phase[c] \in Upgraded /\ c \notin shut
        BY <3>1 DEF HubInv
      <3>3. /\ connections'[c] = meta[c] /\ DOMAIN connections' = Conns
            /\ \A d \in Conns : d # c => connections'[d] = connections[d]
        BY <3>1 DEF HubInv
      <3> QED
        BY <3>1, <3>2, <3>3 DEF HubInv
    <2>7. ASSUME NEW c \in Conns, RunUnregister(c) PROVE HubInv'
      <3>1. /\ connections' = [connections EXCEPT ![c] = "absent"]
            /\ shut' = IF connections[c] = "absent" THEN shut ELSE shut \cup { c }
            /\ UNCHANGED <<phase, toRegister, meta, broken>>
        BY <2>7 DEF RunUnregister
      <3>2. /\ connections'[c] = "absent" /\ DOMAIN connections' = Conns
            /\ \A d \in Conns : d # c => connections'[d] = connections[d]
        BY <3>1 DEF HubInv
      <3> QED
        BY <3>1, <3>2 DEF HubInv
    <2>8. ASSUME NEW targets, targets \cap shut = {},
                 broken' = (broken \/ targets \cap shut # {}),
                 UNCHANGED <<phase, toRegister, meta, connections, shut>>
          PROVE  HubInv'
      BY <2>8 DEF HubInv
    <2>9. CASE RunMail
      <3> DEFINE targets == { c \in Conns : connections[c] = User }
      <3>1. User # "absent" => targets \cap shut = {}
        BY DEF HubInv
      <3> QED
        BY <2>8, <2>9, <3>1, HubAssumption DEF RunMail
    <2>10. CASE RunBroadcast
      <3>1. PICK targets \in SUBSET { c \in Conns : connections[c] # "absent" } :
                /\ broken' = (broken \/ targets \cap shut # {})
                /\ UNCHANGED <<phase, toRegister, meta, connections, shut>>
        BY <2>10 DEF RunBroadcast
      <3>2. targets \cap shut = {}
        BY DEF HubInv
      <3> QED
        BY <2>8, <3>1, <3>2
    <2>11. CASE SendToUser \/ UNCHANGED hubVars
      BY <2>11 DEF SendToUser, hubVars, HubInv
    <2> QED
      BY <2>1, <2>2, <2>3, <2>4, <2>5, <2>6, <2>7, <2>9, <2>10, <2>11 DEF HubNext
  <1> QED
    BY <1>1, <1>2, PTL DEF HubSpec

(***************************************************************************)
(* websocket.go:107-125, 229-275.  For any number of connections: one that *)
(* is authenticated and known to the hub is known under its user, and Run  *)
(* never sends on a channel it closed.                                     *)
(***************************************************************************)
THEOREM UserAlwaysReached == HubSpec => []UserReached
  <1>1. HubInv => UserReached
    BY DEF HubInv, UserReached
  <1> QED
    BY HubInvariant, <1>1, PTL

--------------------------------------------------------------------------------
(* Webhooks *)

DeliveryStates == { "none", "running", "backoff", "done", "failed", "dropped" }

Running == { d \in Deliveries : delivery[d] = "running" }

(***************************************************************************)
(* The slots and the retries are bounded together with what a delivery in  *)
(* backoff still has, and the deliveries of an event are untouched before  *)
(* its dispatch.  That no event goes where it must not needs the age of    *)
(* the cached list: an endpoint in it was deleted after the list was read. *)
(***************************************************************************)
HooksInv ==
    /\ delivery \in [Deliveries -> DeliveryStates] /\ tries \in [Deliveries -> Nat]
    /\ slotsTaken = Cardinality(Running) /\ slotsTaken <= MaxSlots
    /\ \A d \in Deliveries :
          /\ tries[d] <= MaxRetry
          /\ delivery[d] = "backoff" => tries[d] < MaxRetry
          /\ delivery[d] # "none" => d[1] \in dispatched
    /\ endpoints \subseteq Endpoints /\ cache \subseteq Endpoints
    /\ age \in [Endpoints -> Nat] /\ cacheAge \in 0 .. CacheTTL
    /\ \A e \in endpoints : age[e] = 0
    /\ \A e \in cache : age[e] <= cacheAge + 1
    /\ ~overdue

\* Every set of deliveries is finite.
LEMMA FiniteDeliveries ==
    ASSUME NEW S \in SUBSET Deliveries
    PROVE  IsFiniteSet(S) /\ Cardinality(S) \in Nat
  <1>1. IsFiniteSet(Deliveries)
    BY WebhooksAssumption, FS_Product DEF Deliveries
  <1> QED
    BY <1>1, FS_Subset, FS_CardinalityType

\* The smaller of two numbers.
LEMMA MinOfTwo ==
    ASSUME NEW a \in Int, NEW b \in Int
    PROVE  Min({ a, b }) = IF a <= b THEN a ELSE b
  <1> DEFINE m == IF a <= b THEN a ELSE b
  <1>1. m \in { a, b } /\ \A y \in { a, b } : m <= y
    OBVIOUS
  <1>2. \A x \in { a, b } : (\A y \in { a, b } : x <= y) => x = m
    OBVIOUS
  <1> QED
    BY <1>1, <1>2 DEF Min

\* A delivery leaves its slot, or takes one.
LEMMA SlotChange ==
    ASSUME HooksInv, NEW d \in Deliveries, NEW s \in DeliveryStates,
           delivery' = [delivery EXCEPT ![d] = s]
    PROVE  /\ delivery' \in [Deliveries -> DeliveryStates]
           /\ delivery'[d] = s /\ \A x \in Deliveries : x # d => delivery'[x] = delivery[x]
           /\ delivery[d] = "running" /\ s # "running" =>
                 Cardinality(Running') = slotsTaken - 1 /\ slotsTaken > 0
           /\ delivery[d] # "running" /\ s = "running" => Cardinality(Running') = slotsTaken + 1
           /\ delivery[d] # "running" /\ s # "running" => Cardinality(Running') = slotsTaken
           /\ slotsTaken \in Nat
  <1>1. /\ delivery' \in [Deliveries -> DeliveryStates]
        /\ delivery'[d] = s /\ \A x \in Deliveries : x # d => delivery'[x] = delivery[x]
    BY DEF HooksInv
  <1>2. IsFiniteSet(Running) /\ slotsTaken = Cardinality(Running) /\ slotsTaken \in Nat
    BY FiniteDeliveries DEF Running, HooksInv
  <1>3. ASSUME delivery[d] = "running", s # "running"
        PROVE  Cardinality(Running') = slotsTaken - 1 /\ slotsTaken > 0
    <2>1. Running' = Running \ { d } /\ d \in Running
      BY <1>1, <1>3 DEF Running
    <2>2. Cardinality(Running') = slotsTaken - 1
      BY <1>2, <2>1, FS_RemoveElement
    <2>3. Cardinality(Running') \in Nat
      BY <2>1, FiniteDeliveries DEF Running
    <2> QED
      BY <1>2, <2>2, <2>3
  <1>4. ASSUME delivery[d] # "running", s = "running"
        PROVE  Cardinality(Running') = slotsTaken + 1
    <2>1. Running' = Running \cup { d } /\ d \notin Running
      BY <1>1, <1>4 DEF Running
    <2> QED
      BY <1>2, <2>1, FS_AddElement
  <1>5. ASSUME delivery[d] # "running", s # "running"
        PROVE  Cardinality(Running') = slotsTaken
    <2>1. Running' = Running
      BY <1>1, <1>5 DEF Running
    <2> QED
      BY <1>2, <2>1
  <1> QED
    BY <1>1, <1>2, <1>3, <1>4, <1>5

\* Dispatch fills the slots that are left and no more (webhook.go:199-229).
LEMMA FanOutStep ==
    ASSUME HooksInv, NEW ev \in HookEvents, ev \notin dispatched,
           NEW list \in SUBSET Endpoints, FanOut(ev, list)
    PROVE  /\ delivery' \in [Deliveries -> DeliveryStates]
           /\ slotsTaken' = Cardinality(Running') /\ slotsTaken' <= MaxSlots
           /\ \A d \in Deliveries :
                 /\ delivery'[d] = "backoff" => delivery[d] = "backoff"
                 /\ delivery'[d] # "none" => d[1] \in dispatched'
  <1>1. PICK taken \in SUBSET list :
            /\ Cardinality(taken) = Min({ MaxSlots - slotsTaken, Cardinality(list) })
            /\ slotsTaken' = slotsTaken + Cardinality(taken)
            /\ delivery' = [d \in Deliveries |->
                  IF d[1] # ev \/ d[2] \notin list THEN delivery[d]
                  ELSE IF d[2] \in taken THEN "running" ELSE "dropped"]
    BY DEF FanOut
  <1>2. dispatched' = dispatched \cup { ev }
    BY DEF FanOut
  <1>3. /\ delivery' \in [Deliveries -> DeliveryStates]
        /\ \A d \in Deliveries :
              /\ delivery'[d] = "backoff" => delivery[d] = "backoff"
              /\ delivery'[d] # "none" => d[1] \in dispatched'
    BY <1>1, <1>2 DEF HooksInv, DeliveryStates
  <1>4. IsFiniteSet(list) /\ Cardinality(list) \in Nat
    BY WebhooksAssumption, FS_Subset, FS_CardinalityType
  <1>5. IsFiniteSet(taken) /\ Cardinality(taken) \in Nat
    BY <1>4, FS_Subset, FS_CardinalityType
  <1>6. Running \subseteq Deliveries /\ IsFiniteSet(Running) /\ slotsTaken = Cardinality(Running)
        /\ slotsTaken \in Nat /\ slotsTaken <= MaxSlots /\ MaxSlots \in Nat
    BY FiniteDeliveries, WebhooksAssumption DEF Running, HooksInv
  <1>7. slotsTaken' <= MaxSlots
    <2>1. Cardinality(taken) <= MaxSlots - slotsTaken
      BY <1>1, <1>4, <1>6, MinOfTwo
    <2> QED
      BY <1>1, <1>5, <1>6, <2>1
  <1>8. Running' = Running \cup ({ ev } \X taken)
    <2>1. ASSUME NEW d \in Deliveries
          PROVE  d \in Running' <=> d \in Running \/ d \in { ev } \X taken
      <3>1. d[1] \in HookEvents /\ d[2] \in Endpoints /\ d = <<d[1], d[2]>>
        BY DEF Deliveries
      <3>2. d[1] = ev => delivery[d] = "none"
        BY DEF HooksInv
      <3>3. d \in { ev } \X taken <=> d[1] = ev /\ d[2] \in taken
        BY <3>1
      <3> QED
        BY <1>1, <3>1, <3>2, <3>3 DEF Running
    <2>2. { ev } \X taken \subseteq Deliveries
      BY DEF Deliveries
    <2>3. Running' \subseteq Deliveries
      BY DEF Running
    <2> QED
      BY <1>6, <2>1, <2>2, <2>3
  <1>9. Running \cap ({ ev } \X taken) = {}
    BY DEF HooksInv, Running
  <1>10. IsFiniteSet({ ev } \X taken) /\ Cardinality({ ev } \X taken) = Cardinality(taken)
    <2>1. IsFiniteSet({ ev }) /\ Cardinality({ ev }) = 1
      BY FS_Singleton
    <2>2. /\ IsFiniteSet({ ev } \X taken)
          /\ Cardinality({ ev } \X taken) = Cardinality({ ev }) * Cardinality(taken)
      BY <1>5, <2>1, FS_Product
    <2> QED
      BY <1>5, <2>1, <2>2
  <1>11. Cardinality(Running \cap ({ ev } \X taken)) = 0
    BY <1>9, FS_EmptySet
  <1>12. Cardinality(Running') = Cardinality(Running) + Cardinality(taken)
    <2>1. Cardinality(Running \cup ({ ev } \X taken)) =
             Cardinality(Running) + Cardinality({ ev } \X taken)
                - Cardinality(Running \cap ({ ev } \X taken))
      BY <1>6, <1>10, FS_Union
    <2> QED
      BY <1>5, <1>6, <1>8, <1>10, <1>11, <2>1
  <1> QED
    BY <1>1, <1>3, <1>6, <1>7, <1>12

\* A dispatch reads the list, renews the cache or falls back on it.
LEMMA DispatchStep ==
    ASSUME HooksInv, NEW ev \in HookEvents, Dispatch(ev) \/ DispatchStale(ev)
    PROVE  HooksInv'
  <1>1. ev \notin dispatched /\ UNCHANGED <<endpoints, age, tries, failures>>
    BY DEF Dispatch, DispatchStale
  <1>2. CachedEndpoints \in SUBSET Endpoints /\ cache \in SUBSET Endpoints
    BY DEF CachedEndpoints, HooksInv
  <1>3. /\ delivery' \in [Deliveries -> DeliveryStates]
        /\ slotsTaken' = Cardinality(Running') /\ slotsTaken' <= MaxSlots
        /\ \A d \in Deliveries :
              /\ delivery'[d] = "backoff" => delivery[d] = "backoff"
              /\ delivery'[d] # "none" => d[1] \in dispatched'
    BY <1>1, <1>2, FanOutStep DEF Dispatch, DispatchStale
  <1>4. /\ age \in [Endpoints -> Nat] /\ cacheAge \in 0 .. CacheTTL /\ CacheTTL \in Nat
        /\ CacheTTL > 0
    BY WebhooksAssumption DEF HooksInv
  <1>5. CASE Dispatch(ev)
    <2>1. /\ cache' = CachedEndpoints /\ cacheAge' = IF Fresh THEN cacheAge ELSE 0
          /\ overdue' = (overdue \/ \E e \in CachedEndpoints : age[e] > CacheTTL)
      BY <1>5 DEF Dispatch
    <2>2. \A e \in CachedEndpoints : age[e] <= cacheAge' + 1 /\ age[e] <= CacheTTL
      <3>1. CASE Fresh
        <4> SUFFICES ASSUME NEW e \in cache PROVE age[e] <= cacheAge + 1 /\ age[e] <= CacheTTL
          BY <2>1, <3>1 DEF CachedEndpoints
        <4>1. age[e] \in Nat /\ age[e] <= cacheAge + 1 /\ cacheAge < CacheTTL
          BY <1>2, <1>4, <3>1 DEF HooksInv, Fresh
        <4> QED
          BY <1>4, <4>1
      <3>2. CASE ~Fresh
        BY <1>4, <2>1, <3>2 DEF HooksInv, CachedEndpoints
      <3> QED
        BY <3>1, <3>2
    <2>3. ~overdue'
      <3>1. \A e \in CachedEndpoints : ~(age[e] > CacheTTL)
        BY <1>2, <1>4, <2>2
      <3> QED
        BY <2>1, <3>1 DEF HooksInv
    <2>4. cacheAge' \in 0 .. CacheTTL
      BY <1>4, <2>1
    <2> QED
      BY <1>1, <1>2, <1>3, <2>1, <2>2, <2>3, <2>4 DEF HooksInv
  <1>6. CASE DispatchStale(ev)
    BY <1>1, <1>3, <1>6 DEF DispatchStale, HooksInv
  <1> QED
    BY <1>5, <1>6

\* deliver and scheduleRetry (webhook.go:262-276, 355-373).
LEMMA DeliveryStepInv ==
    ASSUME HooksInv, NEW d \in Deliveries, DeliveryStep(d)
    PROVE  HooksInv'
  <1>1. /\ MaxRetry \in Nat /\ MaxSlots \in Nat /\ tries[d] \in Nat /\ tries[d] <= MaxRetry
        /\ slotsTaken <= MaxSlots
    BY WebhooksAssumption DEF HooksInv
  <1>2. UNCHANGED <<endpoints, age, cache, cacheAge, dispatched, overdue>>
    BY DEF DeliveryStep, DeliverDone, DeliverFails, RetryFires
  <1>3. CASE DeliverDone(d) \/ DeliverFails(d)
    <2>1. PICK s \in { "done", "backoff", "failed" } :
              /\ delivery[d] = "running" /\ delivery' = [delivery EXCEPT ![d] = s]
              /\ slotsTaken' = slotsTaken - 1 /\ UNCHANGED tries
              /\ s = "backoff" => tries[d] < MaxRetry
      BY <1>3 DEF DeliverDone, DeliverFails, GivesSlotBack
    <2>2. s \in DeliveryStates /\ s # "running" /\ s # "none"
      BY DEF DeliveryStates
    <2>3. /\ delivery' \in [Deliveries -> DeliveryStates]
          /\ delivery'[d] = s /\ \A x \in Deliveries : x # d => delivery'[x] = delivery[x]
          /\ Cardinality(Running') = slotsTaken - 1 /\ slotsTaken \in Nat
      BY <2>1, <2>2, SlotChange
    <2>4. slotsTaken' = Cardinality(Running') /\ slotsTaken' <= MaxSlots
      BY <1>1, <2>1, <2>3
    <2> QED
      BY <1>1, <1>2, <2>1, <2>3, <2>4 DEF HooksInv
  <1>4. CASE RetryFires(d)
    <2>1. delivery[d] = "backoff" /\ tries[d] < MaxRetry /\ d[1] \in dispatched
      BY <1>4 DEF RetryFires, HooksInv
    <2>2. CASE /\ slotsTaken < MaxSlots /\ slotsTaken' = slotsTaken + 1
               /\ delivery' = [delivery EXCEPT ![d] = "running"]
               /\ tries' = [tries EXCEPT ![d] = tries[d] + 1]
      <3>1. "running" \in DeliveryStates
        BY DEF DeliveryStates
      <3>2. /\ delivery' \in [Deliveries -> DeliveryStates]
            /\ delivery'[d] = "running"
            /\ \A x \in Deliveries : x # d => delivery'[x] = delivery[x]
            /\ Cardinality(Running') = slotsTaken + 1 /\ slotsTaken \in Nat
        BY <2>1, <2>2, <3>1, SlotChange
      <3>3. slotsTaken' = Cardinality(Running') /\ slotsTaken' <= MaxSlots
        BY <1>1, <2>2, <3>2
      <3>4. /\ tries' \in [Deliveries -> Nat] /\ tries'[d] <= MaxRetry
            /\ \A x \in Deliveries : x # d => tries'[x] = tries[x]
        BY <1>1, <2>1, <2>2 DEF HooksInv
      <3> QED
        BY <1>2, <2>1, <3>2, <3>3, <3>4 DEF HooksInv
    <2>3. CASE /\ delivery' = [delivery EXCEPT ![d] = "dropped"]
               /\ UNCHANGED <<slotsTaken, tries>>
      <3>1. "dropped" \in DeliveryStates
        BY DEF DeliveryStates
      <3>2. /\ delivery' \in [Deliveries -> DeliveryStates]
            /\ delivery'[d] = "dropped"
            /\ \A x \in Deliveries : x # d => delivery'[x] = delivery[x]
            /\ Cardinality(Running') = slotsTaken
        BY <2>1, <2>3, <3>1, SlotChange
      <3> QED
        BY <1>1, <1>2, <2>1, <2>3, <3>2 DEF HooksInv
    <2> QED
      BY <1>4, <2>2, <2>3 DEF RetryFires
  <1> QED
    BY <1>3, <1>4 DEF DeliveryStep

\* The rows of the endpoints, and time.
LEMMA EndpointStep ==
    ASSUME HooksInv, (\E e \in Endpoints : Register(e) \/ Unregister(e)) \/ WebhooksTick
    PROVE  HooksInv'
  <1>1. /\ UNCHANGED <<cache, dispatched, delivery, tries, slotsTaken, overdue>>
        /\ Running' = Running
    BY DEF Register, Unregister, WebhooksTick, Running
  <1>2. /\ age \in [Endpoints -> Nat] /\ cacheAge \in 0 .. CacheTTL /\ CacheTTL \in Nat
        /\ CacheTTL > 0 /\ endpoints \subseteq Endpoints /\ cache \subseteq Endpoints
        /\ \A e \in endpoints : age[e] = 0
        /\ \A e \in cache : age[e] <= cacheAge + 1
    BY WebhooksAssumption DEF HooksInv
  <1> DEFINE Aging == /\ endpoints' \subseteq Endpoints /\ age' \in [Endpoints -> Nat]
                      /\ cacheAge' \in 0 .. CacheTTL
                      /\ \A e \in endpoints' : age'[e] = 0
                      /\ \A e \in cache : age'[e] <= cacheAge' + 1
  <1>3. Aging
    <2>1. ASSUME NEW e \in Endpoints, Register(e) PROVE Aging
      BY <1>2, <2>1 DEF Register
    <2>2. ASSUME NEW e \in Endpoints, Unregister(e) PROVE Aging
      <3>1. /\ endpoints' = endpoints \ { e } /\ age' = [age EXCEPT ![e] = 1]
            /\ UNCHANGED cacheAge
        BY <2>2 DEF Unregister
      <3> QED
        BY <1>2, <3>1
    <2>3. ASSUME WebhooksTick PROVE Aging
      <3>1. /\ cacheAge' = Min({ cacheAge + 1, CacheTTL }) /\ UNCHANGED endpoints
            /\ age' = [e \in Endpoints |->
                          IF age[e] = 0 THEN 0 ELSE Min({ age[e] + 1, CacheTTL + 1 })]
        BY <2>3 DEF WebhooksTick
      <3>2. cacheAge' = IF cacheAge + 1 <= CacheTTL THEN cacheAge + 1 ELSE CacheTTL
        BY <1>2, <3>1, MinOfTwo
      <3>3. \A e \in Endpoints :
              age'[e] = IF age[e] = 0 THEN 0
                        ELSE IF age[e] + 1 <= CacheTTL + 1 THEN age[e] + 1 ELSE CacheTTL + 1
        <4> TAKE e \in Endpoints
        <4>1. Min({ age[e] + 1, CacheTTL + 1 }) =
                 IF age[e] + 1 <= CacheTTL + 1 THEN age[e] + 1 ELSE CacheTTL + 1
          BY <1>2, MinOfTwo
        <4> QED
          BY <3>1, <4>1
      <3>4. DOMAIN age' = Endpoints /\ age' = [e \in Endpoints |-> age'[e]]
        BY <3>1
      <3>5. age' \in [Endpoints -> Nat] /\ cacheAge' \in 0 .. CacheTTL
        BY <1>2, <3>2, <3>3, <3>4
      <3>6. \A e \in endpoints' : age'[e] = 0
        BY <1>2, <3>1, <3>3
      <3>7. ASSUME NEW e \in cache PROVE age'[e] <= cacheAge' + 1
        <4>1. age[e] \in Nat /\ age[e] <= cacheAge + 1
          BY <1>2
        <4> QED
          BY <1>2, <3>2, <3>3, <4>1
      <3> QED
        BY <1>2, <3>1, <3>5, <3>6, <3>7
    <2> QED
      BY <2>1, <2>2, <2>3
  <1> QED
    BY <1>1, <1>3 DEF HooksInv

(***************************************************************************)
(* webhook.go:199-373.  The engine's invariant through every fan-out,      *)
(* retry, replay and deletion.                                             *)
(***************************************************************************)
THEOREM HooksInvariant == WebhooksSpec => []HooksInv
  <1>1. WebhooksInit => HooksInv
    <2> SUFFICES ASSUME WebhooksInit PROVE HooksInv
      OBVIOUS
    <2>1. Running = {}
      BY DEF WebhooksInit, Running
    <2>2. Cardinality(Running) = 0
      BY <2>1, FS_EmptySet
    <2> QED
      BY <2>2, WebhooksAssumption DEF WebhooksInit, HooksInv, DeliveryStates
  <1>2. HooksInv /\ [WebhooksNext]_hookVars => HooksInv'
    <2> SUFFICES ASSUME HooksInv, [WebhooksNext]_hookVars PROVE HooksInv'
      OBVIOUS
    <2>1. CASE UNCHANGED hookVars
      BY <2>1 DEF hookVars, HooksInv, Running
    <2> QED
      BY <2>1, DispatchStep, DeliveryStepInv, EndpointStep
      DEF WebhooksNext, DispatchEvent, ReplayWebhook
  <1> QED
    BY <1>1, <1>2, PTL DEF WebhooksSpec

(***************************************************************************)
(* webhook.go:199-373.  For any number of endpoints and events: the slots  *)
(* count the deliveries under way and bound them, no delivery is tried     *)
(* more than 1 + MaxRetry times, and a deleted endpoint gets no event once *)
(* the cached list that names it is over.                                  *)
(***************************************************************************)
THEOREM FanOutAlwaysBounded == WebhooksSpec => []FanOutBounded
  <1>1. HooksInv => FanOutBounded
    BY DEF HooksInv, Running, FanOutBounded
  <1> QED
    BY HooksInvariant, <1>1, PTL

--------------------------------------------------------------------------------
(* Migrations *)

\* Migrate, between the lock and the unlock.
Migrating == { "check", "apply", "unlock" }
PodSteps == Migrating \cup { "start", "lock", "serving", "down" }

(***************************************************************************)
(* The order of the migrations rests on one pod at a time being past the   *)
(* lock.  A pod's lock is on one of its own sessions, so a session that is *)
(* reaped, or an unlock that misses, never takes the lock of another pod.  *)
(***************************************************************************)
MigrateInv ==
    /\ step \in [Pods -> PodSteps] /\ file \in [Pods -> Nat] /\ DOMAIN wait = Pods
    /\ applied = [i \in 1 .. Len(applied) |-> i] /\ Len(applied) \in 0 .. Versions
    /\ schema = 1 .. Len(applied)
    /\ \A p \in Pods :
          /\ step[p] \in { "lock" } \cup Migrating => wait[p] \in { p } \X Sessions
          /\ step[p] \in Migrating => OwnsLock(p)
          /\ step[p] \in { "start", "lock", "check", "apply" } =>
                file[p] \in 1 .. Len(applied) + 1
          /\ step[p] = "apply" => file[p] = Len(applied) + 1 /\ file[p] <= Versions
          /\ step[p] \in { "unlock", "serving" } => Len(applied) = Versions

\* One pod at a time is between its lock and its unlock, and none while the lock
\* is free.
LEMMA OneMigrates ==
    ASSUME MigrateInv, NEW p \in Pods, step[p] \in Migrating
    PROVE  /\ holder # NoSession
           /\ \A q \in Pods : step[q] \in Migrating \/ OwnsLock(q) => q = p
  <1>1. PICK s \in Sessions : holder = <<p, s>>
    BY DEF MigrateInv, OwnsLock
  <1>2. ASSUME NEW q \in Pods, OwnsLock(q) PROVE q = p
    <2>1. PICK t \in Sessions : holder = <<q, t>>
      BY <1>2 DEF OwnsLock
    <2> QED
      BY <1>1, <2>1
  <1>3. holder # NoSession
    BY <1>1, MigrationsAssumption
  <1> QED
    BY <1>2, <1>3 DEF MigrateInv

\* A pod before the lock, or one that ends: the schema is not touched.
LEMMA LockStep ==
    ASSUME MigrateInv, NEW p \in Pods,
           SetLockTimeout(p) \/ TakeLock(p) \/ LockTimeout(p) \/ PodRestarts(p)
    PROVE  MigrateInv'
  <1>1. UNCHANGED <<schema, applied>> /\ Len(applied) \in Nat
    BY DEF SetLockTimeout, TakeLock, LockTimeout, PodRestarts, MigrateInv
  <1>2. CASE SetLockTimeout(p)
    <2>1. PICK t \in { p } \X Sessions :
              /\ step[p] = "start" /\ step' = [step EXCEPT ![p] = "lock"]
              /\ wait' = [wait EXCEPT ![p] = t] /\ UNCHANGED <<file, holder>>
      BY <1>2 DEF SetLockTimeout, Goto
    <2>2. OwnsLock(p)' = OwnsLock(p) /\ \A q \in Pods : OwnsLock(q)' = OwnsLock(q)
      BY <2>1 DEF OwnsLock
    <2> QED
      BY <1>1, <2>1, <2>2 DEF MigrateInv, Migrating, PodSteps
  <1>3. CASE TakeLock(p)
    <2>1. /\ step[p] = "lock" /\ holder = NoSession /\ holder' = wait[p]
          /\ step' = [step EXCEPT ![p] = "check"] /\ UNCHANGED <<file, wait>>
      BY <1>3 DEF TakeLock, Goto
    <2>2. wait[p] \in { p } \X Sessions /\ file[p] \in 1 .. Len(applied) + 1
      BY <2>1 DEF MigrateInv
    <2>3. \A q \in Pods : ~OwnsLock(q)
      BY <2>1, MigrationsAssumption DEF OwnsLock
    <2>4. OwnsLock(p)'
      BY <2>1, <2>2 DEF OwnsLock
    <2> QED
      BY <1>1, <2>1, <2>2, <2>3, <2>4 DEF MigrateInv, Migrating, PodSteps
  <1>4. CASE LockTimeout(p)
    <2>1. step' = [step EXCEPT ![p] = "down"] /\ UNCHANGED <<file, wait, holder>>
      BY <1>4 DEF LockTimeout, Goto
    <2>2. \A q \in Pods : OwnsLock(q)' = OwnsLock(q)
      BY <2>1 DEF OwnsLock
    <2> QED
      BY <1>1, <2>1, <2>2 DEF MigrateInv, Migrating, PodSteps
  <1>5. CASE PodRestarts(p)
    <2>1. /\ step' = [step EXCEPT ![p] = "start"] /\ file' = [file EXCEPT ![p] = 1]
          /\ wait' = [wait EXCEPT ![p] = NoSession] /\ UNCHANGED holder
      BY <1>5 DEF PodRestarts, Goto
    <2>2. \A q \in Pods : OwnsLock(q)' = OwnsLock(q)
      BY <2>1 DEF OwnsLock
    <2> QED
      BY <1>1, <2>1, <2>2 DEF MigrateInv, Migrating, PodSteps
  <1> QED
    BY <1>2, <1>3, <1>4, <1>5

\* The lock is given up: nobody else was relying on it.
LEMMA UnlockStep ==
    ASSUME MigrateInv, NEW p \in Pods, Unlock(p) \/ ConnReaped(p) \/ PodFails(p)
    PROVE  MigrateInv'
  <1>1. PICK s : /\ step' = [step EXCEPT ![p] = s]
                 /\ s = "serving" \/ s = "down"
                 /\ s = "serving" => Len(applied) = Versions
    <2>1. CASE Unlock(p) \/ PodFails(p)
      BY <2>1 DEF Unlock, PodFails, Goto, MigrateInv
    <2>2. CASE ConnReaped(p)
      <3>1. step[p] = "serving" /\ step' = step /\ Len(applied) = Versions
        BY <2>2 DEF ConnReaped, MigrateInv
      <3>2. step' = [step EXCEPT ![p] = "serving"]
        BY <3>1 DEF MigrateInv
      <3> QED
        BY <3>1, <3>2
    <2> QED
      BY <2>1, <2>2
  <1>2. UNCHANGED <<file, wait, schema, applied>>
    BY DEF Unlock, ConnReaped, PodFails
  <1>3. ASSUME NEW q \in Pods, q # p, OwnsLock(q) PROVE OwnsLock(q)'
    <2>1. holder \notin { p } \X Sessions
      BY <1>3 DEF OwnsLock
    <2>2. holder' = holder
      BY <2>1 DEF Unlock, ConnReaped, PodFails, OwnsLock
    <2> QED
      BY <1>3, <2>2 DEF OwnsLock
  <1>4. step'[p] = s /\ \A q \in Pods : q # p => step'[q] = step[q]
    BY <1>1 DEF MigrateInv
  <1> QED
    BY <1>1, <1>2, <1>3, <1>4 DEF MigrateInv, Migrating, PodSteps

\* The file that is next, and its row (migrate.go).
LEMMA ApplyStep ==
    ASSUME MigrateInv, NEW p \in Pods, CheckVersion(p) \/ ApplyVersion(p)
    PROVE  MigrateInv'
  <1>1. /\ UNCHANGED <<wait, holder>> /\ step[p] \in { "check", "apply" }
        /\ \A q \in Pods : OwnsLock(q)' = OwnsLock(q)
    BY DEF CheckVersion, ApplyVersion, OwnsLock
  <1>2. /\ Len(applied) \in 0 .. Versions /\ Versions \in Nat /\ file[p] \in 1 .. Len(applied) + 1
        /\ wait[p] \in { p } \X Sessions /\ OwnsLock(p) /\ schema = 1 .. Len(applied)
    BY <1>1, MigrationsAssumption DEF MigrateInv, Migrating, PodSteps
  <1>t. file \in [Pods -> Nat]
    BY Zenon DEF MigrateInv
  <1>e. \A q \in Pods : step[q] \in { "unlock", "serving" } => Len(applied) = Versions
    BY Zenon DEF MigrateInv
  <1>3. CASE CheckVersion(p)
    <2>1. UNCHANGED <<schema, applied>> /\ step[p] = "check"
      BY <1>3 DEF CheckVersion
    <2>2. CASE file[p] > Versions /\ step' = [step EXCEPT ![p] = "unlock"] /\ UNCHANGED file
      <3>1. Len(applied) = Versions
        BY <1>2, <2>2
      <3> QED
        BY <1>1, <1>2, <2>1, <2>2, <3>1 DEF MigrateInv, Migrating, PodSteps
    <2>3. CASE /\ file[p] \in schema /\ file' = [file EXCEPT ![p] = file[p] + 1]
               /\ UNCHANGED step
      <3>1. file[p] + 1 \in 1 .. Len(applied) + 1
        BY <1>2, <2>3
      <3>t. file' \in [Pods -> Nat]
        <4>1. file[p] + 1 \in Nat
          BY <1>t
        <4> QED
          BY <1>t, <2>3, <4>1
      <3>2. file'[p] = file[p] + 1 /\ \A q \in Pods : q # p => file'[q] = file[q]
        BY <2>3 DEF MigrateInv
      <3> QED
        <4>1. ASSUME NEW q \in Pods
              PROVE  /\ step[q] \in { "start", "lock", "check", "apply" } =>
                           file'[q] \in 1 .. Len(applied) + 1
                     /\ step[q] = "apply" => file'[q] = Len(applied) + 1 /\ file'[q] <= Versions
          BY <2>1, <3>1, <3>2 DEF MigrateInv
        <4> QED
          BY <1>1, <2>1, <2>3, <3>t, <4>1 DEF MigrateInv
    <2>4. CASE /\ ~(file[p] > Versions) /\ file[p] \notin schema
               /\ step' = [step EXCEPT ![p] = "apply"] /\ UNCHANGED file
      <3>1. file[p] = Len(applied) + 1 /\ file[p] <= Versions
        BY <1>2, <2>4
      <3> QED
        BY <1>1, <1>2, <2>1, <2>4, <3>1 DEF MigrateInv, Migrating, PodSteps
    <2> QED
      BY <1>3, <2>2, <2>3, <2>4 DEF CheckVersion, Goto
  <1>4. CASE ApplyVersion(p)
    <2>1. /\ step[p] = "apply" /\ step' = [step EXCEPT ![p] = "check"]
          /\ schema' = schema \cup { file[p] } /\ applied' = Append(applied, file[p])
          /\ file' = [file EXCEPT ![p] = file[p] + 1]
      BY <1>4 DEF ApplyVersion, Goto
    <2>2. file[p] = Len(applied) + 1 /\ file[p] <= Versions
      BY <2>1 DEF MigrateInv
    <2>3. applied \in Seq(Nat) /\ \A i \in 1 .. Len(applied) : applied[i] = i
      <3>1. applied = [i \in 1 .. Len(applied) |-> i]
        BY DEF MigrateInv
      <3>2. ASSUME NEW n \in Nat PROVE [i \in 1 .. n |-> i] \in Seq(Nat)
        OBVIOUS
      <3> QED
        BY <1>2, <3>1, <3>2
    <2>4. /\ Len(applied') = Len(applied) + 1 /\ applied' \in Seq(Nat)
          /\ \A i \in 1 .. Len(applied') : applied'[i] = i
      BY <1>2, <2>1, <2>2, <2>3
    <2>5. applied' = [i \in 1 .. Len(applied') |-> i]
      BY <2>4
    <2>6. schema' = 1 .. Len(applied') /\ Len(applied') \in 0 .. Versions
      BY <1>2, <2>1, <2>2, <2>4
    <2>7. /\ file' \in [Pods -> Nat] /\ file'[p] = Len(applied') + 1
          /\ \A q \in Pods : q # p => file'[q] = file[q]
      <3>1. file \in [Pods -> Nat] /\ file[p] + 1 \in Nat /\ file[p] + 1 = Len(applied') + 1
        BY <1>2, <1>t, <2>2, <2>4
      <3> QED
        BY <2>1, <3>1
    <2>8. ASSUME NEW q \in Pods, q # p
          PROVE  /\ step'[q] = step[q] /\ step[q] \notin Migrating \cup { "serving" }
                 /\ step[q] \in { "start", "lock" } => file'[q] \in 1 .. Len(applied') + 1
      <3>1. step'[q] = step[q]
        BY <2>1, <2>8 DEF MigrateInv
      <3>2. step[q] \notin Migrating
        BY <1>1, <2>8, OneMigrates DEF Migrating
      <3>3. step[q] # "serving"
        BY <1>2, <1>e, <2>2, <2>8
      <3> QED
        <4>1. step[q] \in { "start", "lock" } => file[q] \in 1 .. Len(applied) + 1
          BY DEF MigrateInv
        <4>2. file'[q] = file[q]
          BY <2>7, <2>8
        <4> QED
          BY <1>2, <2>4, <3>1, <3>2, <3>3, <4>1, <4>2
    <2>9. step'[p] = "check" /\ step' \in [Pods -> PodSteps] /\ DOMAIN wait' = Pods
      BY <1>1, <2>1 DEF MigrateInv, PodSteps, Migrating
    <2>10. ASSUME NEW q \in Pods
           PROVE  /\ step'[q] \in { "lock" } \cup Migrating => wait'[q] \in { q } \X Sessions
                  /\ step'[q] \in Migrating => OwnsLock(q)'
                  /\ step'[q] \in { "start", "lock", "check", "apply" } =>
                        file'[q] \in 1 .. Len(applied') + 1
                  /\ step'[q] # "apply" /\ step'[q] \notin { "unlock", "serving" }
      <3>1. CASE q = p
        <4>1. Len(applied') + 1 \in 1 .. Len(applied') + 1
          BY <2>6
        <4> QED
          BY <1>1, <1>2, <2>7, <2>9, <3>1, <4>1
      <3>2. CASE q # p
        BY <1>1, <2>8, <3>2 DEF MigrateInv, Migrating, PodSteps
      <3> QED
        BY <3>1, <3>2
    <2> QED
      BY <2>5, <2>6, <2>7, <2>9, <2>10 DEF MigrateInv
  <1> QED
    BY <1>3, <1>4

(***************************************************************************)
(* migrate.go.  For any number of pods, sessions, migrations and crashes:  *)
(* every migration is committed once and in file order, and a pod serves   *)
(* only on a complete schema, although an unlock may miss its session.     *)
(***************************************************************************)
THEOREM MigrationsInOrder == MigrationsSpec => []AppliedOnceInOrder
  <1>1. MigrationsInit => MigrateInv
    <2> SUFFICES ASSUME MigrationsInit PROVE MigrateInv
      OBVIOUS
    <2>1. Len(applied) = 0 /\ applied = [i \in 1 .. 0 |-> i] /\ schema = 1 .. 0
      BY DEF MigrationsInit
    <2> QED
      BY <2>1, MigrationsAssumption DEF MigrationsInit, MigrateInv, Migrating, PodSteps
  <1>2. MigrateInv /\ [MigrationsNext]_migrationVars => MigrateInv'
    <2> SUFFICES ASSUME MigrateInv, [MigrationsNext]_migrationVars PROVE MigrateInv'
      OBVIOUS
    <2>1. CASE UNCHANGED migrationVars
      BY <2>1 DEF migrationVars, MigrateInv, OwnsLock
    <2> QED
      BY <2>1, LockStep, UnlockStep, ApplyStep DEF MigrationsNext, MigrateStep
  <1>3. MigrateInv => AppliedOnceInOrder
    BY DEF MigrateInv, AppliedOnceInOrder
  <1> QED
    BY <1>1, <1>2, <1>3, PTL DEF MigrationsSpec

--------------------------------------------------------------------------------
(* Hot reload and feature flags *)

Working == { "read", "notify", "store" }
InGroup == { r \in Reloads : reload[r].at \in { "check", "done" } \cup Working }

HotReloadTypeOK ==
    /\ configFile \in Nat
    /\ reload \in [Reloads -> [at : { "unused", "fired", "check", "done", "over" } \cup Working, read : Nat]]
    /\ appliedVersion \in Nat /\ current \in Nat
    /\ starter \in { "unstarted", "watching", "closed" }
    /\ stopper \in { "serving", "waiting", "stopped" }

\* The group counts the goroutines past Add, so when Start's wait is over none of them
\* works, and none starts to: the context was done before the wait began.
StopWaits ==
    /\ waitGroup = Cardinality(InGroup)
    /\ starter = "closed" => cancelled /\ \A r \in Reloads : reload[r].at \notin Working
    /\ cancelled => stopper # "serving"
    /\ stopper = "stopped" => starter = "closed"

Applying(r) == reload[r].at \in { "notify", "store" }

ValidApplied ==
    /\ appliedVersion \notin Broken /\ current \notin Broken
    /\ \A r \in Reloads : Applying(r) => reload[r].read \notin Broken

\* While nothing has slipped one goroutine at a time applies a version, and the file's
\* version is still on its way or has arrived.
OnItsWay ==
    \/ unseen \/ timer \/ \E r \in Reloads : reload[r].at \in { "fired", "check", "read" }
    \/ \E r \in Reloads : reload[r].at = "notify" /\ reload[r].read = configFile
    \/ appliedVersion = configFile
       /\ \E r \in Reloads : reload[r].at = "store" /\ reload[r].read = configFile
    \/ appliedVersion = configFile /\ current = configFile /\ \A r \in Reloads : ~Applying(r)

LatestArrives ==
    ~slipped => /\ \A r, s \in Reloads : Applying(r) /\ Applying(s) => r = s
                /\ ~cancelled /\ configFile \notin Broken => OnItsWay

ReloadInv == HotReloadTypeOK /\ StopWaits /\ ValidApplied /\ LatestArrives

LEMMA ReloadInitial == HotReloadInit => ReloadInv
<1> SUFFICES ASSUME HotReloadInit PROVE ReloadInv
  OBVIOUS
<1>1. HotReloadTypeOK /\ LatestArrives
  BY DEF HotReloadInit, HotReloadTypeOK, LatestArrives, OnItsWay, Applying, Working
<1>2. 0 \notin Broken
  BY ReloadAssumption
<1>3. ValidApplied
  BY <1>2 DEF HotReloadInit, ValidApplied, Applying
<1>4. InGroup = {}
  BY DEF HotReloadInit, InGroup, Working
<1>5. StopWaits
  BY <1>4, FS_EmptySet DEF HotReloadInit, StopWaits
<1> QED
  BY <1>1, <1>3, <1>5 DEF ReloadInv

\* The steps outside the goroutines.
LEMMA WatcherKeeps ==
    ASSUME ReloadInv,
           \/ StartWatching \/ EditFile \/ FileChanged \/ StartReturns \/ Stop \/ StopReturns
           \/ UNCHANGED reloadVars
    PROVE  ReloadInv'
<1> USE DEF ReloadInv
<1>1. UNCHANGED <<reload, waitGroup, appliedVersion, current>>
  BY DEF StartWatching, EditFile, FileChanged, StartReturns, Stop, StopReturns, reloadVars
<1>2. InGroup' = InGroup /\ \A r \in Reloads : Applying(r)' = Applying(r)
  BY <1>1 DEF InGroup, Applying
<1>3. HotReloadTypeOK'
  BY <1>1 DEF HotReloadTypeOK, StartWatching, EditFile, FileChanged, StartReturns, Stop, StopReturns, reloadVars
<1>4. ValidApplied'
  BY <1>1, <1>2 DEF ValidApplied
<1>5. CASE StartReturns
  <2>1. IsFiniteSet(InGroup) /\ Cardinality(InGroup) = 0
    BY <1>5, FS_Subset, ReloadAssumption DEF StopWaits, StartReturns, InGroup
  <2>2. \A r \in Reloads : reload[r].at \notin Working
    BY <2>1, FS_EmptySet DEF InGroup
  <2>3. StopWaits'
    BY <1>1, <1>2, <1>5, <2>2 DEF StopWaits, StartReturns
  <2>4. LatestArrives'
    BY <1>1, <1>2, <1>5 DEF LatestArrives, OnItsWay, StartReturns
  <2> QED
    BY <1>3, <1>4, <2>3, <2>4
<1>6. CASE StartWatching \/ EditFile \/ FileChanged \/ Stop \/ StopReturns \/ UNCHANGED reloadVars
  <2>1. StopWaits'
    BY <1>1, <1>2, <1>6
    DEF StopWaits, StartWatching, EditFile, FileChanged, Stop, StopReturns, reloadVars, HotReloadTypeOK
  <2>2. \A r, s \in Reloads : Applying(r)' /\ Applying(s)' /\ ~slipped' => r = s
    BY <1>2, <1>6 DEF LatestArrives, StartWatching, EditFile, FileChanged, Stop, StopReturns, reloadVars
  <2>3. ASSUME ~slipped', ~cancelled', configFile' \notin Broken PROVE OnItsWay'
    <3>1. CASE EditFile
      BY <2>3, <3>1 DEF EditFile, OnItsWay
    <3>2. CASE FileChanged
      BY <2>3, <3>2 DEF FileChanged, OnItsWay, HotReloadTypeOK
    <3>3. CASE StartWatching \/ Stop \/ StopReturns \/ UNCHANGED reloadVars
      <4>1. OnItsWay
        BY <2>3, <3>3 DEF LatestArrives, StartWatching, Stop, StopReturns, reloadVars, StopWaits
      <4> QED
        BY <1>1, <1>2, <3>3, <4>1 DEF OnItsWay, StartWatching, Stop, StopReturns, reloadVars
    <3> QED
      BY <1>6, <3>1, <3>2, <3>3
  <2> QED
    BY <1>3, <1>4, <2>1, <2>2, <2>3 DEF LatestArrives
<1> QED
  BY <1>5, <1>6

\* How a goroutine's place changes the group.
LEMMA GroupChanges ==
    ASSUME ReloadInv, NEW r \in Reloads, NEW q \in [at : { "unused", "fired", "check", "done", "over" } \cup Working, read : Nat],
           reload' = [reload EXCEPT ![r] = q]
    PROVE  /\ reload'[r] = q /\ \A s \in Reloads \ { r } : reload'[s] = reload[s]
           /\ reload' \in [Reloads -> [at : { "unused", "fired", "check", "done", "over" } \cup Working, read : Nat]]
           /\ (r \in InGroup <=> r \in InGroup') => Cardinality(InGroup') = Cardinality(InGroup)
           /\ r \notin InGroup /\ r \in InGroup' => Cardinality(InGroup') = Cardinality(InGroup) + 1
           /\ r \in InGroup /\ r \notin InGroup' => Cardinality(InGroup') = Cardinality(InGroup) - 1
<1>1. reload \in [Reloads -> [at : { "unused", "fired", "check", "done", "over" } \cup Working, read : Nat]]
  BY DEF ReloadInv, HotReloadTypeOK
<1>2. reload'[r] = q /\ \A s \in Reloads \ { r } : reload'[s] = reload[s]
  BY <1>1
<1>3. reload' \in [Reloads -> [at : { "unused", "fired", "check", "done", "over" } \cup Working, read : Nat]]
  BY <1>1
<1>4. \A s \in Reloads \ { r } : s \in InGroup' <=> s \in InGroup
  BY <1>2 DEF InGroup
<1>5. InGroup \subseteq Reloads /\ InGroup' \subseteq Reloads
  BY DEF InGroup
<1>6. IsFiniteSet(InGroup)
  BY <1>5, FS_Subset, ReloadAssumption
<1>7. CASE r \in InGroup <=> r \in InGroup'
  <2>1. InGroup' = InGroup
    BY <1>4, <1>5, <1>7
  <2> QED
    BY <1>2, <1>3, <1>7, <2>1
<1>8. CASE r \notin InGroup /\ r \in InGroup'
  <2>1. InGroup' = InGroup \cup { r }
    BY <1>4, <1>5, <1>8
  <2> QED
    BY <1>2, <1>3, <1>6, <1>8, <2>1, FS_AddElement
<1>9. CASE r \in InGroup /\ r \notin InGroup'
  <2>1. InGroup' = InGroup \ { r }
    BY <1>4, <1>5, <1>9
  <2> QED
    BY <1>2, <1>3, <1>6, <1>9, <2>1, FS_RemoveElement
<1> QED
  BY <1>7, <1>8, <1>9

LEMMA GoroutineKeeps ==
    ASSUME ReloadInv, NEW r \in Reloads, DebounceOver(r) \/ ReloadStep(r)
    PROVE  ReloadInv'
<1> USE DEF ReloadInv
<1>0. UNCHANGED <<configFile, unseen, starter, stopper, cancelled>>
  BY DEF DebounceOver, ReloadStep, ReloadAdds, ReloadChecks, ReadFromViper, Notify, StoreConfig, ReloadDone
<1>1. reload[r] \in [at : { "unused", "fired", "check", "done", "over" } \cup Working, read : Nat]
      /\ configFile \in Nat
  BY DEF HotReloadTypeOK
<1> DEFINE q == reload'[r]
<1>2. /\ reload' = [reload EXCEPT ![r] = q]
      /\ q \in [at : { "unused", "fired", "check", "done", "over" } \cup Working, read : Nat]
      /\ \/ DebounceOver(r) /\ q.at = "fired" /\ q.read = reload[r].read
         \/ ReloadAdds(r) /\ q.at = "check" /\ q.read = reload[r].read
         \/ ReloadChecks(r) /\ q.at = (IF cancelled THEN "done" ELSE "read") /\ q.read = reload[r].read
         \/ ReadFromViper(r) /\ q.at = (IF configFile \in Broken THEN "done" ELSE "notify") /\ q.read = configFile
         \/ Notify(r) /\ q.at = "store" /\ q.read = reload[r].read
         \/ StoreConfig(r) /\ q.at = "done" /\ q.read = reload[r].read
         \/ ReloadDone(r) /\ q.at = "over" /\ q.read = reload[r].read
  BY <1>1 DEF DebounceOver, ReloadStep, ReloadAdds, ReloadChecks, ReadFromViper, Notify, StoreConfig, ReloadDone,
       ReloadAt, HotReloadTypeOK, Working
<1>3. /\ \A s \in Reloads \ { r } : reload'[s] = reload[s]
      /\ reload' \in [Reloads -> [at : { "unused", "fired", "check", "done", "over" } \cup Working, read : Nat]]
      /\ (r \in InGroup <=> r \in InGroup') => Cardinality(InGroup') = Cardinality(InGroup)
      /\ r \notin InGroup /\ r \in InGroup' => Cardinality(InGroup') = Cardinality(InGroup) + 1
      /\ r \in InGroup /\ r \notin InGroup' => Cardinality(InGroup') = Cardinality(InGroup) - 1
  BY <1>2, GroupChanges
<1> HIDE DEF q
<1>4. HotReloadTypeOK'
  BY <1>0, <1>1, <1>2, <1>3
  DEF HotReloadTypeOK, DebounceOver, ReloadAdds, ReloadChecks, ReadFromViper, Notify, StoreConfig, ReloadDone
<1>5. StopWaits'
  <2>1. waitGroup' = Cardinality(InGroup')
    BY <1>2, <1>3 DEF q, StopWaits, InGroup, Working, DebounceOver, ReloadAdds, ReloadChecks, ReadFromViper, Notify, StoreConfig, ReloadDone
  <2>2. starter' = "closed" => cancelled' /\ \A s \in Reloads : reload'[s].at \notin Working
    BY <1>0, <1>2, <1>3 DEF q, StopWaits, Working, DebounceOver, ReloadAdds, ReloadChecks, ReadFromViper, Notify, StoreConfig, ReloadDone
  <2> QED
    BY <1>0, <2>1, <2>2 DEF StopWaits
<1>6. \A s \in Reloads \ { r } : Applying(s)' <=> Applying(s)
  BY <1>3 DEF Applying
<1>7. ValidApplied'
  <2>1. Applying(r)' => reload'[r].read \notin Broken
    BY <1>2 DEF q, Applying, ValidApplied, ReadFromViper, Notify
  <2>2. appliedVersion' \notin Broken /\ current' \notin Broken
    BY <1>2 DEF Applying, ValidApplied, DebounceOver, ReloadAdds, ReloadChecks, ReadFromViper, Notify, StoreConfig, ReloadDone
  <2> QED
    BY <1>3, <1>6, <2>1, <2>2 DEF ValidApplied
<1>8. ASSUME ~slipped' PROVE \A s, t \in Reloads : Applying(s)' /\ Applying(t)' => s = t
  <2>1. ~slipped
    BY <1>2, <1>8 DEF DebounceOver, ReloadAdds, ReloadChecks, ReadFromViper, Notify, StoreConfig, ReloadDone
  <2>2. CASE ReadFromViper(r)
    BY <1>6, <1>8, <2>1, <2>2 DEF ReadFromViper, Applying, LatestArrives
  <2>3. CASE ~ReadFromViper(r)
    <3>1. Applying(r)' => Applying(r)
      BY <1>2, <2>3 DEF q, Applying, Notify
    <3> QED
      BY <1>6, <2>1, <3>1 DEF LatestArrives
  <2> QED
    BY <2>2, <2>3
<1>9. ASSUME ~slipped', ~cancelled', configFile' \notin Broken PROVE OnItsWay'
  <2>0. ~slipped
    BY <1>2, <1>9 DEF DebounceOver, ReloadAdds, ReloadChecks, ReadFromViper, Notify, StoreConfig, ReloadDone
  <2>1. /\ ~cancelled /\ configFile \notin Broken /\ OnItsWay
        /\ \A s, t \in Reloads : Applying(s) /\ Applying(t) => s = t
    BY <1>0, <1>9, <2>0 DEF LatestArrives
  <2>2. CASE DebounceOver(r) \/ ReloadAdds(r) \/ ReloadChecks(r)
    <3>1. reload'[r].at \in { "fired", "check", "read" }
      BY <1>2, <2>1, <2>2 DEF q, DebounceOver, ReloadAdds, ReloadChecks, ReadFromViper, Notify, StoreConfig, ReloadDone
    <3> QED
      BY <3>1 DEF OnItsWay
  <2>3. CASE ReadFromViper(r)
    <3>1. reload'[r].at = "notify" /\ reload'[r].read = configFile'
      BY <1>0, <1>2, <2>1, <2>3 DEF q, DebounceOver, ReloadAdds, ReloadChecks, ReadFromViper, Notify, StoreConfig, ReloadDone
    <3> QED
      BY <3>1 DEF OnItsWay
  <2>4. CASE Notify(r)
    <3>1. /\ reload[r].at = "notify" /\ reload'[r].at = "store" /\ reload'[r].read = reload[r].read
          /\ appliedVersion' = reload[r].read /\ timer' = timer
      BY <1>2, <2>4 DEF q, DebounceOver, ReloadAdds, ReloadChecks, ReadFromViper, Notify, StoreConfig, ReloadDone
    <3>2. \/ unseen \/ timer \/ \E s \in Reloads \ { r } : reload[s].at \in { "fired", "check", "read" }
          \/ reload[r].read = configFile
      BY <2>1, <3>1 DEF OnItsWay, Applying
    <3> QED
      BY <1>0, <1>3, <3>1, <3>2 DEF OnItsWay
  <2>5. CASE StoreConfig(r)
    <3>1. /\ reload[r].at = "store" /\ reload'[r].at = "done"
          /\ current' = reload[r].read /\ appliedVersion' = appliedVersion /\ timer' = timer
      BY <1>2, <2>5 DEF q, DebounceOver, ReloadAdds, ReloadChecks, ReadFromViper, Notify, StoreConfig, ReloadDone
    <3>2. \A s \in Reloads : ~Applying(s)'
      BY <1>6, <2>1, <3>1 DEF Applying
    <3>3. \/ unseen \/ timer \/ \E s \in Reloads \ { r } : reload[s].at \in { "fired", "check", "read" }
          \/ reload[r].read = configFile /\ appliedVersion = configFile
      BY <2>1, <3>1 DEF OnItsWay, Applying
    <3> QED
      BY <1>0, <1>3, <3>1, <3>2, <3>3 DEF OnItsWay
  <2>6. CASE ReloadDone(r)
    <3>1. /\ reload[r].at = "done" /\ reload'[r].at = "over"
          /\ UNCHANGED <<current, appliedVersion, timer>>
      BY <1>2, <2>6 DEF q, DebounceOver, ReloadAdds, ReloadChecks, ReadFromViper, Notify, StoreConfig, ReloadDone
    <3> QED
      BY <1>0, <1>3, <1>6, <2>1, <3>1 DEF OnItsWay, Applying
  <2> QED
    BY <2>2, <2>3, <2>4, <2>5, <2>6 DEF ReloadStep
<1> QED
  BY <1>4, <1>5, <1>7, <1>8, <1>9 DEF LatestArrives

\* A flag's version that is on its way to the cache is the row's, unless a write came
\* between; so is the cached one, unless a write has not invalidated it yet.
FlagsInv ==
    /\ flagGet \in [FlagGets -> [at : { "new", "read", "answered" }, version : Nat]]
    /\ flagSet \in [FlagSets -> { "new", "refused", "written", "done" }]
    /\ refresh \in [at : { "idle", "read" }, version : Nat]
    /\ flagRow \in Nat /\ flagCache \in Nat /\ flagWrites \in Nat
    /\ ~flagOverlap =>
          /\ refresh.at = "read" => refresh.version = flagRow
          /\ \A g \in FlagGets : flagGet[g].at = "read" => flagGet[g].version = flagRow
          /\ ~elsewhere /\ flagCache # 0 /\ (\A w \in FlagSets : flagSet[w] # "written") =>
                flagCache = flagRow \/ (refresh.at = "read" /\ refresh.version # 0)

\* A write is followed by its own invalidation, or is another instance's.
LEMMA RowWritten ==
    ASSUME FlagsInv, NEW deletes \in BOOLEAN, WriteRow(deletes), UNCHANGED <<flagCache, flagGet, refresh>>,
           \/ UNCHANGED flagSet /\ elsewhere'
           \/ \E w \in FlagSets : flagSet' = [flagSet EXCEPT ![w] = "written"]
    PROVE  FlagsInv'
<1>1. ~flagOverlap' => ~Carried
  BY DEF WriteRow
<1>2. flagRow' \in Nat /\ flagWrites' \in Nat
  BY DEF FlagsInv, WriteRow
<1>3. /\ flagSet' \in [FlagSets -> { "new", "refused", "written", "done" }]
      /\ elsewhere' \/ \E w \in FlagSets : flagSet'[w] = "written"
  BY DEF FlagsInv
<1> QED
  BY <1>1, <1>2, <1>3 DEF FlagsInv, Carried

LEMMA FlagsStepKeeps ==
    ASSUME FlagsInv, [FlagsNext]_flagVars
    PROVE  FlagsInv'
<1> USE DEF FlagsInv
<1>1. CASE UNCHANGED flagVars
  BY <1>1 DEF flagVars
<1>2. ASSUME NEW g \in FlagGets, GetFlag(g) PROVE FlagsInv'
  BY <1>2 DEF GetFlag
<1>3. ASSUME NEW g \in FlagGets, StoreFlag(g) PROVE FlagsInv'
  BY <1>3 DEF StoreFlag
<1>4. ASSUME NEW w \in FlagSets, UpdateFlag(w) \/ DeleteFlag(w) PROVE FlagsInv'
  <2>0. UNCHANGED <<flagCache, flagGet, refresh, elsewhere>>
    BY <1>4 DEF UpdateFlag, DeleteFlag
  <2>1. CASE \E deletes \in BOOLEAN : WriteRow(deletes) /\ flagSet' = [flagSet EXCEPT ![w] = "written"]
    BY <2>0, <2>1, RowWritten
  <2>2. CASE flagSet' = [flagSet EXCEPT ![w] = "refused"] /\ UNCHANGED <<flagRow, flagWrites, flagOverlap>>
    <3>1. flagSet[w] = "new" /\ flagSet' \in [FlagSets -> { "new", "refused", "written", "done" }]
      BY <1>4, <2>2 DEF UpdateFlag, DeleteFlag
    <3>2. \A v \in FlagSets : flagSet'[v] = "written" <=> flagSet[v] = "written"
      BY <2>2, <3>1
    <3> QED
      BY <2>0, <2>2, <3>1, <3>2
  <2> QED
    BY <1>4, <2>1, <2>2 DEF UpdateFlag, DeleteFlag
<1>6. ASSUME NEW w \in FlagSets, InvalidateFlag(w) PROVE FlagsInv'
  BY <1>6 DEF InvalidateFlag
<1>7. CASE WriteElsewhere
  BY <1>7, RowWritten DEF WriteElsewhere
<1>8. CASE RefreshReads
  BY <1>8 DEF RefreshReads
<1>9. CASE RefreshStores
  BY <1>9 DEF RefreshStores
<1>10. CASE FlagsExpire
  BY <1>10 DEF FlagsExpire
<1> QED
  BY <1>1, <1>2, <1>3, <1>4, <1>6, <1>7, <1>8, <1>9, <1>10 DEF FlagsNext

\* HotReload!ReloadsQuiesce, for any number of goroutines, edits, broken versions and
\* requests: Stop leaves nothing at work, no broken file is applied, the last version
\* arrives, and a cached flag is the row's.
THEOREM ReloadsAlwaysQuiesce == ReloadSpec => []ReloadsQuiesce
<1>1. HotReloadInit => ReloadInv /\ FlagsInv
  <2>1. HotReloadInit => FlagsInv
    BY DEF HotReloadInit, FlagsInv
  <2> QED
    BY <2>1, ReloadInitial
<1>2. ReloadInv /\ [HotReloadNext]_reloadVars => ReloadInv'
  BY WatcherKeeps, GoroutineKeeps DEF HotReloadNext
<1>3. FlagsInv /\ [FlagsNext]_flagVars => FlagsInv'
  BY FlagsStepKeeps
<1>4. ReloadInv /\ FlagsInv => ReloadsQuiesce
  <2> SUFFICES ASSUME ReloadInv, FlagsInv PROVE ReloadsQuiesce
    OBVIOUS
  <2> USE DEF ReloadInv
  <2>1. stopper = "stopped" => \A r \in Reloads : reload[r].at \notin { "read", "notify", "store" }
    BY DEF StopWaits, Working
  <2>2. { appliedVersion, current } \cap Broken = {}
    BY DEF ValidApplied
  <2>3. FlagsCurrent
    BY DEF FlagsInv, FlagsCurrent, Carried
  <2>4. Settled /\ ~slipped /\ ~cancelled /\ configFile \notin Broken => appliedVersion = configFile /\ current = configFile
    BY DEF Settled, LatestArrives, OnItsWay
  <2> QED
    BY <2>1, <2>2, <2>3, <2>4 DEF ReloadsQuiesce
<1> QED
  BY <1>1, <1>2, <1>3, <1>4, PTL DEF ReloadSpec

--------------------------------------------------------------------------------
(* The review *)

Reports == [findings : SUBSET (Nat \X (Severities \cup { "reason" })),
            suggestions : SUBSET [role : Roles \cup { "deterministic" }, line : Int, of : Nat, corroborated : BOOLEAN],
            failed : BOOLEAN, resolved : BOOLEAN, retries : Nat, output : Int]

BeforeScore == { "main", "scan", "review", "parallel", "score", "failed" }
Scans == { "review", "parallel", "score", "fix", "summary", "done" }

ReviewTypeOK ==
    /\ reviewStage \in BeforeScore \cup Scans \cup { "rescan" }
    /\ mode \in ReviewModes /\ version \in Nat /\ llmCalls \in Nat
    /\ scan \in [of : Nat, found : SUBSET Severities]
    /\ DOMAIN verdict = Roles /\ pointed \in [Roles -> Int]
    /\ report \in Reports

\* Every stage that looks at the scan has one of the code as it is, and the findings of
\* the report hold the scan's.
ScanIsCurrent ==
    /\ reviewStage \in Scans =>
          /\ scan.of = version
          /\ FindingsOf(version, scan.found) \subseteq report.findings
          /\ \A f \in report.findings : f[1] = version
    /\ reviewStage = "done" => report.output = version

\* Code is rewritten after failing evidence, at most MaxFixes times, and never in
\* suggestion mode, so the lines suggested stay those of the code.
FixesEarned ==
    /\ report.retries = version /\ version <= MaxFixes
    /\ reviewStage \in BeforeScore => version = 0
    /\ version > 0 \/ reviewStage \in { "fix", "rescan" } => report.failed /\ mode # "suggest"
    /\ report.resolved =>
          reviewStage \in { "summary", "done" } /\ report.findings = {} /\ scan.found = {}

\* A corroborated suggestion has a finding of the report next to it.
SuggestionsMatch ==
    /\ reviewStage \in BeforeScore => report.suggestions = {}
    /\ mode = "suggest" => \A s \in report.suggestions :
          /\ s.of = version
          /\ s.corroborated => \E f \in report.findings :
                f[2] \in Severities /\ LineOf[f[2]] - s.line \in -2 .. 2

Judged == { r \in Roles : verdict[r] # "none" }

\* What the stages so far may have cost.
CallsBounded ==
    /\ reviewStage = "main" => llmCalls = 0
    /\ reviewStage \in { "scan", "review", "failed" } => llmCalls <= 1
    /\ reviewStage \in { "main", "scan", "review" } => Judged = {}
    /\ reviewStage = "parallel" => llmCalls <= 2 + Cardinality(Judged)
    /\ reviewStage \in { "score", "fix", "rescan" } => llmCalls <= 2 + Cardinality(Roles) + version
    /\ llmCalls <= 2 + Cardinality(Roles) + MaxFixes

ReviewInv == ReviewTypeOK /\ ScanIsCurrent /\ FixesEarned /\ SuggestionsMatch /\ CallsBounded

LEMMA JudgedFinite ==
    ASSUME DOMAIN verdict = Roles
    PROVE  /\ IsFiniteSet(Judged) /\ Cardinality(Judged) \in Nat /\ Cardinality(Roles) \in Nat
           /\ Cardinality(Judged) <= Cardinality(Roles)
<1>1. Judged \subseteq Roles
  BY DEF Judged
<1> QED
  BY <1>1, FS_Subset, FS_CardinalityType, ReviewAssumption

LEMMA ReviewInitial == ReviewInit => ReviewInv
<1> SUFFICES ASSUME ReviewInit PROVE ReviewInv
  OBVIOUS
<1>1. ReviewTypeOK
  BY DEF ReviewInit, ReviewTypeOK, BeforeScore, Scans, Reports, Severities
<1>2. ScanIsCurrent /\ FixesEarned /\ SuggestionsMatch
  BY ReviewAssumption DEF ReviewInit, ScanIsCurrent, FixesEarned, SuggestionsMatch, BeforeScore, Scans
<1>3. Judged = {}
  BY DEF ReviewInit, Judged
<1>4. CallsBounded
  BY <1>3, ReviewAssumption, FS_CardinalityType DEF ReviewInit, CallsBounded
<1> QED
  BY <1>1, <1>2, <1>4 DEF ReviewInv

\* A reviewer's answer is a verdict.
LEMMA ReviewersJudge == \A a \in Prose : ParseReviewerOutput(a) # "none"
BY DEF Prose, ParseReviewerOutput

LEMMA FindingsTyped ==
    ASSUME NEW v \in Nat, NEW found \in SUBSET Severities, NEW reasons \in SUBSET { "reason" }
    PROVE  /\ FindingsOf(v, found \cup reasons) \in SUBSET (Nat \X (Severities \cup { "reason" }))
           /\ FindingsOf(v, found) \subseteq FindingsOf(v, found \cup reasons)
           /\ \A f \in FindingsOf(v, found \cup reasons) : f[1] = v
<1>1. ASSUME NEW f \in FindingsOf(v, found \cup reasons)
      PROVE  f \in Nat \X (Severities \cup { "reason" }) /\ f[1] = v
  <2>1. PICK s \in found \cup reasons : f = <<v, s>>
    BY <1>1 DEF FindingsOf
  <2> QED
    BY <2>1
<1>2. FindingsOf(v, found) \subseteq FindingsOf(v, found \cup reasons)
  BY DEF FindingsOf
<1> QED
  BY <1>1, <1>2

\* The scan and the reviewers.
LEMMA JudgingKeeps ==
    ASSUME ReviewInv,
           \/ UseGiven \/ (\E ok \in BOOLEAN : RunMainLLM(ok))
           \/ \E found \in SUBSET Severities, reasons \in SUBSET {"reason"} : ScanCode(found, reasons)
           \/ \E labels \in SUBSET (Roles \cup {"unknown"}) :
                 \E a \in [labels -> RoleVerdicts], l \in PointedLines : SingleCall(a, l)
           \/ SingleCallFails
           \/ \E r \in Roles : \E a : a # "none" /\ ReviewerReturns(r, a)
           \/ ReviewersDone \/ UNCHANGED reviewVars
    PROVE  ReviewInv'
<1> USE DEF ReviewInv
<1>0. /\ IsFiniteSet(Judged) /\ Cardinality(Judged) \in Nat /\ Cardinality(Roles) \in Nat
      /\ Cardinality(Judged) <= Cardinality(Roles) /\ MaxFixes \in Nat
  BY JudgedFinite, ReviewAssumption DEF ReviewTypeOK
<1>1. CASE UseGiven \/ (\E ok \in BOOLEAN : RunMainLLM(ok))
  <2>1. Judged' = Judged
    BY <1>1 DEF UseGiven, RunMainLLM, Judged
  <2>2. ReviewTypeOK' /\ ScanIsCurrent' /\ FixesEarned' /\ SuggestionsMatch'
    BY <1>1 DEF UseGiven, RunMainLLM, ReviewTypeOK, ScanIsCurrent, FixesEarned, SuggestionsMatch, BeforeScore, Scans
  <2>3. CallsBounded'
    BY <1>0, <1>1, <2>1 DEF UseGiven, RunMainLLM, CallsBounded, ReviewTypeOK
  <2> QED
    BY <2>2, <2>3
<1>2. ASSUME NEW found \in SUBSET Severities, NEW reasons \in SUBSET {"reason"}, ScanCode(found, reasons)
      PROVE  ReviewInv'
  <2>1. Judged' = Judged
    BY <1>2 DEF ScanCode, Judged
  <2>2. /\ scan' = [of |-> version, found |-> found]
        /\ report' = [report EXCEPT !.findings = FindingsOf(version, found \cup reasons)]
        /\ reviewStage = "scan" /\ reviewStage' \in { "score", "review" } /\ reviewStage' \in BeforeScore
        /\ UNCHANGED <<mode, version, verdict, pointed, llmCalls>>
    BY <1>2 DEF ScanCode, Scanned, BeforeScore
  <2>3. FindingsOf(version, found \cup reasons) \in SUBSET (Nat \X (Severities \cup { "reason" }))
        /\ FindingsOf(version, found) \subseteq FindingsOf(version, found \cup reasons)
        /\ \A f \in FindingsOf(version, found \cup reasons) : f[1] = version
    BY FindingsTyped DEF ReviewTypeOK
  <2>4. report' \in Reports /\ report'.findings = FindingsOf(version, found \cup reasons)
        /\ report'.retries = report.retries /\ report'.suggestions = report.suggestions
        /\ report'.failed = report.failed /\ report'.resolved = report.resolved
    BY <2>2, <2>3 DEF ReviewTypeOK, Reports
  <2>5. ReviewTypeOK'
    BY <2>2, <2>4 DEF ReviewTypeOK
  <2>6. ScanIsCurrent'
    BY <2>2, <2>3, <2>4 DEF ScanIsCurrent
  <2>7. FixesEarned' /\ SuggestionsMatch'
    BY <2>2, <2>4 DEF FixesEarned, SuggestionsMatch, BeforeScore
  <2>8. CallsBounded'
    BY <1>0, <2>1, <2>2 DEF CallsBounded, FixesEarned, ReviewTypeOK, BeforeScore
  <2> QED
    BY <2>5, <2>6, <2>7, <2>8
\* The reviewers change nothing but their verdicts, lines and calls.
<1>3. ASSUME UNCHANGED <<mode, version, scan, report>>, reviewStage \in { "review", "parallel" },
             reviewStage' \in { "parallel", "score" }
      PROVE  ScanIsCurrent' /\ FixesEarned' /\ SuggestionsMatch'
  BY <1>3 DEF ScanIsCurrent, FixesEarned, SuggestionsMatch, BeforeScore, Scans
<1>4. ASSUME NEW labels \in SUBSET (Roles \cup {"unknown"}), NEW a \in [labels -> RoleVerdicts], NEW l \in PointedLines,
             SingleCall(a, l)
      PROVE  ReviewInv'
  <2>1. l \in Int
    BY DEF PointedLines
  <2>2. ReviewTypeOK'
    BY <1>4, <2>1 DEF SingleCall, ReviewTypeOK, BeforeScore
  <2>3. CallsBounded'
    BY <1>0, <1>4 DEF SingleCall, CallsBounded, ReviewTypeOK
  <2> QED
    BY <1>3, <1>4, <2>2, <2>3 DEF SingleCall
<1>5. CASE SingleCallFails
  <2>1. Judged' = Judged /\ Cardinality({}) = 0
    BY <1>5, FS_EmptySet DEF SingleCallFails, Judged
  <2>2. CallsBounded'
    BY <1>0, <1>5, <2>1 DEF SingleCallFails, CallsBounded, ReviewTypeOK
  <2>3. ReviewTypeOK'
    BY <1>5 DEF SingleCallFails, ReviewTypeOK, BeforeScore
  <2> QED
    BY <1>3, <1>5, <2>2, <2>3 DEF SingleCallFails
<1>6. ASSUME NEW r \in Roles, NEW a, a # "none", ReviewerReturns(r, a) PROVE ReviewInv'
  <2>1. Judged' = Judged \cup { r } /\ r \notin Judged
    BY <1>6 DEF ReviewerReturns, Judged, ReviewTypeOK
  <2>2. Cardinality(Judged') = Cardinality(Judged) + 1
    BY <1>0, <2>1, FS_AddElement
  <2>3. ReviewTypeOK'
    BY <1>6 DEF ReviewerReturns, ReviewTypeOK
  <2>4. Cardinality(Judged') <= Cardinality(Roles)
    BY <2>1, <2>3, FS_Subset, ReviewAssumption DEF Judged
  <2>5. CallsBounded'
    BY <1>0, <1>6, <2>2, <2>4 DEF ReviewerReturns, CallsBounded, ReviewTypeOK
  <2> QED
    BY <1>3, <1>6, <2>3, <2>5 DEF ReviewerReturns
<1>7. CASE ReviewersDone
  <2>1. Judged = Roles
    BY <1>7 DEF ReviewersDone, Judged
  <2>2. CallsBounded'
    BY <1>0, <1>7, <2>1 DEF ReviewersDone, CallsBounded, ReviewTypeOK
  <2>3. ReviewTypeOK'
    BY <1>7 DEF ReviewersDone, ReviewTypeOK, BeforeScore
  <2> QED
    BY <1>3, <1>7, <2>2, <2>3 DEF ReviewersDone
<1>8. CASE UNCHANGED reviewVars
  <2>1. Judged' = Judged
    BY <1>8 DEF reviewVars, Judged
  <2> QED
    BY <1>8, <2>1 DEF reviewVars, ReviewTypeOK, ScanIsCurrent, FixesEarned, SuggestionsMatch, CallsBounded
<1> QED
  BY <1>1, <1>2, <1>4, <1>5, <1>6, <1>7, <1>8

\* The score, the fixes and the summary.
LEMMA FixingKeeps ==
    ASSUME ReviewInv,
           \/ \E services \in {{}, {"auth", "api"}} : ScoreEvidence(services, {"mfa"})
           \/ FixFails \/ FixCode \/ FixesUsedUp \/ BuildSummary
           \/ \E found \in SUBSET Severities : Rescan(found)
    PROVE  ReviewInv'
<1> USE DEF ReviewInv
<1>0. /\ Cardinality(Judged) \in Nat /\ Cardinality(Roles) \in Nat /\ MaxFixes \in Nat
      /\ Cardinality(Judged) <= Cardinality(Roles)
  BY JudgedFinite, ReviewAssumption DEF ReviewTypeOK
<1>1. UNCHANGED <<mode, verdict, pointed>> /\ Judged' = Judged
  BY DEF ScoreEvidence, FixFails, FixCode, FixesUsedUp, BuildSummary, Rescan, Judged
<1>2. ASSUME NEW services, ScoreEvidence(services, {"mfa"}) PROVE ReviewInv'
  <2> DEFINE fails == "fail" \in AggregateEvidence
                        \cup IF ValidateKnowledgeGraph(services, {"mfa"}) # {} THEN {"warn"} ELSE {}
  <2>0. /\ report' = [report EXCEPT !.suggestions = BuildSuggestions, !.failed = fails]
        /\ reviewStage' = IF mode # "suggest" /\ fails THEN "fix" ELSE "summary"
        /\ fails \in BOOLEAN
    BY <1>2 DEF ScoreEvidence
  <2> HIDE DEF fails
  <2>1. reviewStage = "score" /\ UNCHANGED <<mode, version, scan, verdict, pointed, llmCalls>>
    BY <1>2 DEF ScoreEvidence
  <2>2. \A s \in BuildSuggestions :
           /\ s \in [role : Roles \cup { "deterministic" }, line : Int, of : Nat, corroborated : BOOLEAN]
           /\ s.of = scan.of
           /\ s.corroborated => Near(s.line)
    <3> SUFFICES ASSUME NEW s \in BuildSuggestions
                 PROVE  /\ s \in [role : Roles \cup { "deterministic" }, line : Int, of : Nat, corroborated : BOOLEAN]
                        /\ s.of = scan.of
                        /\ s.corroborated => Near(s.line)
      OBVIOUS
    <3>0. scan.of \in Nat /\ scan.found \subseteq Severities /\ \A l : Near(l) \in BOOLEAN
      BY DEF ReviewTypeOK, Near
    <3>1. CASE \E x \in scan.found :
             s = [role |-> "deterministic", line |-> LineOf[x], of |-> scan.of, corroborated |-> FALSE]
      <4>1. \A x \in Severities : LineOf[x] \in Int
        BY DEF LineOf, Severities
      <4> QED
        BY <3>0, <3>1, <4>1
    <3>2. CASE \E r \in Roles :
             s = [role |-> r, line |-> pointed[r], of |-> scan.of, corroborated |-> Near(pointed[r])]
      BY <3>0, <3>2 DEF ReviewTypeOK
    <3> QED
      BY <3>1, <3>2 DEF BuildSuggestions
  <2>3. \A l : Near(l) => \E f \in report.findings : f[2] \in Severities /\ LineOf[f[2]] - l \in -2 .. 2
    <3> SUFFICES ASSUME NEW l, NEW s \in scan.found, LineOf[s] - l \in -2 .. 2
                 PROVE  \E f \in report.findings : f[2] \in Severities /\ LineOf[f[2]] - l \in -2 .. 2
      BY DEF Near
    <3>1. <<version, s>> \in report.findings /\ s \in Severities
      BY <2>1 DEF ScanIsCurrent, Scans, FindingsOf, ReviewTypeOK
    <3> QED
      BY <3>1
  <2>4. /\ report' \in Reports /\ report'.suggestions = BuildSuggestions /\ report'.failed = fails
        /\ report'.findings = report.findings /\ report'.resolved = report.resolved /\ report'.retries = report.retries
    BY <2>0, <2>2 DEF ReviewTypeOK, Reports
  <2>5. ReviewTypeOK' /\ ScanIsCurrent'
    BY <2>0, <2>1, <2>4 DEF ReviewTypeOK, ScanIsCurrent, Scans
  <2>6. FixesEarned'
    BY <2>0, <2>1, <2>4 DEF FixesEarned, BeforeScore
  <2>7. SuggestionsMatch'
    BY <2>0, <2>1, <2>2, <2>3, <2>4 DEF SuggestionsMatch, BeforeScore, ScanIsCurrent, Scans
  <2>8. CallsBounded'
    BY <1>0, <1>1, <2>0, <2>1 DEF CallsBounded, ReviewTypeOK
  <2> QED
    BY <2>5, <2>6, <2>7, <2>8
<1>3. CASE FixFails \/ FixesUsedUp
  <2>1. ReviewTypeOK' /\ ScanIsCurrent' /\ FixesEarned' /\ SuggestionsMatch'
    BY <1>3 DEF FixFails, FixesUsedUp, ReviewTypeOK, ScanIsCurrent, FixesEarned, SuggestionsMatch, BeforeScore, Scans
  <2>2. CallsBounded'
    BY <1>0, <1>1, <1>3 DEF FixFails, FixesUsedUp, CallsBounded, ReviewTypeOK, FixesEarned
  <2> QED
    BY <2>1, <2>2
<1>4. CASE FixCode
  <2>1. /\ report' \in Reports /\ report'.retries = report.retries + 1 /\ report'.failed = report.failed
        /\ report'.findings = report.findings /\ report'.resolved = report.resolved
        /\ report'.suggestions = report.suggestions
    BY <1>4 DEF FixCode, ReviewTypeOK, Reports
  <2>2. ReviewTypeOK' /\ ScanIsCurrent'
    BY <1>4, <2>1 DEF FixCode, ReviewTypeOK, ScanIsCurrent, Scans
  <2>3. FixesEarned' /\ SuggestionsMatch'
    BY <1>4, <2>1, ReviewAssumption DEF FixCode, FixesEarned, SuggestionsMatch, BeforeScore, ReviewTypeOK
  <2>4. CallsBounded'
    BY <1>0, <1>1, <1>4 DEF FixCode, CallsBounded, ReviewTypeOK, FixesEarned
  <2> QED
    BY <2>2, <2>3, <2>4
<1>5. ASSUME NEW found \in SUBSET Severities, Rescan(found) PROVE ReviewInv'
  <2>0. /\ scan' = [of |-> version, found |-> found] /\ reviewStage = "rescan"
        /\ reviewStage' = (IF found = {} THEN "summary" ELSE "fix") /\ UNCHANGED <<version, llmCalls>>
    BY <1>5 DEF Rescan, Scanned
  <2>1. FindingsOf(version, found) \in SUBSET (Nat \X (Severities \cup { "reason" }))
        /\ (\A f \in FindingsOf(version, found) : f[1] = version) /\ (found = {} => FindingsOf(version, found) = {})
    <3>1. found = found \cup {}
      OBVIOUS
    <3> QED
      BY <3>1, FindingsTyped DEF ReviewTypeOK, FindingsOf
  <2>2. /\ report' \in Reports /\ report'.findings = FindingsOf(version, found) /\ report'.resolved = (found = {})
        /\ report'.retries = report.retries /\ report'.failed = report.failed /\ report'.suggestions = report.suggestions
    BY <1>5, <2>1 DEF Rescan, ReviewTypeOK, Reports
  <2>3. ReviewTypeOK' /\ ScanIsCurrent'
    BY <1>1, <2>0, <2>1, <2>2 DEF ReviewTypeOK, ScanIsCurrent, Scans
  <2>4. FixesEarned' /\ SuggestionsMatch'
    BY <1>1, <2>0, <2>1, <2>2 DEF FixesEarned, SuggestionsMatch, BeforeScore
  <2>5. CallsBounded'
    BY <1>0, <1>1, <2>0 DEF CallsBounded, ReviewTypeOK
  <2> QED
    BY <2>3, <2>4, <2>5
<1>6. CASE BuildSummary
  <2>1. /\ report' \in Reports /\ report'.output = version
        /\ report'.retries = report.retries /\ report'.failed = report.failed
        /\ report'.findings = report.findings /\ report'.resolved = report.resolved
        /\ report'.suggestions = report.suggestions
    BY <1>6 DEF BuildSummary, ReviewTypeOK, Reports
  <2>2. ReviewTypeOK' /\ ScanIsCurrent'
    BY <1>6, <2>1 DEF BuildSummary, ReviewTypeOK, ScanIsCurrent, Scans
  <2>3. FixesEarned' /\ SuggestionsMatch'
    BY <1>6, <2>1 DEF BuildSummary, FixesEarned, SuggestionsMatch, BeforeScore
  <2>4. CallsBounded'
    BY <1>0, <1>1, <1>6 DEF BuildSummary, CallsBounded, ReviewTypeOK
  <2> QED
    BY <2>2, <2>3, <2>4
<1> QED
  BY <1>2, <1>3, <1>4, <1>5, <1>6

\* ReviewPipeline!ReportMatchesOutput, for any set of reviewer roles and limit of fixes:
\* the report is about the code the review returns, and the calls are bounded.
THEOREM ReportAlwaysMatches == ReviewSpec => []ReportMatchesOutput
<1>1. ReviewInv /\ [ReviewStep]_reviewVars => ReviewInv'
  <2> SUFFICES ASSUME ReviewInv, [ReviewStep]_reviewVars PROVE ReviewInv'
    OBVIOUS
  <2>1. (\E r \in Roles : ReviewerReturns(r, "error")) \/ (\E r \in Roles, a \in Prose : ReviewerReturns(r, ParseReviewerOutput(a)))
           => \E r \in Roles : \E a : a # "none" /\ ReviewerReturns(r, a)
    BY ReviewersJudge
  <2> QED
    BY <2>1, JudgingKeeps, FixingKeeps DEF ReviewStep
<1>2. ReviewInv => ReportMatchesOutput
  BY DEF ReviewInv, ReviewTypeOK, ScanIsCurrent, FixesEarned, SuggestionsMatch, CallsBounded, ReportMatchesOutput, Scans
<1> QED
  BY <1>1, <1>2, ReviewInitial, PTL DEF ReviewSpec

--------------------------------------------------------------------------------
(* The life of the process *)

Starting == { "load", "db", "migrate", "redis", "nats", "wire" }
Unwinding == { "drain", "cancel", "router", "reload", "reloadWait", "cleanup", "natsDrain" }
Stopping == { "closeDB", "closed" }

LifecycleTypeOK ==
    /\ env \in Envs /\ mainAt \in Starting \cup { "serving", "exited" } \cup Unwinding \cup Stopping
    /\ link \in [Backends -> { "none", "open", "closing", "closed" }]
    /\ exit \in { "no", "killed", "error", "forced", "clean" }
    /\ mainAt = "exited" <=> exit # "no"

\* What is open, step by step: New connects in order and goes on with what it has only
\* in development.
LinksKept ==
    /\ mainAt \in Starting \cup { "serving" } \cup Unwinding \/ exit \in { "killed", "forced" } =>
          \A c \in Backends : link[c] \in { "none", "open" }
    /\ mainAt \in { "load", "db" } => link["db"] = "none"
    /\ mainAt = "migrate" => link["db"] = "open"
    /\ mainAt \in { "load", "db", "migrate", "redis" } => link["redis"] = "none"
    /\ mainAt \in { "load", "db", "migrate", "redis", "nats" } => link["nats"] = "none"
    /\ ~Dev => /\ mainAt \in { "redis", "nats", "wire", "serving" } => link["db"] = "open"
               /\ mainAt \in { "nats", "wire", "serving" } => link["redis"] = "open"
               /\ mainAt \in { "wire", "serving" } => link["nats"] = "open"
    /\ mainAt \in Stopping => link["redis"] \in { "none", "closed" } /\ link["nats"] \in { "none", "closed" }
    /\ mainAt = "closeDB" => link["db"] \in { "none", "open" }
    /\ mainAt = "closed" => link["db"] \in { "none", "closing" }
    /\ exit \in { "clean", "error" } => \A c \in Backends : link[c] \in { "none", "closed" }

\* Every goroutine that ends before the process is in the hands of one of the three
\* mechanisms, and Shutdown comes past each of them.
EveryoneTold ==
    /\ started \subseteq Workers
    /\ started \cap OfCleanup \subseteq chain
    /\ mainAt \in Starting => started = {} /\ inHTTP = "none"
    /\ mainAt \in { "router", "reload", "reloadWait", "cleanup", "natsDrain" } \cup Stopping \/ exit = "clean" =>
          OfShutdownCtx \subseteq told
    /\ mainAt \in { "reload", "reloadWait", "cleanup", "natsDrain" } \cup Stopping \/ exit = "clean" =>
          OfRouter \subseteq told
    /\ mainAt \in { "natsDrain" } \cup Stopping \/ exit = "clean" => chain \subseteq told

LifecycleInv == LifecycleTypeOK /\ LinksKept /\ EveryoneTold

LEMMA LifecycleInitial == LifecycleInit => LifecycleInv
BY DEF LifecycleInit, LifecycleInv, LifecycleTypeOK, LinksKept, EveryoneTold, Starting, Unwinding, Stopping,
       Backends, Dev, Envs

\* Up to the router and its goroutines.
LEMMA StartingKeeps ==
    ASSUME LifecycleInv,
           \/ LoadConfig \/ RunMigrations \/ Wire \/ KilledEarly
           \/ \E c \in Backends : Connect(c) \/ ConnectFails(c)
    PROVE  LifecycleInv'
<1> USE DEF LifecycleInv
<1> USE DEF LifecycleTypeOK, LinksKept, EveryoneTold, Starting, Unwinding, Stopping, Backends, Dev
<1>1. CASE LoadConfig
  BY <1>1 DEF LoadConfig, Exit
<1>2. CASE RunMigrations
  BY <1>2 DEF RunMigrations, Exit, CloseOpened
<1>3. CASE Wire
  BY <1>3 DEF Wire, CleanupChain, BuildRouter, NewWithMiddleware, NewDefault, NewRouter,
              InitSecurityDependencies, InitHandlers, Workers, OfShutdownCtx, OfRouter, OfCleanup, Endless
<1>4. CASE KilledEarly
  BY <1>4 DEF KilledEarly, Exit
<1>5. ASSUME NEW c \in Backends, Connect(c)
      PROVE  LifecycleInv'
  BY <1>5 DEF Connect, After
<1>6. ASSUME NEW c \in Backends, ConnectFails(c)
      PROVE  LifecycleInv'
  BY <1>6 DEF ConnectFails, After, Exit, CloseOpened
<1> QED
  BY <1>1, <1>2, <1>3, <1>4, <1>5, <1>6

\* While it serves, and the goroutines at any time.
LEMMA ServingKeeps ==
    ASSUME LifecycleInv,
           \/ Quit \/ StartWatch \/ WatchEnds \/ UNCHANGED lifecycleVars
           \/ \E w \in Workers : WorkerTicks(w) \/ TickReturns(w)
           \/ \E k \in { "short", "stream" } : RequestArrives(k) \/ RequestEnds(k)
    PROVE  LifecycleInv'
<1> USE DEF LifecycleInv
<1>1. CASE Quit
  BY <1>1 DEF Quit, LifecycleTypeOK, LinksKept, EveryoneTold, Starting, Unwinding, Stopping, Dev
<1>2. CASE StartWatch \/ WatchEnds \/ UNCHANGED lifecycleVars
  BY <1>2 DEF StartWatch, WatchEnds, lifecycleVars, LifecycleTypeOK, LinksKept, EveryoneTold, Dev
<1>3. ASSUME NEW w \in Workers, WorkerTicks(w) \/ TickReturns(w)
      PROVE  LifecycleInv'
  <2>1. /\ UNCHANGED <<env, mainAt, attempt, link, told, chain, inHTTP, exit>>
        /\ started' \subseteq started
    BY <1>3 DEF WorkerTicks, TickReturns
  <2> QED
    BY <2>1 DEF LifecycleTypeOK, LinksKept, EveryoneTold, Dev
<1>4. ASSUME NEW k \in { "short", "stream" }, RequestArrives(k) \/ RequestEnds(k)
      PROVE  LifecycleInv'
  <2>1. /\ UNCHANGED <<env, mainAt, link, told, chain, exit>>
        /\ mainAt \notin Starting
        /\ started' \subseteq started \cup { "task" }
    BY <1>4 DEF RequestArrives, RequestEnds, EveryoneTold, Starting
  <2>2. "task" \in Workers /\ "task" \notin OfCleanup
    BY DEF Workers, OfCleanup
  <2> QED
    BY <2>1, <2>2 DEF LifecycleTypeOK, LinksKept, EveryoneTold, Dev
<1> QED
  BY <1>1, <1>2, <1>3, <1>4

LEMMA StoppingKeeps ==
    ASSUME LifecycleInv,
           \/ HTTPShutdown \/ HTTPShutdownFails \/ ShutdownCancel \/ RouterShutdown \/ StopReload
           \/ ReloadStopped \/ RunCleanup \/ CloseQueues \/ CloseDB \/ PoolClosed
    PROVE  LifecycleInv'
<1> USE DEF LifecycleInv
<1> USE DEF LifecycleTypeOK, LinksKept, EveryoneTold, Starting, Unwinding, Stopping, Backends, Dev
<1>1. CASE HTTPShutdown \/ ShutdownCancel \/ RouterShutdown \/ StopReload \/ ReloadStopped \/ RunCleanup
  BY <1>1 DEF HTTPShutdown, ShutdownCancel, RouterShutdown, StopReload, ReloadStopped, RunCleanup
<1>2. CASE HTTPShutdownFails
  BY <1>2 DEF HTTPShutdownFails, Exit
<1>3. CASE CloseQueues
  BY <1>3 DEF CloseQueues
<1>4. CASE CloseDB
  BY <1>4 DEF CloseDB
<1>5. CASE PoolClosed
  BY <1>5 DEF PoolClosed, Exit
<1> QED
  BY <1>1, <1>2, <1>3, <1>4, <1>5

(***************************************************************************)
(* server.New, Server.Shutdown.  Whatever step of New failed and wherever  *)
(* the signal came, for any number of attempts and size of the pool: a     *)
(* process that ends cleanly or with an error holds no connection, the     *)
(* pool is closed only after everyone who uses it on a timer was told to   *)
(* stop, and outside development it serves only with all backends open.    *)
(***************************************************************************)
THEOREM ShutdownAlwaysReleases == LifecycleSpec => []ShutdownReleases
<1>1. LifecycleInv /\ [LifecycleNext]_lifecycleVars => LifecycleInv'
  BY StartingKeeps, ServingKeeps, StoppingKeeps DEF LifecycleNext, MainStep
<1>2. LifecycleInv => ShutdownReleases
  <2> SUFFICES ASSUME LifecycleInv PROVE ShutdownReleases
    OBVIOUS
  <2> USE DEF LifecycleInv
  <2>1. exit \in { "clean", "error" } => \A c \in Backends : link[c] \in { "none", "closed" }
    BY DEF LinksKept
  <2>2. exit # "error" /\ link["db"] \in { "closing", "closed" } => mainAt \in Stopping \/ exit = "clean"
    BY DEF LifecycleTypeOK, LinksKept, Backends
  <2>3. mainAt \in Stopping \/ exit = "clean" => started \ (Endless \cup { "startup", "task" }) \subseteq told
    BY DEF EveryoneTold, Workers
  <2>4. UseDB \cap Endless = {}
    BY DEF UseDB, Endless
  <2>5. mainAt = "serving" /\ ~Dev => Readiness({})
    BY DEF LinksKept, Readiness, Backends
  <2> QED
    BY <2>1, <2>2, <2>3, <2>4, <2>5 DEF ShutdownReleases
<1> QED
  BY <1>1, <1>2, LifecycleInitial, PTL DEF LifecycleSpec

\* Both together: the schema every process serves on, and what it leaves when it stops.
THEOREM StartsAndStopsSoundly == MigrationsSpec /\ LifecycleSpec => []StartAndStop
  BY MigrationsInOrder, ShutdownAlwaysReleases, PTL DEF StartAndStop

--------------------------------------------------------------------------------
(* Rate limits *)

LEMMA LeastNatural ==
    ASSUME NEW S \in SUBSET Nat, S # {}
    PROVE  Min(S) \in S /\ \A x \in S : Min(S) <= x
<1>1. \E n \in S : \A m \in S : n <= m
  <2> DEFINE R == { p \in Nat \X Nat : p[1] < p[2] }
  <2>1. IsWellFoundedOn(R, Nat)
    BY NatLessThanWellFounded, Zenon DEF OpToRel
  <2>2. \A m, n \in Nat : <<m, n>> \in R <=> m < n
    OBVIOUS
  <2> HIDE DEF R
  <2>3. \E n \in S : \A m \in S : ~(<<m, n>> \in R)
    BY <2>1, WFMin
  <2>4. PICK n \in S : \A m \in S : ~(<<m, n>> \in R)
    BY <2>3
  <2>5. \A m \in S : m \in Nat /\ n \in Nat /\ ~(m < n)
    BY <2>2, <2>4
  <2>6. \A m \in S : n <= m
    BY <2>5
  <2> QED
    BY <2>6
<1> QED
  BY <1>1, Zenon DEF Min

(***************************************************************************)
(* The sorted set holds nothing that was not allowed and everything allowed *)
(* that a window can still see; the day's counter is what the day allowed.  *)
(***************************************************************************)
LimitsInv ==
    /\ second \in Nat
    /\ passedKey \subseteq Nat \X LimitedRequests /\ IsFiniteSet(passedKey)
    /\ zset \subseteq passedKey
    /\ \A x \in passedKey : x[1] <= second /\ (x[1] > second - SlidingWindow => x \in zset)
    /\ Cardinality(InWindow(passedKey)) <= KeyLimit
    /\ passedDay = dayCount /\ dayCount \in 0 .. PerDay
    /\ ~refusedEarly

LEMMA LimitsKnown ==
    /\ KeyLimit \in Nat /\ KeyLimit >= 1 /\ PerDay \in Nat /\ PerDay >= 1
    /\ SlidingWindow \in Nat /\ SlidingWindow >= 1
BY RateLimitsAssumption

LEMMA LimitsInitial == RateLimitsInit => LimitsInv
<1> SUFFICES ASSUME RateLimitsInit PROVE LimitsInv
  OBVIOUS
<1>1. InWindow({}) = {} /\ Cardinality({}) = 0 /\ IsFiniteSet({})
  BY FS_EmptySet DEF InWindow
<1> QED
  BY <1>1, LimitsKnown DEF RateLimitsInit, LimitsInv

\* What the script keeps is what the window sees.
LEMMA WindowKept ==
    ASSUME LimitsInv
    PROVE  /\ Purged = InWindow(passedKey) /\ Purged \subseteq passedKey
           /\ IsFiniteSet(Purged) /\ Cardinality(Purged) \in Nat
           /\ \A x \in Purged : x[1] \in Nat /\ x[1] > second - SlidingWindow
<1>1. Purged \subseteq passedKey
  BY DEF LimitsInv, Purged
<1>2. IsFiniteSet(Purged)
  BY <1>1, FS_Subset DEF LimitsInv
<1>3. \A x \in Purged : x[1] \in Nat /\ x[1] > second - SlidingWindow
  <2> SUFFICES ASSUME NEW x \in Purged PROVE x[1] \in Nat /\ x[1] > second - SlidingWindow
    OBVIOUS
  <2>1. x \in Nat \X LimitedRequests
    BY <1>1 DEF LimitsInv
  <2> QED
    BY <2>1 DEF Purged
<1>4. Purged = InWindow(passedKey)
  BY DEF LimitsInv, Purged, InWindow
<1> QED
  BY <1>1, <1>2, <1>3, <1>4, FS_CardinalityType

\* RateLimiter.Middleware: a request is served if and only if the set had room, since
\* what made it full is younger than the window.
LEMMA ServedWithRoom ==
    ASSUME LimitsInv
    PROVE  RetryAfter(Purged) <= 0 <=> Cardinality(Purged) < KeyLimit
<1>1. CASE Cardinality(Purged) < KeyLimit
  BY <1>1 DEF RetryAfter
<1>2. CASE ~(Cardinality(Purged) < KeyLimit)
  <2>1. Purged # {}
    BY <1>2, LimitsKnown, FS_EmptySet
  <2> DEFINE S == { x[1] : x \in Purged }
  <2>2. S \in SUBSET Nat /\ S # {}
    BY <2>1, WindowKept
  <2>3. Min(S) \in S
    BY <2>2, LeastNatural
  <2>4. Min(S) \in Nat /\ Min(S) > second - SlidingWindow
    BY <2>3, WindowKept
  <2>5. RetryAfter(Purged) = SlidingWindow - (second - Min(S))
    BY <1>2 DEF RetryAfter, Oldest
  <2> HIDE DEF S
  <2>6. RetryAfter(Purged) > 0
    BY <2>4, <2>5, LimitsKnown DEF LimitsInv
  <2> QED
    BY <1>2, <2>4, <2>5, <2>6, LimitsKnown DEF LimitsInv
<1> QED
  BY <1>1, <1>2

LEMMA KeyScriptKeeps ==
    ASSUME LimitsInv, NEW r \in LimitedRequests, KeyScript(r)
    PROVE  LimitsInv'
<1> DEFINE member == <<second, r>>
<1>1. member \in Nat \X LimitedRequests /\ member[1] = second
  BY DEF LimitsInv
<1>2. UNCHANGED <<second, dayCount, passedDay>>
  BY DEF KeyScript
<1>3. CASE Cardinality(Purged) < KeyLimit
  <2>1. /\ zset' = Purged \cup { member } /\ passedKey' = passedKey \cup { member }
        /\ refusedEarly' = FALSE
    BY <1>3, ServedWithRoom DEF KeyScript, LimitsInv
  <2>2. IsFiniteSet(passedKey') /\ passedKey' \subseteq Nat \X LimitedRequests
    BY <1>1, <2>1, FS_AddElement DEF LimitsInv
  <2>3. /\ zset' \subseteq passedKey'
        /\ \A x \in passedKey' : x[1] <= second' /\ (x[1] > second' - SlidingWindow => x \in zset')
    BY <1>1, <1>2, <2>1, WindowKept DEF LimitsInv, Purged
  <2>4. InWindow(passedKey)' \subseteq Purged \cup { member }
    BY <1>2, <2>1, WindowKept DEF InWindow
  <2>5. /\ IsFiniteSet(Purged \cup { member })
        /\ Cardinality(Purged \cup { member }) <= Cardinality(Purged) + 1
        /\ Cardinality(Purged \cup { member }) \in Nat
    <3>1. IsFiniteSet(Purged \cup { member })
      BY WindowKept, FS_AddElement
    <3>2. \/ Cardinality(Purged \cup { member }) = Cardinality(Purged) + 1
          \/ Cardinality(Purged \cup { member }) = Cardinality(Purged)
      BY WindowKept, FS_AddElement
    <3> QED
      BY <3>1, <3>2, WindowKept
  <2>6. Cardinality(InWindow(passedKey)') <= Cardinality(Purged \cup { member })
        /\ Cardinality(InWindow(passedKey)') \in Nat
    BY <2>4, <2>5, FS_Subset, FS_CardinalityType
  <2>7. Cardinality(InWindow(passedKey))' <= KeyLimit
    BY <1>3, <2>5, <2>6, WindowKept, LimitsKnown
  <2> QED
    BY <1>2, <2>1, <2>2, <2>3, <2>7 DEF LimitsInv
<1>4. CASE ~(Cardinality(Purged) < KeyLimit)
  <2>1. zset' = Purged /\ passedKey' = passedKey
    BY <1>4, ServedWithRoom DEF KeyScript
  <2>2. ~(Cardinality(InWindow(passedKey)) < KeyLimit)
    BY <1>4, WindowKept
  <2>3. refusedEarly' = FALSE
    BY <2>2 DEF KeyScript, LimitsInv
  <2>4. InWindow(passedKey)' = InWindow(passedKey)
    BY <1>2, <2>1 DEF InWindow
  <2> QED
    BY <1>2, <2>1, <2>3, <2>4 DEF LimitsInv, Purged
<1> QED
  BY <1>3, <1>4

\* The day's read and its script compare the same counter.
LEMMA DayKeeps ==
    ASSUME LimitsInv, NEW r \in LimitedRequests, DayPreRead(r) \/ DayScript(r)
    PROVE  LimitsInv'
<1>1. UNCHANGED <<second, zset, passedKey>>
  BY DEF DayPreRead, DayScript
<1>2. passedDay' = dayCount' /\ dayCount' \in 0 .. PerDay /\ ~refusedEarly'
  <2>1. passedDay = dayCount /\ dayCount \in 0 .. PerDay /\ ~refusedEarly
    BY DEF LimitsInv
  <2>2. dayCount >= PerDay => ~(passedDay < PerDay)
    BY <2>1, LimitsKnown
  <2>3. CASE DayPreRead(r)
    <3>1. UNCHANGED <<dayCount, passedDay>> /\ ~refusedEarly'
      BY <2>1, <2>2, <2>3, Zenon DEF DayPreRead
    <3> QED
      BY <2>1, <3>1
  <2>4. CASE DayScript(r) /\ dayCount >= PerDay
    <3>1. UNCHANGED <<dayCount, passedDay>> /\ ~refusedEarly'
      BY <2>1, <2>2, <2>4, Zenon DEF DayScript
    <3> QED
      BY <2>1, <3>1
  <2>5. CASE DayScript(r) /\ ~(dayCount >= PerDay)
    <3>1. dayCount' = dayCount + 1 /\ passedDay' = passedDay + 1 /\ refusedEarly' = refusedEarly
      BY <2>5 DEF DayScript
    <3> QED
      BY <2>1, <2>5, <3>1, LimitsKnown
  <2> QED
    BY <2>3, <2>4, <2>5
<1>3. InWindow(passedKey)' = InWindow(passedKey)
  BY <1>1 DEF InWindow
<1> QED
  BY <1>1, <1>2, <1>3 DEF LimitsInv

\* What has left the window does not come back.
LEMMA SecondKeeps ==
    ASSUME LimitsInv, SecondPasses
    PROVE  LimitsInv'
<1>1. second' = second + 1 /\ UNCHANGED <<zset, passedKey, dayCount, passedDay, refusedEarly>>
  BY DEF SecondPasses
<1>2. \A x \in passedKey : x[1] \in Nat
  <2> SUFFICES ASSUME NEW x \in passedKey PROVE x[1] \in Nat
    OBVIOUS
  <2>1. x \in Nat \X LimitedRequests
    BY DEF LimitsInv
  <2> QED
    BY <2>1
<1>3. \A x \in passedKey : x[1] <= second' /\ (x[1] > second' - SlidingWindow => x \in zset')
  BY <1>1, <1>2, LimitsKnown DEF LimitsInv
<1>4. InWindow(passedKey)' \subseteq InWindow(passedKey)
  BY <1>1, <1>2, LimitsKnown DEF LimitsInv, InWindow
<1>5. IsFiniteSet(InWindow(passedKey))
  BY WindowKept
<1>6. Cardinality(InWindow(passedKey)') <= Cardinality(InWindow(passedKey))
  BY <1>4, <1>5, FS_Subset
<1>7. Cardinality(InWindow(passedKey)') \in Nat /\ Cardinality(InWindow(passedKey)) \in Nat
  BY <1>4, <1>5, FS_Subset, FS_CardinalityType
<1>8. Cardinality(InWindow(passedKey))' <= KeyLimit
  BY <1>6, <1>7, LimitsKnown DEF LimitsInv
<1> QED
  BY <1>1, <1>3, <1>8 DEF LimitsInv

(***************************************************************************)
(* Middleware!LimitsExact, for any number of requests and every limit and  *)
(* window, with Redis failing or not: the window and the day let exactly   *)
(* as many through as they are to.                                         *)
(***************************************************************************)
THEOREM LimitsAlwaysExact == RateLimitsSpec => []LimitsExact
<1>1. LimitsInv /\ [RateLimitsNext]_rateVars => LimitsInv'
  <2> SUFFICES ASSUME LimitsInv, [RateLimitsNext]_rateVars PROVE LimitsInv'
    OBVIOUS
  <2>1. ASSUME UNCHANGED <<second, zset, passedKey, dayCount, passedDay, refusedEarly>> PROVE LimitsInv'
    BY <2>1 DEF LimitsInv, InWindow
  <2>2. ASSUME NEW r \in LimitedRequests,
               \/ CheckMinute(r) \/ CheckTasksQuota(r) \/ ServeAndMeter(r) \/ FailOpen(r)
        PROVE  LimitsInv'
    BY <2>1, <2>2 DEF CheckMinute, CheckTasksQuota, ServeAndMeter, FailOpen
  <2>3. CASE UNCHANGED rateVars
    BY <2>1, <2>3 DEF rateVars
  <2> QED
    BY <2>2, <2>3, KeyScriptKeeps, DayKeeps, SecondKeeps DEF RateLimitsNext
<1>2. LimitsInv => LimitsExact
  BY LimitsKnown DEF LimitsInv, LimitsExact
<1> QED
  BY <1>1, <1>2, LimitsInitial, PTL DEF RateLimitsSpec

--------------------------------------------------------------------------------
(* The response cache *)

\* An element is cut out of a list without repetitions.
LEMMA CutOut ==
    ASSUME NEW S, NEW s \in Seq(S), IsInjective(s), NEW i \in 1 .. Len(s)
    PROVE  LET t == RemoveAt(s, i) IN
           /\ t \in Seq(S) /\ Len(t) = Len(s) - 1 /\ IsInjective(t)
           /\ ToSet(t) = ToSet(s) \ { s[i] }
<1> DEFINE a == SubSeq(s, 1, i - 1)
           b == SubSeq(s, i + 1, Len(s))
           t == RemoveAt(s, i)
<1>1. /\ a \in Seq(S) /\ b \in Seq(S) /\ Len(a) = i - 1 /\ Len(b) = Len(s) - i
      /\ \A j \in 1 .. i - 1 : a[j] = s[j]
      /\ \A j \in 1 .. Len(s) - i : b[j] = s[i + j]
  BY SubSeqProperties, LenProperties
<1>2. t = a \o b /\ Len(s) \in Nat
  BY LenProperties DEF RemoveAt
<1> HIDE DEF a, b, t
<1>3. t \in Seq(S) /\ Len(t) = Len(s) - 1
      /\ \A j \in 1 .. Len(s) - 1 : t[j] = IF j < i THEN s[j] ELSE s[j + 1]
  <2>1. /\ t \in Seq(S) /\ Len(t) = Len(a) + Len(b)
        /\ \A j \in 1 .. Len(a) + Len(b) : t[j] = IF j <= Len(a) THEN a[j] ELSE b[j - Len(a)]
    BY <1>1, <1>2, ConcatProperties
  <2>2. Len(a) + Len(b) = Len(s) - 1
    BY <1>1, <1>2
  <2>3. ASSUME NEW j \in 1 .. Len(s) - 1 PROVE t[j] = IF j < i THEN s[j] ELSE s[j + 1]
    <3>1. CASE j < i
      <4>1. j \in 1 .. i - 1 /\ j <= Len(a)
        BY <1>1, <1>2, <3>1
      <4> QED
        BY <1>1, <2>1, <2>2, <3>1, <4>1
    <3>2. CASE j >= i
      <4>1. j - (i - 1) \in 1 .. Len(s) - i /\ ~(j <= i - 1) /\ i + (j - (i - 1)) = j + 1
        BY <1>1, <1>2, <3>2
      <4>2. b[j - (i - 1)] = s[i + (j - (i - 1))]
        BY <1>1, <4>1
      <4>3. t[j] = b[j - (i - 1)]
        BY <1>1, <2>1, <2>2, <4>1
      <4> QED
        BY <3>2, <4>1, <4>2, <4>3
    <3>3. j < i \/ j >= i
      OBVIOUS
    <3> QED
      BY <3>1, <3>2, <3>3
  <2> QED
    BY <2>1, <2>2, <2>3
<1>4. DOMAIN t = 1 .. Len(s) - 1 /\ DOMAIN s = 1 .. Len(s) /\ Len(s) \in Nat
  BY <1>2, <1>3, LenProperties
<1>5. IsInjective(t)
  <2> SUFFICES ASSUME NEW j \in 1 .. Len(s) - 1, NEW n \in 1 .. Len(s) - 1, t[j] = t[n]
               PROVE  j = n
    BY <1>4 DEF IsInjective
  <2> DEFINE at(m) == IF m < i THEN m ELSE m + 1
  <2>1. at(j) \in DOMAIN s /\ at(n) \in DOMAIN s /\ s[at(j)] = s[at(n)]
    BY <1>3, <1>4
  <2>2. at(j) = at(n)
    BY <2>1 DEF IsInjective
  <2> QED
    BY <1>4, <2>2
<1>6. \A j \in 1 .. Len(s) - 1 : t[j] \in ToSet(s) \ { s[i] }
  <2> SUFFICES ASSUME NEW j \in 1 .. Len(s) - 1 PROVE t[j] \in ToSet(s) \ { s[i] }
    OBVIOUS
  <2> DEFINE m == IF j < i THEN j ELSE j + 1
  <2>1. t[j] = s[m] /\ m \in DOMAIN s /\ i \in DOMAIN s /\ m # i
    BY <1>3, <1>4
  <2> HIDE DEF m
  <2> QED
    BY <2>1 DEF IsInjective, ToSet
<1>7. \A j \in 1 .. Len(s) : j # i => s[j] \in ToSet(t)
  <2> SUFFICES ASSUME NEW j \in 1 .. Len(s), j # i PROVE s[j] \in ToSet(t)
    OBVIOUS
  <2>1. CASE j < i
    BY <1>3, <1>4, <2>1 DEF ToSet
  <2>2. CASE j > i
    <3>1. j - 1 \in 1 .. Len(s) - 1 /\ t[j - 1] = s[j]
      BY <1>3, <1>4, <2>2
    <3> QED
      BY <1>4, <3>1 DEF ToSet
  <2> QED
    BY <2>1, <2>2
<1>8. ToSet(t) = ToSet(s) \ { s[i] }
  BY <1>4, <1>6, <1>7 DEF ToSet
<1> QED
  BY <1>3, <1>5, <1>8 DEF t

\* One is added that the list does not have.
LEMMA PutLast ==
    ASSUME NEW S, NEW s \in Seq(S), IsInjective(s), NEW k \in S, k \notin ToSet(s)
    PROVE  /\ Append(s, k) \in Seq(S) /\ Len(Append(s, k)) = Len(s) + 1
           /\ IsInjective(Append(s, k)) /\ ToSet(Append(s, k)) = ToSet(s) \cup { k }
<1>1. /\ Append(s, k) \in Seq(S) /\ Len(Append(s, k)) = Len(s) + 1
      /\ \A i \in 1 .. Len(s) : Append(s, k)[i] = s[i] /\ Append(s, k)[Len(s) + 1] = k
      /\ Append(s, k)[Len(s) + 1] = k
  BY AppendProperties
<1>2. DOMAIN Append(s, k) = 1 .. Len(s) + 1 /\ DOMAIN s = 1 .. Len(s) /\ Len(s) \in Nat
  BY <1>1, LenProperties
<1>3. IsInjective(Append(s, k))
  BY <1>1, <1>2 DEF IsInjective, ToSet
<1>4. ToSet(Append(s, k)) = ToSet(s) \cup { k }
  BY <1>1, <1>2 DEF ToSet
<1> QED
  BY <1>1, <1>3, <1>4

\* The oldest ones are cut off.
LEMMA CutOff ==
    ASSUME NEW S, NEW s \in Seq(S), IsInjective(s), NEW n \in 0 .. Len(s)
    PROVE  LET t == SubSeq(s, n + 1, Len(s)) IN
           /\ t \in Seq(S) /\ Len(t) = Len(s) - n /\ IsInjective(t)
           /\ ToSet(t) = ToSet(s) \ { s[i] : i \in 1 .. n }
<1> DEFINE t == SubSeq(s, n + 1, Len(s))
<1>1. Len(s) \in Nat /\ n \in Nat /\ n <= Len(s) /\ DOMAIN s = 1 .. Len(s)
  BY LenProperties
<1>2. /\ t \in Seq(S) /\ Len(t) = Len(s) - n
      /\ \A j \in 1 .. Len(s) - n : t[j] = s[n + j]
  BY SubSeqProperties, LenProperties
<1> HIDE DEF t
<1>3. DOMAIN t = 1 .. Len(s) - n
  BY <1>2, LenProperties
<1>4. ASSUME NEW j \in 1 .. Len(s) - n
      PROVE  /\ n + j \in DOMAIN s /\ t[j] = s[n + j]
             /\ t[j] \in ToSet(s) \ { s[i] : i \in 1 .. n }
  <2>1. n + j \in DOMAIN s /\ \A i \in 1 .. n : i \in DOMAIN s /\ i # n + j
    BY <1>1
  <2>2. t[j] = s[n + j]
    BY <1>2
  <2> QED
    BY <2>1, <2>2 DEF IsInjective, ToSet
<1>5. IsInjective(t)
  <2> SUFFICES ASSUME NEW i \in 1 .. Len(s) - n, NEW j \in 1 .. Len(s) - n, t[i] = t[j] PROVE i = j
    BY <1>3 DEF IsInjective
  <2>1. n + i = n + j
    BY <1>4 DEF IsInjective
  <2> QED
    BY <1>1, <2>1
<1>7. \A j \in 1 .. Len(s) : j > n => s[j] \in ToSet(t)
  <2> SUFFICES ASSUME NEW j \in 1 .. Len(s), j > n PROVE s[j] \in ToSet(t)
    OBVIOUS
  <2>1. j - n \in 1 .. Len(s) - n /\ n + (j - n) = j
    BY <1>1
  <2>2. t[j - n] = s[j]
    BY <1>2, <2>1
  <2> QED
    BY <1>3, <2>1, <2>2 DEF ToSet
<1>8. ToSet(t) = ToSet(s) \ { s[i] : i \in 1 .. n }
  <2>1. ASSUME NEW x \in ToSet(t) PROVE x \in ToSet(s) \ { s[i] : i \in 1 .. n }
    <3>1. PICK j \in 1 .. Len(s) - n : x = t[j]
      BY <1>3 DEF ToSet
    <3> QED
      BY <1>4, <3>1
  <2>2. ASSUME NEW x \in ToSet(s) \ { s[i] : i \in 1 .. n } PROVE x \in ToSet(t)
    <3>1. PICK j \in 1 .. Len(s) : x = s[j]
      BY <1>1 DEF ToSet
    <3>2. j > n
      <4> SUFFICES ASSUME j \in 1 .. n PROVE FALSE
        BY <1>1
      <4> QED
        BY <3>1
    <3> QED
      BY <1>7, <3>1, <3>2
  <2> QED
    BY <2>1, <2>2
<1> QED
  BY <1>2, <1>5, <1>8 DEF t

\* A list without repetitions is as long as its set is large.
LEMMA ListCounts ==
    ASSUME NEW S, NEW s \in Seq(S), IsInjective(s)
    PROVE  IsFiniteSet(ToSet(s)) /\ Cardinality(ToSet(s)) = Len(s)
<1>1. DOMAIN s = 1 .. Len(s) /\ Len(s) \in Nat
  BY LenProperties
<1>2. s \in Bijection(1 .. Len(s), ToSet(s))
  BY <1>1 DEF Bijection, Injection, Surjection, IsInjective, ToSet
<1>3. ExistsBijection(1 .. Len(s), ToSet(s))
  BY <1>2 DEF ExistsBijection
<1> QED
  BY <1>1, <1>3, FS_CountingElements, FS_NatBijection

--------------------------------------------------------------------------------

CacheReader ==
    [at : { "idle", "hit", "miss", "read", "served" }, path : CachePaths \cup { NoEntry },
     entry : CacheEntries \cup { NoEntry }, begun : SUBSET Writers]

\* The list names every entry once.
ListKept ==
    ToSet(order) = Cached /\ IsInjective(order) /\ Len(order) <= MaxSize

\* No entry outlives the end of a write: "behind" of every entry is what has finished,
\* and of an entry that a reader took, what had finished when the reader began.
CacheInv ==
    /\ entries \in [CachePaths -> CacheEntries \cup { NoEntry }]
    /\ order \in Seq(CachePaths)
    /\ committed \subseteq Writers /\ finished \subseteq Writers
    /\ reader \in [Readers -> CacheReader]
    /\ \A r \in Readers :
          /\ reader[r].at # "idle" => reader[r].path \in CachePaths
          /\ reader[r].at \in { "hit", "read", "served" } => reader[r].entry \in CacheEntries
          /\ reader[r].at \in { "hit", "served" } => reader[r].entry.behind = reader[r].begun
    /\ \A k \in Cached : entries[k].behind = finished
    /\ ListKept

\* Dropping a key, and making it the most recently used one.
LEMMA DropKeeps ==
    ASSUME order \in Seq(CachePaths), ListKept, NEW k \in CachePaths
    PROVE  /\ Drop(k) \in Seq(CachePaths) /\ IsInjective(Drop(k))
           /\ ToSet(Drop(k)) = Cached \ { k }
           /\ Len(Drop(k)) = IF k \in Cached THEN Len(order) - 1 ELSE Len(order)
<1>1. DOMAIN order = 1 .. Len(order) /\ Len(order) \in Nat
  BY LenProperties
<1>2. Contains(order, k) <=> k \in Cached
  BY <1>1 DEF ListKept, Contains, ToSet
<1>3. CASE k \notin Cached
  BY <1>2, <1>3 DEF Drop, ListKept
<1>4. CASE k \in Cached
  <2> DEFINE i == CHOOSE i \in DOMAIN order : order[i] = k
  <2>1. i \in 1 .. Len(order) /\ order[i] = k
    BY <1>1, <1>2, <1>4 DEF Contains
  <2>2. Drop(k) = RemoveAt(order, i)
    BY <1>2, <1>4 DEF Drop
  <2> HIDE DEF i
  <2>3. order \in Seq(CachePaths) /\ IsInjective(order) /\ ToSet(order) = Cached
    BY DEF ListKept
  <2>4. /\ RemoveAt(order, i) \in Seq(CachePaths) /\ Len(RemoveAt(order, i)) = Len(order) - 1
        /\ IsInjective(RemoveAt(order, i)) /\ ToSet(RemoveAt(order, i)) = ToSet(order) \ { order[i] }
    BY <2>1, <2>3, CutOut
  <2> QED
    BY <1>4, <2>1, <2>2, <2>3, <2>4
<1> QED
  BY <1>3, <1>4

LEMMA BumpKeeps ==
    ASSUME order \in Seq(CachePaths), ListKept, NEW k \in CachePaths
    PROVE  /\ Bump(k) \in Seq(CachePaths) /\ IsInjective(Bump(k))
           /\ ToSet(Bump(k)) = Cached /\ Len(Bump(k)) = Len(order)
<1>1. DOMAIN order = 1 .. Len(order) /\ Len(order) \in Nat
  BY LenProperties
<1>2. Contains(order, k) <=> k \in Cached
  BY <1>1 DEF ListKept, Contains, ToSet
<1>3. CASE k \notin Cached
  BY <1>2, <1>3 DEF Bump, ListKept
<1>4. CASE k \in Cached
  <2>1. /\ Drop(k) \in Seq(CachePaths) /\ IsInjective(Drop(k))
        /\ ToSet(Drop(k)) = Cached \ { k } /\ Len(Drop(k)) = Len(order) - 1
    BY <1>4, DropKeeps
  <2>2. /\ Append(Drop(k), k) \in Seq(CachePaths) /\ Len(Append(Drop(k), k)) = Len(Drop(k)) + 1
        /\ IsInjective(Append(Drop(k), k)) /\ ToSet(Append(Drop(k), k)) = ToSet(Drop(k)) \cup { k }
    BY <2>1, PutLast
  <2>3. Bump(k) = Append(Drop(k), k)
    BY <1>2, <1>4 DEF Bump
  <2>4. ToSet(Bump(k)) = Cached
    BY <1>4, <2>1, <2>2, <2>3
  <2>5. Len(Bump(k)) = Len(order)
    <3>1. Len(Drop(k)) = Len(order) - 1
      BY <2>1
    <3>2. Len(Bump(k)) = Len(Drop(k)) + 1
      BY <2>2, <2>3
    <3> QED
      BY <1>1, <3>1, <3>2
  <2> QED
    BY <2>2, <2>3, <2>4, <2>5
<1> QED
  BY <1>3, <1>4

\* The room that Set makes for a new key.
LEMMA EvictKeeps ==
    ASSUME order \in Seq(CachePaths), ListKept, NEW k \in CachePaths, k \notin Cached
    PROVE  LET t == Append(SubSeq(order, Evicted + 1, Len(order)), k) IN
           /\ t \in Seq(CachePaths) /\ IsInjective(t) /\ Len(t) <= MaxSize
           /\ ToSet(t) = (Cached \ OldestEntry) \cup { k }
<1> DEFINE cut == SubSeq(order, Evicted + 1, Len(order))
<1>1. Cardinality(Cached) = Len(order) /\ Len(order) \in Nat /\ MaxSize \in Nat \ { 0 }
  BY ListCounts, LenProperties, ResponseCacheAssumption DEF ListKept
<1>2. Evicted \in 0 .. Len(order) /\ Len(order) - Evicted < MaxSize
  BY <1>1 DEF Evicted, ListKept
<1>3. /\ cut \in Seq(CachePaths) /\ Len(cut) = Len(order) - Evicted /\ IsInjective(cut)
      /\ ToSet(cut) = Cached \ OldestEntry
  BY <1>2, CutOff DEF ListKept, OldestEntry
<1> HIDE DEF cut
<1>4. /\ Append(cut, k) \in Seq(CachePaths) /\ Len(Append(cut, k)) = Len(cut) + 1
      /\ IsInjective(Append(cut, k)) /\ ToSet(Append(cut, k)) = ToSet(cut) \cup { k }
  BY <1>3, PutLast
<1> QED
  BY <1>1, <1>2, <1>3, <1>4 DEF cut

LEMMA CacheStart == ResponseCacheInit => CacheInv
<1> SUFFICES ASSUME ResponseCacheInit PROVE CacheInv
  OBVIOUS
<1>1. order = <<>> /\ order \in Seq(CachePaths) /\ Len(order) = 0 /\ DOMAIN order = {}
  BY EmptySeq DEF ResponseCacheInit
<1>2. Cached = {} /\ ListKept
  BY <1>1, ResponseCacheAssumption DEF ResponseCacheInit, ListKept, Cached, ToSet, IsInjective
<1>3. reader \in [Readers -> CacheReader] /\ \A r \in Readers : reader[r].at = "idle"
  BY DEF ResponseCacheInit, CacheReader, Idle
<1>4. entries \in [CachePaths -> CacheEntries \cup { NoEntry }]
  BY DEF ResponseCacheInit
<1> QED
  BY <1>1, <1>2, <1>3, <1>4 DEF CacheInv, ResponseCacheInit

LEMMA CacheKept ==
    ASSUME CacheInv, [ResponseCacheNext]_cacheVars PROVE CacheInv'
<1> USE DEF CacheInv
<1>t. \A body \in SUBSET Writers : Entry(body) \in CacheEntries /\ Entry(body).behind = finished
  BY DEF Entry, CacheEntries
<1>i. Idle \in CacheReader /\ Idle.at = "idle"
  BY DEF Idle, CacheReader
<1>1. ASSUME NEW r \in Readers, NEW k \in CachePaths, Lookup(r, k) PROVE CacheInv'
  <2>1. Cached' = Cached /\ ListKept'
    BY <1>1 DEF Lookup, Cached, ListKept
  <2>2. reader' \in [Readers -> CacheReader]
    BY <1>1 DEF Lookup, CacheReader
  <2>3. CASE entries[k] # NoEntry /\ ~entries[k].expired
    <3>1. reader'[r] = [at |-> "hit", path |-> k, entry |-> entries[k], begun |-> finished]
      BY <1>1, <2>3 DEF Lookup
    <3>2. entries[k] \in CacheEntries /\ entries[k].behind = finished
      BY <2>3 DEF Cached
    <3> QED
      BY <1>1, <2>1, <2>2, <3>1, <3>2 DEF Lookup
  <2>4. CASE ~(entries[k] # NoEntry /\ ~entries[k].expired)
    <3>1. reader'[r] = [at |-> "miss", path |-> k, entry |-> NoEntry, begun |-> finished]
      BY <1>1, <2>4 DEF Lookup
    <3> QED
      BY <1>1, <2>1, <2>2, <3>1 DEF Lookup
  <2> QED
    BY <2>3, <2>4
<1>2. ASSUME NEW r \in Readers, ServeHit(r) PROVE CacheInv'
  <2>1. order' \in Seq(CachePaths) /\ Cached' = Cached /\ ListKept'
    BY <1>2, BumpKeeps DEF ServeHit, Cached, ListKept
  <2>2. reader'[r] = [reader[r] EXCEPT !.at = "served"] /\ reader' \in [Readers -> CacheReader]
    BY <1>2 DEF ServeHit, CacheReader
  <2> QED
    BY <1>2, <2>1, <2>2 DEF ServeHit, CacheReader
<1>3. ASSUME NEW r \in Readers, HandlerReads(r) PROVE CacheInv'
  <2>1. Cached' = Cached /\ ListKept'
    BY <1>3 DEF HandlerReads, Cached, ListKept
  <2>2. CASE reader' = [reader EXCEPT ![r].at = "read", ![r].entry = Entry(committed)]
    <3> DEFINE e == Entry(committed)
               new == [reader[r] EXCEPT !.at = "read", !.entry = e]
    <3>1. e \in CacheEntries /\ reader[r].at = "miss"
      BY <1>3, <1>t DEF HandlerReads
    <3> HIDE DEF e
    <3>2. /\ new \in CacheReader /\ new.at = "read" /\ new.entry \in CacheEntries
          /\ new.path = reader[r].path
      BY <3>1 DEF CacheReader
    <3>3. reader' = [reader EXCEPT ![r] = new]
      BY <2>2 DEF e
    <3> HIDE DEF new
    <3>4. reader' \in [Readers -> CacheReader] /\ reader'[r] = new
          /\ \A x \in Readers : x # r => reader'[x] = reader[x]
      BY <3>2, <3>3
    <3> QED
      BY <1>3, <2>1, <3>1, <3>2, <3>4 DEF HandlerReads
  <2>3. CASE reader' = [reader EXCEPT ![r] = Idle]
    BY <1>3, <1>i, <2>1, <2>3 DEF HandlerReads
  <2> QED
    BY <1>3, <2>2, <2>3 DEF HandlerReads
<1>4. ASSUME NEW r \in Readers, NotModified(r) \/ Answered(r) PROVE CacheInv'
  <2>1. Cached' = Cached /\ ListKept'
    BY <1>4 DEF NotModified, Answered, Cached, ListKept
  <2> QED
    BY <1>4, <1>i, <2>1 DEF NotModified, Answered
<1>5. ASSUME NEW r \in Readers, Set(r) PROVE CacheInv'
  <2> DEFINE k == reader[r].path
             gone == IF k \in Cached THEN {} ELSE OldestEntry
             new == Entry(reader[r].entry.body)
  <2>1. k \in CachePaths /\ reader[r].entry.body \in SUBSET Writers
    BY <1>5 DEF Set, CacheEntries
  <2>2. new \in CacheEntries /\ new.behind = finished /\ new # NoEntry
    BY <1>t, <2>1, ResponseCacheAssumption
  <2>3. entries' = [x \in CachePaths |-> IF x = k THEN new ELSE IF x \in gone THEN NoEntry ELSE entries[x]]
    BY <1>5 DEF Set
  <2> HIDE DEF new
  <2>4. Cached' = (Cached \ gone) \cup { k }
    <3>1. Cached' = { x \in CachePaths : entries'[x] # NoEntry }
      BY DEF Cached
    <3> QED
      BY <2>1, <2>2, <2>3, <3>1 DEF Cached
  <2>5. order' \in Seq(CachePaths) /\ ListKept'
    <3>1. CASE k \in Cached
      BY <1>5, <2>1, <2>4, <3>1, BumpKeeps DEF Set, ListKept
    <3>2. CASE k \notin Cached
      <4>1. order' = Append(SubSeq(order, Evicted + 1, Len(order)), k)
        BY <1>5, <3>2 DEF Set
      <4> QED
        BY <2>1, <2>4, <3>2, <4>1, EvictKeeps DEF ListKept
    <3> QED
      BY <3>1, <3>2
  <2>6. entries' \in [CachePaths -> CacheEntries \cup { NoEntry }]
        /\ \A x \in Cached' : entries'[x].behind = finished
    <3>1. entries' \in [CachePaths -> CacheEntries \cup { NoEntry }]
      BY <2>2, <2>3
    <3>2. ASSUME NEW x \in Cached' PROVE entries'[x].behind = finished
      <4>1. CASE x = k
        BY <2>1, <2>2, <2>3, <4>1
      <4>2. CASE x # k
        <5>1. x \in Cached /\ x \notin gone /\ entries'[x] = entries[x]
          BY <2>3, <2>4, <3>2, <4>2 DEF Cached
        <5> QED
          BY <5>1
      <4> QED
        BY <4>1, <4>2
    <3> QED
      BY <3>1, <3>2
  <2> QED
    BY <1>5, <1>i, <2>5, <2>6 DEF Set
<1>6. ASSUME NEW k \in CachePaths, CachedExpires(k) PROVE CacheInv'
  <2> DEFINE new == [entries[k] EXCEPT !.expired = TRUE]
  <2>1. entries[k] \in CacheEntries /\ k \in Cached
    BY <1>6 DEF CachedExpires, Cached
  <2>2. new \in CacheEntries /\ new.behind = finished /\ new # NoEntry
    <3>1. new \in CacheEntries /\ new.behind = entries[k].behind
      BY <2>1 DEF CacheEntries
    <3> QED
      BY <2>1, <3>1, ResponseCacheAssumption
  <2>3. entries' = [entries EXCEPT ![k] = new]
    BY <1>6 DEF CachedExpires
  <2> HIDE DEF new
  <2>4. Cached' = Cached
    <3>1. Cached' = { x \in CachePaths : entries'[x] # NoEntry }
      BY DEF Cached
    <3> QED
      BY <2>1, <2>2, <2>3, <3>1 DEF Cached
  <2>5. entries' \in [CachePaths -> CacheEntries \cup { NoEntry }]
        /\ \A x \in Cached' : entries'[x].behind = finished
    BY <2>2, <2>3, <2>4
  <2> QED
    BY <1>6, <2>4, <2>5 DEF CachedExpires, ListKept
<1>7. ASSUME NEW w \in Writers, WriteCommits(w) PROVE CacheInv'
  <2>1. Cached' = Cached /\ ListKept'
    BY <1>7 DEF WriteCommits, Cached, ListKept
  <2> QED
    BY <1>7, <2>1 DEF WriteCommits
<1>8. ASSUME NEW w \in Writers, DeletePath(w) PROVE CacheInv'
  <2>1. ParentPath \in CachePaths
    BY ResponseCacheAssumption
  <2>2. Cached' = Cached \ { ParentPath }
    <3>1. Cached' = { x \in CachePaths : entries'[x] # NoEntry }
      BY DEF Cached
    <3> QED
      BY <1>8, <2>1, <3>1 DEF DeletePath, Delete, Cached
  <2>3. order' \in Seq(CachePaths) /\ ListKept'
    <3>1. Len(order) \in Nat /\ MaxSize \in Nat
      BY LenProperties, ResponseCacheAssumption
    <3>2. Len(Drop(ParentPath)) <= MaxSize
      BY <2>1, <3>1, DropKeeps DEF ListKept
    <3> QED
      BY <1>8, <2>1, <2>2, <3>2, DropKeeps DEF DeletePath, Delete, ListKept
  <2>4. entries' \in [CachePaths -> CacheEntries \cup { NoEntry }]
        /\ \A x \in Cached' : entries'[x] = entries[x]
    BY <1>8, <2>2 DEF DeletePath, Delete, Cached
  <2>5. UNCHANGED <<reader, committed, finished>>
    BY <1>8 DEF DeletePath
  <2> QED
    BY <2>2, <2>3, <2>4, <2>5
<1>9. ASSUME NEW w \in Writers, InvalidatePrefix(w) PROVE CacheInv'
  <2>1. Cached' = {}
    <3>1. Cached' = { x \in CachePaths : entries'[x] # NoEntry }
      BY DEF Cached
    <3> QED
      BY <1>9, <3>1 DEF InvalidatePrefix, DeleteAll
  <2>2. order' = <<>> /\ order' \in Seq(CachePaths) /\ Len(order') = 0 /\ DOMAIN order' = {}
    BY <1>9, EmptySeq DEF InvalidatePrefix, DeleteAll
  <2>3. ListKept'
    BY <2>1, <2>2, ResponseCacheAssumption DEF ListKept, ToSet, IsInjective
  <2> QED
    BY <1>9, <2>1, <2>2, <2>3 DEF InvalidatePrefix, DeleteAll
<1>10. CASE UNCHANGED cacheVars
  BY <1>10 DEF cacheVars, Cached, ListKept
<1> QED
  BY <1>1, <1>2, <1>3, <1>4, <1>5, <1>6, <1>7, <1>8, <1>9, <1>10 DEF ResponseCacheNext

\* ResponseCacheMiddleware, Get, Set, Delete and InvalidatePrefix, for any number of
\* readers, writers and paths, and any size of the cache.
THEOREM ServedOnlyStaleByOverlap == ResponseCacheSpec => []StaleOnlyByOverlap
<1>1. CacheInv => StaleOnlyByOverlap
  BY DEF CacheInv, ListKept, StaleOnlyByOverlap
<1> QED
  BY <1>1, CacheStart, CacheKept, PTL DEF ResponseCacheSpec

--------------------------------------------------------------------------------
(* Working memory *)

AddStates == { "new", "added", "copied", "done", "unsaved", "stored", "lost" }

\* What was saved survives: it is in Redis, in memory, and in every copy of the
\* messages that has yet to be written.
Safe(m) ==
    /\ Contains(saved, m) /\ Contains(working, m)
    /\ \A x \in Memories : adding[x] = "copied" => Contains(snapshot[x], m)

MemoryInv ==
    /\ working \in Seq(Memories) /\ saved \in Seq(Memories)
    /\ adding \in [Memories -> AddStates]
    /\ snapshot \in [Memories -> Seq(Memories)]
    /\ episodes \subseteq Memories /\ IsFiniteSet(episodes)
    /\ \A m \in InProgress : Contains(working, m)
    /\ \A m \in Memories : adding[m] = "copied" => Contains(snapshot[m], m)
    /\ \A m, x \in InProgress : m # x => { m, x } \in overlapped
    /\ \A m \in Memories : adding[m] = "done" =>
          Safe(m) \/ \E x \in Memories \ { m } : { m, x } \in overlapped
    /\ misshown = FALSE

LEMMA Appended ==
    ASSUME NEW s \in Seq(Memories), NEW m \in Memories
    PROVE  /\ Append(s, m) \in Seq(Memories) /\ Contains(Append(s, m), m)
           /\ \A x : Contains(s, x) => Contains(Append(s, m), x)
<1>1. /\ Append(s, m) \in Seq(Memories) /\ Len(Append(s, m)) = Len(s) + 1 /\ Len(s) \in Nat
      /\ Append(s, m)[Len(s) + 1] = m /\ \A i \in 1 .. Len(s) : Append(s, m)[i] = s[i]
  BY AppendProperties, LenProperties
<1> QED
  BY <1>1 DEF Contains

\* The loop stops at the limit: the position of the last hit it takes bounds them all.
LEMMA ScanBounded ==
    ASSUME MemoryInv, NEW u, NEW found
    PROVE  /\ IsFiniteSet(SearchWorking(u, found))
           /\ Cardinality(SearchWorking(u, found)) \in 0 .. RecallLimit
<1> DEFINE H == Hits(u, found)
           T == { i \in H : Cardinality(H \cap 1 .. i) <= RecallLimit }
<1>1. /\ H \subseteq 1 .. Len(working) /\ Len(working) \in Nat /\ RecallLimit \in Nat
      /\ SearchWorking(u, found) = { working[i] : i \in T }
  BY LenProperties, WorkingMemoryAssumption DEF MemoryInv, Hits, SearchWorking
<1> HIDE DEF H
<1>2. IsFiniteSet(H) /\ IsFiniteSet(T) /\ T \subseteq H
  <2>1. IsFiniteSet(1 .. Len(working))
    BY <1>1, FS_Interval
  <2>2. IsFiniteSet(H)
    BY <1>1, <2>1, FS_Subset
  <2> QED
    BY <2>2, FS_Subset
<1>3. Cardinality(T) \in 0 .. RecallLimit
  <2>1. CASE T = {}
    <3>1. Cardinality(T) = 0
      BY <2>1, FS_EmptySet
    <3> QED
      BY <1>1, <3>1
  <2>2. CASE T # {}
    <3> DEFINE U == { n \in Nat : \A i \in T : i <= n }
               n == Min(U)
    <3>t. \A i \in T : i \in Nat /\ i >= 1 /\ i <= Len(working)
      BY <1>1, <1>2
    <3>1. Len(working) \in U
      BY <1>1, <3>t
    <3>2. n \in U /\ \A m \in U : n <= m
      BY <3>1, LeastNatural
    <3>b. n \in Nat /\ \A i \in T : i <= n
      BY <3>2
    <3> HIDE DEF n
    <3>3. n \in T
      <4> SUFFICES ASSUME n \notin T PROVE FALSE
        OBVIOUS
      <4>1. \A i \in T : i \in Nat /\ i <= n - 1
        <5> SUFFICES ASSUME NEW i \in T PROVE i \in Nat /\ i <= n - 1
          OBVIOUS
        <5>1. i # n
          OBVIOUS
        <5>2. i \in Nat /\ i <= n /\ n \in Nat
          BY <3>t, <3>b
        <5> QED
          BY <5>1, <5>2
      <4>2. n >= 1
        <5>1. PICK i \in T : TRUE
          BY <2>2
        <5>2. i \in Nat /\ i >= 1 /\ i <= n /\ n \in Nat
          BY <3>t, <3>b
        <5> QED
          BY <5>2
      <4>3. n - 1 \in U
        BY <4>1, <4>2, <3>b
      <4>4. n <= n - 1
        BY <3>2, <4>3
      <4> QED
        BY <3>b, <4>4
    <3>4. T \subseteq H \cap 1 .. n
      <4> SUFFICES ASSUME NEW i \in T PROVE i \in H /\ i \in 1 .. n
        OBVIOUS
      <4>1. i \in Nat /\ i >= 1 /\ i <= n /\ n \in Nat
        BY <3>t, <3>b
      <4> QED
        BY <1>2, <4>1
    <3>5. IsFiniteSet(H \cap 1 .. n)
      BY <1>2, FS_Subset
    <3>6. Cardinality(T) <= Cardinality(H \cap 1 .. n)
      BY <3>4, <3>5, FS_Subset
    <3>7. Cardinality(T) \in Nat /\ Cardinality(H \cap 1 .. n) \in Nat
      BY <1>2, <3>5, FS_CardinalityType
    <3>8. Cardinality(H \cap 1 .. n) <= RecallLimit
      BY <3>3
    <3> QED
      BY <1>1, <3>6, <3>7, <3>8
  <2> QED
    BY <2>1, <2>2
<1> HIDE DEF T
<1> DEFINE S == { working[i] : i \in T }
           f == [i \in T |-> working[i]]
<1>4. f \in Surjection(T, S)
  BY DEF Surjection
<1>5. IsFiniteSet(S) /\ Cardinality(S) <= Cardinality(T)
  BY <1>2, <1>4, FS_Surjection
<1>6. Cardinality(S) \in Nat
  BY <1>5, FS_CardinalityType
<1>7. SearchWorking(u, found) = S
  BY <1>1
<1> HIDE DEF S
<1>8. RecallLimit \in Nat
  BY <1>1
<1>9. Cardinality(S) \in 0 .. RecallLimit
  BY <1>3, <1>5, <1>6, <1>8
<1> QED
  BY <1>5, <1>7, <1>9

LEMMA RecallKeeps ==
    ASSUME MemoryInv, NEW u \in Rememberers, Recall(u) PROVE misshown' = FALSE
<1> USE DEF MemoryInv
<1>1. PICK found \in SUBSET ToSet(working) :
          LET first == SearchWorking(u, found)
              left == RecallLimit - Cardinality(first)
          IN  \/ Shows(u, first)
              \/ /\ left > 0
                 /\ \E E \in SearchEpisodes(u, left) :
                    \E P \in SearchPatterns(u, left - Cardinality(E)) :
                       Shows(u, first \cup E \cup P)
  BY DEF Recall
<1> DEFINE first == SearchWorking(u, found)
           left == RecallLimit - Cardinality(first)
<1>2. IsFiniteSet(first) /\ Cardinality(first) \in 0 .. RecallLimit
      /\ u # SystemUser /\ RecallLimit \in Nat
  BY ScanBounded, WorkingMemoryAssumption
<1>3. \A m \in first : Owner[m] \in { u, SystemUser }
  BY <1>2 DEF SearchWorking, Hits, Visible
<1> HIDE DEF first
<1>4. CASE Shows(u, first)
  <2>1. ~(Cardinality(first) > RecallLimit)
    BY <1>2
  <2> QED
    BY <1>3, <1>4, <2>1 DEF Shows
<1>5. ASSUME left > 0, NEW E \in SearchEpisodes(u, left), NEW P \in SearchPatterns(u, left - Cardinality(E)),
             Shows(u, first \cup E \cup P)
      PROVE  misshown' = FALSE
  <2>1. /\ E \subseteq episodes /\ \A m \in E : Owner[m] = u
        /\ Cardinality(E) <= left /\ P = {}
    BY <1>2, <1>5 DEF SearchEpisodes, SearchPatterns
  <2>2. IsFiniteSet(E) /\ Cardinality(E) \in Nat
    BY <2>1, FS_Subset, FS_CardinalityType
  <2>3. Cardinality(first \cup E) <= Cardinality(first) + Cardinality(E)
        /\ IsFiniteSet(first \cup E)
    <3>1. IsFiniteSet(first \cup E) /\ IsFiniteSet(first \cap E)
          /\ Cardinality(first \cup E) = Cardinality(first) + Cardinality(E) - Cardinality(first \cap E)
      BY <1>2, <2>2, FS_Union, FS_Intersection
    <3>2. Cardinality(first \cap E) \in Nat
      BY <3>1, FS_CardinalityType
    <3> QED
      BY <1>2, <2>2, <3>1, <3>2
  <2>4. Cardinality(first \cup E) \in Nat
    BY <2>3, FS_CardinalityType
  <2>5. ~(Cardinality(first \cup E) > RecallLimit)
    BY <1>2, <2>1, <2>2, <2>3, <2>4
  <2>6. first \cup E \cup P = first \cup E
    BY <2>1
  <2> QED
    BY <1>3, <1>5, <2>1, <2>5, <2>6 DEF Shows
<1> QED
  BY <1>1, <1>4, <1>5 DEF first

LEMMA MemoryStart == WorkingMemoryInit => MemoryInv
<1> SUFFICES ASSUME WorkingMemoryInit PROVE MemoryInv
  OBVIOUS
<1>1. <<>> \in Seq(Memories) /\ IsFiniteSet({})
  BY EmptySeq, FS_EmptySet
<1> QED
  BY <1>1 DEF WorkingMemoryInit, MemoryInv, InProgress, AddStates

LEMMA MemoryKept ==
    ASSUME MemoryInv, [WorkingMemoryNext]_memoryVars PROVE MemoryInv'
<1> USE DEF MemoryInv, InProgress, AddStates
<1>1. ASSUME NEW m \in Memories, Add(m) PROVE MemoryInv'
  <2>1. /\ working' \in Seq(Memories) /\ Contains(working', m)
        /\ \A x \in Memories : Contains(working, x) => Contains(working', x)
    BY <1>1, Appended DEF Add
  <2>2. adding' \in [Memories -> AddStates] /\ adding'[m] = "added"
        /\ \A x \in Memories : x # m => adding'[x] = adding[x]
    BY <1>1 DEF Add
  <2>3. overlapped \subseteq overlapped' /\ \A x \in InProgress : { m, x } \in overlapped' /\ { x, m } \in overlapped'
    BY <1>1 DEF Add
  <2>4. UNCHANGED <<saved, snapshot, episodes, patterns, misshown>> /\ adding[m] = "new"
    BY <1>1 DEF Add
  <2>5. \A x, y \in InProgress' : x # y => { x, y } \in overlapped'
    BY <2>2, <2>3
  <2>6. ASSUME NEW x \in Memories, adding'[x] = "done"
        PROVE  Safe(x)' \/ \E y \in Memories \ { x } : { x, y } \in overlapped'
    BY <2>1, <2>2, <2>3, <2>4, <2>6 DEF Safe
  <2>7. \A x \in InProgress' : Contains(working', x)
    BY <2>1, <2>2
  <2>8. \A x \in Memories : adding'[x] = "copied" => Contains(snapshot'[x], x)
    BY <2>2, <2>4
  <2> QED
    BY <2>1, <2>2, <2>4, <2>5, <2>6, <2>7, <2>8
<1>2. ASSUME NEW m \in Memories, CopyMessages(m) PROVE MemoryInv'
  <2>1. adding' \in [Memories -> AddStates] /\ adding'[m] = "copied"
        /\ \A x \in Memories : x # m => adding'[x] = adding[x]
    BY <1>2 DEF CopyMessages
  <2>2. snapshot' \in [Memories -> Seq(Memories)] /\ snapshot'[m] = working
        /\ \A x \in Memories : x # m => snapshot'[x] = snapshot[x]
    BY <1>2 DEF CopyMessages
  <2>3. adding[m] = "added" /\ UNCHANGED <<working, saved, episodes, patterns, misshown, overlapped>>
    BY <1>2 DEF CopyMessages
  <2>4. ASSUME NEW x \in Memories, adding'[x] = "done"
        PROVE  Safe(x)' \/ \E y \in Memories \ { x } : { x, y } \in overlapped'
    BY <2>1, <2>2, <2>3, <2>4 DEF Safe
  <2>5. InProgress' = InProgress
    BY <2>1, <2>3
  <2> QED
    BY <2>1, <2>2, <2>3, <2>4, <2>5
<1>3. ASSUME NEW m \in Memories, PersistToRedis(m) PROVE MemoryInv'
  <2>1. snapshot' \in [Memories -> Seq(Memories)] /\ \A x \in Memories : x # m => snapshot'[x] = snapshot[x]
    <3>1. <<>> \in Seq(Memories)
      BY EmptySeq
    <3>2. snapshot' = [snapshot EXCEPT ![m] = <<>>]
      BY <1>3 DEF PersistToRedis
    <3> QED
      BY <3>1, <3>2
  <2>2. adding[m] = "copied" /\ UNCHANGED <<working, episodes, patterns, misshown, overlapped>>
    BY <1>3 DEF PersistToRedis
  <2>3. /\ adding' \in [Memories -> AddStates] /\ adding'[m] \in { "done", "unsaved" }
        /\ \A x \in Memories : x # m => adding'[x] = adding[x]
    <3>1. PICK a \in { "done", "unsaved" } : adding' = [adding EXCEPT ![m] = a]
      BY <1>3 DEF PersistToRedis
    <3> QED
      BY <3>1
  <2>4. \/ saved' = snapshot[m]
        \/ saved' = saved /\ adding'[m] = "unsaved"
    <3>1. CASE saved' = snapshot[m]
      BY <3>1
    <3>2. CASE saved' # snapshot[m]
      <4>1. adding' = [adding EXCEPT ![m] = "unsaved"] /\ saved' = saved
        BY <1>3, <3>2 DEF PersistToRedis
      <4> QED
        BY <4>1
    <3> QED
      BY <3>1, <3>2
  <2>5. InProgress' = InProgress \ { m }
    BY <2>2, <2>3
  <2>6. ASSUME NEW x \in Memories, adding'[x] = "done"
        PROVE  Safe(x)' \/ \E y \in Memories \ { x } : { x, y } \in overlapped'
    <3>1. CASE x = m
      <4>1. saved' = snapshot[m] /\ Contains(saved', m) /\ Contains(working', m)
        BY <2>2, <2>4, <2>6, <3>1
      <4>2. CASE \E y \in Memories \ { m } : adding[y] = "copied"
        BY <2>2, <3>1, <4>2
      <4>3. CASE \A y \in Memories \ { m } : adding[y] # "copied"
        BY <2>3, <3>1, <4>1, <4>3 DEF Safe
      <4> QED
        BY <4>2, <4>3
    <3>2. CASE x # m
      <4>1. adding[x] = "done"
        BY <2>3, <2>6, <3>2
      <4>2. CASE Safe(x)
        <5>1. Contains(saved', x) /\ Contains(working', x)
          BY <2>2, <2>4, <4>2 DEF Safe
        <5>2. \A y \in Memories : adding'[y] = "copied" => Contains(snapshot'[y], x)
          BY <2>1, <2>3, <4>2 DEF Safe
        <5> QED
          BY <5>1, <5>2 DEF Safe
      <4>3. CASE \E y \in Memories \ { x } : { x, y } \in overlapped
        BY <2>2, <4>3
      <4> QED
        BY <4>1, <4>2, <4>3
    <3> QED
      BY <3>1, <3>2
  <2>7. \A x \in Memories : adding'[x] = "copied" => Contains(snapshot'[x], x)
    BY <2>1, <2>3
  <2>8. saved' \in Seq(Memories)
    BY <2>2, <2>4
  <2>9. \A x \in InProgress' : Contains(working', x)
    BY <2>2, <2>5
  <2>10. \A x, y \in InProgress' : x # y => { x, y } \in overlapped'
    BY <2>2, <2>5
  <2> QED
    BY <2>1, <2>2, <2>3, <2>6, <2>7, <2>8, <2>9, <2>10
<1>4. ASSUME NEW m \in Memories, StoreEpisode(m) \/ StorePattern(m) PROVE MemoryInv'
  <2>1. adding' \in [Memories -> AddStates] /\ adding'[m] = "stored" /\ adding[m] = "new"
        /\ \A x \in Memories : x # m => adding'[x] = adding[x]
    BY <1>4 DEF StoreEpisode, StorePattern
  <2>2. UNCHANGED <<working, saved, snapshot, misshown, overlapped>>
        /\ (episodes' = episodes \/ episodes' = episodes \cup { m })
    BY <1>4 DEF StoreEpisode, StorePattern
  <2>3. episodes' \subseteq Memories /\ IsFiniteSet(episodes')
    <3>1. IsFiniteSet(episodes \cup { m })
      BY FS_AddElement
    <3> QED
      BY <2>2, <3>1
  <2>4. InProgress' = InProgress
    BY <2>1
  <2>5. ASSUME NEW x \in Memories, adding'[x] = "done"
        PROVE  Safe(x)' \/ \E y \in Memories \ { x } : { x, y } \in overlapped'
    BY <2>1, <2>2, <2>5 DEF Safe
  <2> QED
    BY <2>1, <2>2, <2>3, <2>4, <2>5
<1>5. ASSUME NEW u \in Rememberers, Recall(u) PROVE MemoryInv'
  <2>1. misshown' = FALSE
    BY <1>5, RecallKeeps
  <2>2. UNCHANGED <<working, saved, adding, snapshot, episodes, patterns, overlapped>>
    BY <1>5 DEF Recall
  <2> QED
    BY <2>1, <2>2 DEF Safe
<1>6. CASE Restart
  <2>1. working' = saved /\ UNCHANGED <<saved, episodes, patterns, misshown, overlapped>>
    BY <1>6 DEF Restart
  <2>2. snapshot' \in [Memories -> Seq(Memories)]
    <3>1. <<>> \in Seq(Memories)
      BY EmptySeq
    <3> QED
      BY <1>6, <3>1 DEF Restart
  <2>3. adding' \in [Memories -> AddStates] /\ InProgress' = {}
        /\ \A x \in Memories : adding'[x] # "copied" /\ (adding'[x] = "done" => adding[x] = "done")
    BY <1>6 DEF Restart
  <2> QED
    BY <2>1, <2>2, <2>3 DEF Safe
<1>7. CASE UNCHANGED memoryVars
  BY <1>7 DEF memoryVars, Safe
<1> QED
  BY <1>1, <1>2, <1>3, <1>4, <1>5, <1>6, <1>7 DEF WorkingMemoryNext

(***************************************************************************)
(* manager.go.  For any number of users and messages, any limit and        *)
(* whatever restarts: only an Add in progress at the same time loses what  *)
(* was saved, and a recall shows a user nobody else's memory.              *)
(***************************************************************************)
THEOREM SavedUnlessOverlapped == WorkingMemorySpec => []LostOnlyByOverlap
<1>1. MemoryInv => LostOnlyByOverlap
  BY DEF MemoryInv, Safe, LostOnlyByOverlap
<1> QED
  BY <1>1, MemoryStart, MemoryKept, PTL DEF WorkingMemorySpec

--------------------------------------------------------------------------------
(* The gateway *)

Gated == { "json", "chat", "responses" }
ProxyStages ==
    { "new", "refused", "open", "streaming", "received", "decided", "done", "failed" }

ProxiedFields ==
    { "at", "path", "mode", "text", "told", "pos", "gate", "policy", "recorded" }

Gates == [out : SUBSET Nat, inCode : BOOLEAN, buf : SUBSET Nat, held : SUBSET Nat]

NoCode(p) == \A i \in p.gate.out : p.text[i] # "code"

\* What the gate keeps back until the answer.  In balanced mode it knows whether it is in
\* a code block as long as no fence came in two parts.
HoldsBack(p) ==
    /\ p.path = "json" \/ (p.mode = "strict" /\ p.path \in Gated) => p.gate.out = {}
    /\ p.path = "responses" /\ p.mode = "balanced" /\ Uncut(p) =>
          /\ NoCode(p)
          /\ p.at = "streaming" => (p.gate.inCode <=> Fences(p.text, p.pos) % 2 = 1)

GateOK(p) ==
    /\ p.text \in Texts \cup { <<>> } /\ p.pos \in 0 .. Len(p.text) /\ p.gate \in Gates
    /\ p.at \in { "new", "open" } => p.gate = OpenGate /\ p.pos = 0
    /\ IF p.at = "done" THEN StrictWithholds(p) /\ CodeHeld(p) ELSE HoldsBack(p)

RequestOK(p) ==
    /\ p = [f \in ProxiedFields |-> p[f]]
    /\ p.at \in ProxyStages /\ p.mode \in Modes /\ p.told \in BOOLEAN /\ p.recorded \in BOOLEAN
    /\ ConstraintsReach(p)
    /\ p.recorded => p.at \in { "decided", "done" }
    /\ GateOK(p)

Recorded == { x \in ProxyRequests : proxied[x].recorded }

\* The ring has every record, or is full of them.
RingInv ==
    /\ ring \in Seq(ProxyRequests) /\ IsInjective(ring) /\ ToSet(ring) \subseteq Recorded
    /\ IsFiniteSet(Recorded) /\ Len(ring) <= RingSize
    /\ Len(ring) = RingSize \/ ToSet(ring) = Recorded

GatewayInv ==
    /\ proxied = [q \in ProxyRequests |-> proxied[q]]
    /\ \A q \in ProxyRequests : RequestOK(proxied[q])
    /\ RingInv

\* One chunk more is one fence more, or none.
LEMMA FencesCount ==
    ASSUME NEW text, NEW n \in Nat
    PROVE  /\ Fences(text, 0) = 0 /\ Fences(text, n) \in Nat
           /\ Fences(text, n + 1) =
                 Fences(text, n) + (IF text[n + 1] \in { "fence", "half2" } THEN 1 ELSE 0)
<1> DEFINE F(k) == { i \in 1 .. k : text[i] \in { "fence", "half2" } }
<1>1. F(0) = {} /\ IsFiniteSet(F(n)) /\ n + 1 \notin F(n)
  <2>1. 1 \in Int /\ n \in Int /\ F(n) \subseteq 1 .. n
    OBVIOUS
  <2>2. IsFiniteSet(1 .. n)
    BY <2>1, FS_Interval
  <2>3. IsFiniteSet(F(n))
    BY <2>1, <2>2, FS_Subset
  <2> QED
    BY <2>3
<1>2. F(n + 1) = IF text[n + 1] \in { "fence", "half2" } THEN F(n) \cup { n + 1 } ELSE F(n)
  OBVIOUS
<1>3. \A k : Fences(text, k) = Cardinality(F(k))
  BY DEF Fences
<1> HIDE DEF F
<1>4. Cardinality(F(n)) \in Nat /\ Cardinality(F(n) \cup { n + 1 }) = Cardinality(F(n)) + 1
  BY <1>1, FS_CardinalityType, FS_AddElement
<1> QED
  BY <1>1, <1>2, <1>3, <1>4, FS_EmptySet

\* Nothing has passed a gate that is as it was opened.
LEMMA Unopened ==
    ASSUME NEW p, p.gate = OpenGate, p.text \in Texts \cup { <<>> }, p.pos \in 0 .. Len(p.text),
           p.at \in { "new", "open", "streaming" } => p.pos = 0, p.at # "done"
    PROVE  GateOK(p)
<1>1. OpenGate \in Gates /\ OpenGate.out = {} /\ OpenGate.inCode = FALSE
  BY DEF OpenGate, Gates
<1>2. Fences(p.text, 0) % 2 = 0
  BY FencesCount
<1>3. p.gate \in Gates /\ p.gate.out = {} /\ p.gate.inCode = FALSE
  BY <1>1
<1>4. HoldsBack(p)
  BY <1>2, <1>3 DEF HoldsBack, NoCode
<1> QED
  BY <1>3, <1>4 DEF GateOK

\* After the chunks nothing passes the gate before the answer.
LEMMA GateStands ==
    ASSUME NEW p, NEW n, GateOK(p), p.at # "done", n.at \in { "received", "decided", "failed" },
           n.path = p.path, n.mode = p.mode, n.text = p.text, n.pos = p.pos, n.gate = p.gate
    PROVE  GateOK(n)
<1>1. Uncut(n) <=> Uncut(p)
  BY DEF Uncut, Received
<1>2. HoldsBack(p) /\ p.gate \in Gates
  BY DEF GateOK
<1>3. HoldsBack(n)
  BY <1>1, <1>2 DEF HoldsBack, NoCode
<1> QED
  BY <1>2, <1>3 DEF GateOK

\* The oldest record makes room for a new one.
LEMMA RecordPut ==
    ASSUME RingInv, NEW q \in ProxyRequests \ Recorded, PutRecord(q), Recorded' = Recorded \cup { q }
    PROVE  RingInv'
<1> DEFINE r == Append(ring, q)
<1>1. Len(ring) \in Nat /\ RingSize \in Nat /\ RingSize >= 1
  BY LenProperties, ProxyGateAssumption DEF RingInv
<1>2. r \in Seq(ProxyRequests) /\ Len(r) = Len(ring) + 1 /\ IsInjective(r) /\ ToSet(r) = ToSet(ring) \cup { q }
  BY PutLast DEF RingInv
<1>3. IsFiniteSet(Recorded')
  BY FS_AddElement DEF RingInv
<1>4. CASE Len(ring) < RingSize
  <2>1. ring' = r
    BY <1>1, <1>2, <1>4 DEF PutRecord
  <2>2. ToSet(ring) = Recorded
    BY <1>4, <1>1 DEF RingInv
  <2> QED
    BY <1>1, <1>2, <1>3, <1>4, <2>1, <2>2 DEF RingInv
<1>5. CASE Len(ring) = RingSize
  <2>1. ring' = Tail(r)
    BY <1>1, <1>2, <1>5 DEF PutRecord
  <2>2. Tail(r) = SubSeq(r, 1 + 1, Len(r)) /\ 1 \in 0 .. Len(r)
    BY <1>1, <1>2
  <2> HIDE DEF r
  <2>3. /\ ring' \in Seq(ProxyRequests) /\ Len(ring') = Len(r) - 1 /\ IsInjective(ring')
        /\ ToSet(ring') \subseteq ToSet(r)
    <3> DEFINE t == SubSeq(r, 1 + 1, Len(r))
    <3>1. t \in Seq(ProxyRequests) /\ Len(t) = Len(r) - 1 /\ IsInjective(t)
          /\ ToSet(t) = ToSet(r) \ { r[i] : i \in 1 .. 1 }
      BY <1>2, <2>2, CutOff
    <3> HIDE DEF t
    <3>2. ring' = t
      BY <2>1, <2>2 DEF t
    <3> QED
      BY <3>1, <3>2
  <2>4. Len(ring') = RingSize
    BY <1>1, <1>2, <1>5, <2>3
  <2>5. ToSet(ring') \subseteq Recorded'
    BY <1>2, <2>3 DEF RingInv
  <2> QED
    BY <1>1, <1>3, <2>3, <2>4, <2>5 DEF RingInv
<1> QED
  BY <1>1, <1>4, <1>5 DEF RingInv

\* One request moves on, and leaves the records alone or adds its own.
LEMMA RequestMoves ==
    ASSUME GatewayInv, NEW q \in ProxyRequests, NEW p, RequestOK(p),
           proxied' = [proxied EXCEPT ![q] = p],
           \/ p.recorded = proxied[q].recorded /\ UNCHANGED ring
           \/ p.recorded /\ ~proxied[q].recorded /\ PutRecord(q)
    PROVE  GatewayInv'
<1>1. /\ proxied' = [x \in ProxyRequests |-> proxied'[x]]
      /\ proxied'[q] = p /\ \A x \in ProxyRequests : x # q => proxied'[x] = proxied[x]
  BY DEF GatewayInv
<1>2. \A x \in ProxyRequests : RequestOK(proxied'[x])
  BY <1>1 DEF GatewayInv
<1>t. Recorded' = { x \in ProxyRequests : proxied'[x].recorded }
  BY DEF Recorded
<1>3. CASE p.recorded = proxied[q].recorded /\ UNCHANGED ring
  <2>1. Recorded' = Recorded
    BY <1>1, <1>3, <1>t DEF Recorded
  <2> QED
    BY <1>1, <1>2, <1>3, <2>1 DEF GatewayInv, RingInv, RequestOK
<1>4. CASE p.recorded /\ ~proxied[q].recorded /\ PutRecord(q)
  <2>1. Recorded' = Recorded \cup { q } /\ q \notin Recorded
    BY <1>1, <1>4, <1>t DEF Recorded
  <2>2. RingInv'
    BY <1>4, <2>1, RecordPut DEF GatewayInv
  <2> QED
    BY <1>1, <1>2, <2>2 DEF GatewayInv, RequestOK
<1> QED
  BY <1>3, <1>4

LEMMA GatewayStart == ProxyGateInit => GatewayInv
<1> SUFFICES ASSUME ProxyGateInit PROVE GatewayInv
  OBVIOUS
<1>1. \A q \in ProxyRequests : proxied[q] = NewProxied
  BY DEF ProxyGateInit
<1>2. RequestOK(NewProxied)
  <2>1. /\ NewProxied.gate = OpenGate /\ NewProxied.text = <<>> /\ NewProxied.pos = 0
        /\ NewProxied.at = "new" /\ Len(<<>>) = 0
    BY DEF NewProxied
  <2>2. GateOK(NewProxied)
    BY <2>1, Unopened
  <2> QED
    BY <2>2 DEF RequestOK, ProxiedFields, NewProxied, ProxyStages, ConstraintsReach, Modes
<1>3. Recorded = {}
  BY <1>1 DEF Recorded, NewProxied
<1>4. ring = <<>> /\ <<>> \in Seq(ProxyRequests) /\ Len(<<>>) = 0 /\ DOMAIN <<>> = {}
  BY EmptySeq DEF ProxyGateInit
<1>5. RingInv
  BY <1>3, <1>4, FS_EmptySet, ProxyGateAssumption DEF RingInv, IsInjective, ToSet
<1> QED
  BY <1>1, <1>2, <1>5 DEF GatewayInv, ProxyGateInit

\* What happens to one request before the verdict.
LEMMA RequestGoesOn ==
    ASSUME GatewayInv, NEW q \in ProxyRequests,
           \/ Admit(q) \/ Execute(q) \/ OpenChat(q) \/ OpenDirect(q) \/ OpenResponses(q)
           \/ StreamEnds(q) \/ ClientGone(q)
    PROVE  GatewayInv'
<1> DEFINE p == proxied[q]
<1>1. RequestOK(p) /\ proxied = [x \in ProxyRequests |-> proxied[x]]
  BY DEF GatewayInv
<1> SUFFICES \E n : /\ RequestOK(n) /\ proxied' = [proxied EXCEPT ![q] = n]
                    /\ n.recorded = p.recorded /\ UNCHANGED ring
  BY RequestMoves
<1> USE DEF RequestOK, ProxiedFields, ProxyStages, ConstraintsReach
<1>g. ASSUME p.at = "open"
      PROVE  LET g == ApplyDesignGate(p) IN
             /\ g = [f \in ProxiedFields |-> g[f]] /\ g.at = "open"
             /\ g.told \in BOOLEAN /\ (g.told <=> g.text \in RiskyTexts) /\ g.recorded = FALSE /\ p.recorded = FALSE
             /\ g.gate = OpenGate /\ g.text \in Texts \cup { <<>> } /\ g.pos = 0 /\ g.mode \in Modes
  <2> DEFINE g == ApplyDesignGate(p)
  <2>d. "told" \in DOMAIN p /\ p = [f \in ProxiedFields |-> p[f]]
    BY <1>1
  <2>a. /\ g = [f \in ProxiedFields |-> g[f]] /\ g.at = p.at /\ g.text = p.text /\ g.recorded = p.recorded
        /\ g.pos = p.pos /\ g.gate = p.gate /\ g.mode = p.mode
    BY <2>d DEF ApplyDesignGate
  <2>b. g.told = (p.text \in RiskyTexts)
    BY <2>d, Zenon DEF ApplyDesignGate
  <2>1. g.told \in BOOLEAN /\ (g.told <=> g.text \in RiskyTexts)
    <3> HIDE DEF g
    <3>1. g.told \in BOOLEAN /\ (g.told <=> p.text \in RiskyTexts)
      <4> DEFINE b == p.text \in RiskyTexts
      <4>1. g.told = b
        BY <2>b
      <4>2. b \in BOOLEAN
        OBVIOUS
      <4> HIDE DEF b
      <4>3. g.told \in BOOLEAN /\ (g.told <=> b)
        BY <4>1, <4>2
      <4> QED
        BY <4>3 DEF b
    <3> QED
      BY <2>a, <3>1
  <2> HIDE DEF g
  <2>2. p.recorded = FALSE
    BY <1>1, <1>g
  <2>3. p.gate = OpenGate /\ p.text \in Texts \cup { <<>> } /\ p.pos = 0 /\ p.mode \in Modes
    BY <1>1, <1>g DEF GateOK
  <2> QED
    BY <1>g, <2>a, <2>1, <2>2, <2>3 DEF g
<1>h. ASSUME NEW g, g = [f \in ProxiedFields |-> g[f]],
             g.told \in BOOLEAN, g.told <=> g.text \in RiskyTexts, g.recorded = FALSE,
             g.gate = OpenGate, g.text \in Texts \cup { <<>> }, g.pos = 0, g.mode \in Modes,
             NEW a \in { "streaming", "failed", "received" }
      PROVE  /\ RequestOK([g EXCEPT !.at = a]) /\ [g EXCEPT !.at = a].recorded = FALSE
             /\ a = "received" =>
                   /\ RequestOK([g EXCEPT !.at = a, !.pos = Len(g.text)])
                   /\ [g EXCEPT !.at = a, !.pos = Len(g.text)].recorded = FALSE
  <2> DEFINE n == [g EXCEPT !.at = a]
             k == [g EXCEPT !.at = a, !.pos = Len(g.text)]
  <2>0. Len(g.text) \in Nat
    BY <1>h, LenProperties, EmptySeq, ProxyGateAssumption
  <2>1. /\ n = [f \in ProxiedFields |-> n[f]] /\ n.at = a /\ n.told = g.told /\ n.text = g.text
        /\ n.recorded = FALSE /\ n.gate = g.gate /\ n.pos = 0 /\ n.mode = g.mode
    BY <1>h
  <2>2. /\ k = [f \in ProxiedFields |-> k[f]] /\ k.at = a /\ k.told = g.told /\ k.text = g.text
        /\ k.recorded = FALSE /\ k.gate = g.gate /\ k.pos = Len(g.text) /\ k.mode = g.mode
    BY <1>h
  <2> HIDE DEF n, k
  <2>3. RequestOK(n)
    <3>1. GateOK(n)
      BY <1>h, <2>0, <2>1, Unopened
    <3> QED
      BY <1>h, <2>1, <3>1
  <2>4. a = "received" => RequestOK(k)
    <3>1. a = "received" => GateOK(k)
      BY <1>h, <2>0, <2>2, Unopened
    <3> QED
      BY <1>h, <2>2, <3>1
  <2> QED
    BY <2>1, <2>2, <2>3, <2>4 DEF n, k
<1>2. CASE Admit(q)
  <2>0. /\ p.at = "new" /\ UNCHANGED ring
        /\ p.gate = OpenGate /\ p.pos = 0 /\ p.text \in Texts \cup { <<>> }
    BY <1>1, <1>2 DEF Admit, GateOK
  <2>1. CASE proxied' = [proxied EXCEPT ![q].at = "refused"]
    <3> DEFINE n == [p EXCEPT !.at = "refused"]
    <3>1. /\ n = [f \in ProxiedFields |-> n[f]] /\ n.at = "refused" /\ n.gate = p.gate /\ n.pos = p.pos
          /\ n.text = p.text /\ n.told = p.told /\ n.recorded = p.recorded /\ n.mode = p.mode
      BY <1>1
    <3>2. proxied' = [proxied EXCEPT ![q] = n]
      BY <2>1
    <3> HIDE DEF n
    <3>3. GateOK(n)
      <4>1. n.pos \in 0 .. Len(n.text)
        BY <1>1, <3>1 DEF GateOK
      <4> QED
        BY <2>0, <3>1, <4>1, Unopened
    <3>4. RequestOK(n)
      BY <1>1, <2>0, <3>1, <3>3
    <3> QED
      BY <2>0, <3>1, <3>2, <3>4
  <2>2. CASE \E s \in { "chat", "responses" }, m \in Modes, t \in Texts : \E path \in Paths(s) :
                proxied' = [proxied EXCEPT ![q].at = "open", ![q].path = path, ![q].mode = m, ![q].text = t]
    <3>1. PICK s \in { "chat", "responses" }, m \in Modes, t \in Texts : \E path \in Paths(s) :
                proxied' = [proxied EXCEPT ![q].at = "open", ![q].path = path, ![q].mode = m, ![q].text = t]
      BY <2>2
    <3>2. PICK path \in Paths(s) :
                proxied' = [proxied EXCEPT ![q].at = "open", ![q].path = path, ![q].mode = m, ![q].text = t]
      BY <3>1
    <3> DEFINE n == [p EXCEPT !.at = "open", !.path = path, !.mode = m, !.text = t]
    <3>3. /\ n = [f \in ProxiedFields |-> n[f]] /\ n.at = "open" /\ n.gate = p.gate /\ n.text = t
          /\ n.pos = p.pos /\ n.told = p.told /\ n.recorded = p.recorded /\ n.mode = m
      BY <1>1
    <3>4. proxied' = [proxied EXCEPT ![q] = n]
      BY <3>2
    <3> HIDE DEF n
    <3>5. GateOK(n)
      <4>1. Len(t) \in Nat
        BY LenProperties, ProxyGateAssumption
      <4> QED
        BY <2>0, <3>3, <4>1, Unopened
    <3>6. RequestOK(n)
      BY <1>1, <2>0, <3>3, <3>5
    <3> QED
      BY <2>0, <3>3, <3>4, <3>6
  <2> QED
    BY <1>2, <2>1, <2>2 DEF Admit
<1>3. CASE Execute(q)
  <2> DEFINE g == ApplyDesignGate(p)
             n == [g EXCEPT !.at = "received", !.pos = Len(g.text)]
             e == [g EXCEPT !.at = "failed"]
  <2>1. p.at = "open" /\ UNCHANGED ring
    BY <1>1, <1>3 DEF Execute, ApplyDesignGate
  <2>2. proxied' = [proxied EXCEPT ![q] = n] \/ proxied' = [proxied EXCEPT ![q] = e]
    BY <1>3 DEF Execute
  <2>3. RequestOK(n) /\ n.recorded = p.recorded /\ RequestOK(e) /\ e.recorded = p.recorded
    <3>1. /\ g = [f \in ProxiedFields |-> g[f]]
          /\ g.told \in BOOLEAN /\ (g.told <=> g.text \in RiskyTexts) /\ g.recorded = FALSE /\ p.recorded = FALSE
          /\ g.gate = OpenGate /\ g.text \in Texts \cup { <<>> } /\ g.pos = 0 /\ g.mode \in Modes
      BY <1>g, <2>1
    <3> HIDE DEF g, RequestOK, ProxiedFields, ProxyStages, ConstraintsReach
    <3>2. RequestOK(n) /\ n.recorded = FALSE
      BY <1>h, <3>1
    <3>3. RequestOK(e) /\ e.recorded = FALSE
      BY <1>h, <3>1
    <3> QED
      BY <3>1, <3>2, <3>3
  <2> QED
    BY <2>1, <2>2, <2>3
<1>4. CASE OpenChat(q)
  <2> DEFINE g == ApplyDesignGate(p)
             n == [g EXCEPT !.at = "streaming"]
             e == [p EXCEPT !.path = "direct"]
  <2>1. p.at = "open" /\ UNCHANGED ring
    BY <1>1, <1>4 DEF OpenChat, ApplyDesignGate
  <2>2. proxied' = [proxied EXCEPT ![q] = n] \/ proxied' = [proxied EXCEPT ![q] = e]
    BY <1>1, <1>4 DEF OpenChat
  <2>3. RequestOK(n) /\ n.recorded = p.recorded
    <3>1. /\ g = [f \in ProxiedFields |-> g[f]]
          /\ g.told \in BOOLEAN /\ (g.told <=> g.text \in RiskyTexts) /\ g.recorded = FALSE /\ p.recorded = FALSE
          /\ g.gate = OpenGate /\ g.text \in Texts \cup { <<>> } /\ g.pos = 0 /\ g.mode \in Modes
      BY <1>g, <2>1
    <3> HIDE DEF g, RequestOK, ProxiedFields, ProxyStages, ConstraintsReach
    <3>2. RequestOK(n) /\ n.recorded = FALSE
      BY <1>h, <3>1
    <3> QED
      BY <3>1, <3>2
  <2>4. RequestOK(e) /\ e.recorded = p.recorded
    <3>1. /\ e = [f \in ProxiedFields |-> e[f]] /\ e.at = "open" /\ e.gate = p.gate /\ e.text = p.text
          /\ e.pos = p.pos /\ e.told = p.told /\ e.recorded = p.recorded /\ e.mode = p.mode
      BY <1>1, <2>1
    <3> HIDE DEF e
    <3>2. GateOK(e)
      <4>1. p.gate = OpenGate /\ p.pos = 0 /\ p.text \in Texts \cup { <<>> } /\ p.pos \in 0 .. Len(p.text)
        BY <1>1, <2>1 DEF GateOK
      <4> QED
        BY <3>1, <4>1, Unopened
    <3> QED
      BY <1>1, <2>1, <3>1, <3>2
  <2> QED
    BY <2>1, <2>2, <2>3, <2>4
<1>f. ASSUME p.at \in { "open", "streaming" }, NEW a \in { "received", "failed" },
             a = "received" => p.at = "streaming"
      PROVE  RequestOK([p EXCEPT !.at = a]) /\ [p EXCEPT !.at = a].recorded = p.recorded
  <2> DEFINE n == [p EXCEPT !.at = a]
  <2>1. /\ n = [f \in ProxiedFields |-> n[f]] /\ n.at = a /\ n.gate = p.gate /\ n.text = p.text
        /\ n.pos = p.pos /\ n.told = p.told /\ n.recorded = p.recorded
        /\ n.path = p.path /\ n.mode = p.mode
    BY <1>1
  <2> HIDE DEF n
  <2>2. GateOK(n)
    BY <1>1, <1>f, <2>1, GateStands
  <2>3. RequestOK(n)
    BY <1>1, <1>f, <2>1, <2>2
  <2> QED
    BY <2>1, <2>3 DEF n
<1>5. CASE OpenDirect(q) \/ OpenResponses(q)
  <2> DEFINE g == ApplyDesignGate(p)
             n == [g EXCEPT !.at = "streaming"]
             e == [g EXCEPT !.at = "failed"]
             x == [p EXCEPT !.at = "failed"]
  <2>1. p.at = "open" /\ UNCHANGED ring
    BY <1>1, <1>5 DEF OpenDirect, OpenResponses, ApplyDesignGate
  <2>2. \/ proxied' = [proxied EXCEPT ![q] = n] \/ proxied' = [proxied EXCEPT ![q] = e]
        \/ proxied' = [proxied EXCEPT ![q] = x]
    BY <1>1, <1>5 DEF OpenDirect, OpenResponses
  <2>3. RequestOK(n) /\ n.recorded = p.recorded /\ RequestOK(e) /\ e.recorded = p.recorded
    <3>1. /\ g = [f \in ProxiedFields |-> g[f]]
          /\ g.told \in BOOLEAN /\ (g.told <=> g.text \in RiskyTexts) /\ g.recorded = FALSE /\ p.recorded = FALSE
          /\ g.gate = OpenGate /\ g.text \in Texts \cup { <<>> } /\ g.pos = 0 /\ g.mode \in Modes
      BY <1>g, <2>1
    <3> HIDE DEF g, RequestOK, ProxiedFields, ProxyStages, ConstraintsReach
    <3>2. RequestOK(n) /\ n.recorded = FALSE
      BY <1>h, <3>1
    <3>3. RequestOK(e) /\ e.recorded = FALSE
      BY <1>h, <3>1
    <3> QED
      BY <3>1, <3>2, <3>3
  <2>4. RequestOK(x) /\ x.recorded = p.recorded
    BY <1>f, <2>1
  <2> QED
    BY <2>1, <2>2, <2>3, <2>4
<1>6. CASE StreamEnds(q) \/ ClientGone(q)
  <2> DEFINE n == [p EXCEPT !.at = "received"]
             x == [p EXCEPT !.at = "failed"]
  <2>1. /\ p.at = "streaming" /\ UNCHANGED ring
        /\ proxied' = [proxied EXCEPT ![q] = n] \/ proxied' = [proxied EXCEPT ![q] = x]
    BY <1>6 DEF StreamEnds, ClientGone
  <2>2. RequestOK(n) /\ n.recorded = p.recorded /\ RequestOK(x) /\ x.recorded = p.recorded
    BY <1>f, <2>1
  <2> QED
    BY <2>1, <2>2
<1> QED
  BY <1>2, <1>3, <1>4, <1>5, <1>6

\* The chunks: in strict mode they are buffered, in balanced mode the code is.
LEMMA ChunkGoesOn ==
    ASSUME GatewayInv, NEW q \in ProxyRequests, ChatChunk(q) \/ DirectChunk(q) \/ ResponsesChunk(q)
    PROVE  GatewayInv'
<1> DEFINE p == proxied[q]
           i == p.pos + 1
<1>1. RequestOK(p) /\ proxied = [x \in ProxyRequests |-> proxied[x]]
  BY DEF GatewayInv
<1>2. PICK g : /\ TakeChunk(q, g) /\ p.path # "json"
               /\ \/ g = Through(p) \/ g = Buffered(p) \/ g = Push(p.gate, i, p.text[i])
               /\ p.mode = "strict" /\ p.path \in Gated => g = Buffered(p)
               /\ p.mode = "balanced" /\ p.path = "responses" => g = Push(p.gate, i, p.text[i])
  <2>1. CASE ChatChunk(q)
    BY <2>1 DEF ChatChunk, Forwards
  <2>2. CASE DirectChunk(q)
    BY <2>2 DEF DirectChunk, Gated
  <2>3. CASE ResponsesChunk(q)
    <3> DEFINE g == CASE p.mode \in { "observe", "passthrough" } -> Through(p)
                      [] p.mode = "strict" -> Buffered(p)
                      [] p.mode = "balanced" -> Push(p.gate, i, p.text[i])
    <3>1. TakeChunk(q, g) /\ p.path = "responses"
      BY <2>3 DEF ResponsesChunk
    <3>2. CASE p.mode \in Modes
      BY <3>1, <3>2 DEF Modes
    <3> QED
      BY <1>1, <2>3, <3>2 DEF RequestOK
  <2> QED
    BY <2>1, <2>2, <2>3
<1>3. p.at = "streaming" /\ UNCHANGED ring /\ p.pos < Len(p.text)
  BY <1>2 DEF TakeChunk
<1> DEFINE n == [p EXCEPT !.pos = p.pos + 1, !.gate = g]
<1>4. proxied' = [proxied EXCEPT ![q] = n]
  BY <1>2 DEF TakeChunk
<1>5. /\ n = [f \in ProxiedFields |-> n[f]] /\ n.recorded = p.recorded /\ n.gate = g /\ n.at = p.at
      /\ n.path = p.path /\ n.mode = p.mode /\ n.text = p.text /\ n.told = p.told /\ n.pos = i
  BY <1>1 DEF RequestOK, ProxiedFields
<1> HIDE DEF n
<1>6. /\ p.text \in Texts /\ Len(p.text) \in Nat /\ p.pos \in Nat /\ i \in 1 .. Len(p.text)
      /\ p.gate \in Gates /\ HoldsBack(p) /\ i \in DOMAIN p.text
  <2>1. p.text \in Texts \cup { <<>> } /\ p.pos \in 0 .. Len(p.text) /\ p.gate \in Gates /\ HoldsBack(p)
    BY <1>1, <1>3 DEF RequestOK, GateOK
  <2>2. p.text # <<>>
    BY <1>3, <2>1
  <2>3. Len(p.text) \in Nat /\ DOMAIN p.text = 1 .. Len(p.text)
    BY <2>1, <2>2, LenProperties, ProxyGateAssumption
  <2> QED
    BY <1>3, <2>1, <2>2, <2>3
<1>7. /\ Through(p) \in Gates /\ Buffered(p) \in Gates /\ Buffered(p).out = p.gate.out
      /\ Push(p.gate, i, p.text[i]) \in Gates
  <2> DEFINE g0 == p.gate
  <2>1. g0 \in Gates /\ i \in Nat
    BY <1>6
  <2>2. /\ [g0 EXCEPT !.out = @ \cup { i }] \in Gates /\ [g0 EXCEPT !.buf = @ \cup { i }] \in Gates
        /\ [g0 EXCEPT !.buf = @ \cup { i }].out = g0.out
    BY <2>1 DEF Gates
  <2>3. /\ [g0 EXCEPT !.held = @ \cup g0.buf, !.buf = {}, !.inCode = FALSE] \in Gates
        /\ [g0 EXCEPT !.inCode = TRUE] \in Gates
    BY <2>1 DEF Gates
  <2>4. Through(p) \in Gates /\ Buffered(p) \in Gates /\ Buffered(p).out = p.gate.out
    BY <2>2 DEF Through, Buffered
  <2>5. Push(p.gate, i, p.text[i]) \in Gates
    BY <2>2, <2>3 DEF Push
  <2> QED
    BY <2>4, <2>5
<1>8. ASSUME p.mode = "balanced", p.path = "responses", Uncut(n)
      PROVE  NoCode(n) /\ (g.inCode <=> Fences(p.text, i) % 2 = 1)
  <2>1. Uncut(p) /\ p.text[i] # "half2"
    <3>1. Received(p) \subseteq Received(n) /\ i \in Received(n)
      BY <1>5, <1>6 DEF Received
    <3> QED
      BY <1>5, <1>8, <3>1 DEF Uncut
  <2>2. NoCode(p) /\ (p.gate.inCode <=> Fences(p.text, p.pos) % 2 = 1)
    BY <1>3, <1>6, <1>8, <2>1 DEF HoldsBack
  <2>3. /\ Fences(p.text, p.pos) \in Nat
        /\ Fences(p.text, i) = Fences(p.text, p.pos) + (IF p.text[i] = "fence" THEN 1 ELSE 0)
    BY <1>6, <2>1, FencesCount
  <2>4. p.text[i] = "code" => Fences(p.text, i) % 2 = 1
    BY <1>6, ProxyGateAssumption
  <2>5. g = Push(p.gate, i, p.text[i]) /\ p.gate.inCode \in BOOLEAN
    BY <1>2, <1>6, <1>8 DEF Gates
  <2>6. CASE p.text[i] = "fence"
    <3>1. g.out = p.gate.out /\ (g.inCode <=> ~p.gate.inCode)
      BY <1>6, <2>5, <2>6 DEF Push, Gates
    <3>2. Fences(p.text, i) % 2 = 1 <=> ~(Fences(p.text, p.pos) % 2 = 1)
      BY <2>3, <2>6
    <3> QED
      BY <1>5, <2>2, <3>1, <3>2 DEF NoCode
  <2>7. CASE p.text[i] # "fence"
    <3>1. /\ g.inCode = p.gate.inCode
          /\ g.out = IF p.gate.inCode THEN p.gate.out ELSE p.gate.out \cup { i }
      BY <1>6, <2>5, <2>7 DEF Push, Gates
    <3>2. Fences(p.text, i) = Fences(p.text, p.pos)
      BY <2>3, <2>7
    <3>3. p.text[i] = "code" => p.gate.inCode
      BY <2>2, <2>4, <3>2
    <3> QED
      BY <1>5, <2>2, <3>1, <3>2, <3>3 DEF NoCode
  <2> QED
    BY <2>6, <2>7
<1>9. GateOK(n)
  <2>1. g \in Gates
    BY <1>2, <1>7
  <2>2. p.mode = "strict" /\ p.path \in Gated => g.out = {}
    BY <1>2, <1>6, <1>7 DEF HoldsBack
  <2>3. HoldsBack(n)
    BY <1>2, <1>5, <1>8, <2>2 DEF HoldsBack
  <2> QED
    BY <1>3, <1>5, <1>6, <2>1, <2>3 DEF GateOK
<1>10. RequestOK(n)
  BY <1>1, <1>3, <1>5, <1>9 DEF RequestOK, ProxiedFields, ProxyStages, ConstraintsReach
<1> QED
  BY <1>3, <1>4, <1>5, <1>10, RequestMoves

\* The verdict, and what it lets through.
LEMMA VerdictGoesOn ==
    ASSUME GatewayInv, NEW q \in ProxyRequests,
           \/ Analyse(q) \/ Attest(q)
           \/ JSONAnswer(q) \/ ChatAnswer(q) \/ DirectAnswer(q) \/ ResponsesAnswer(q)
    PROVE  GatewayInv'
<1> DEFINE p == proxied[q]
<1>1. RequestOK(p) /\ proxied = [x \in ProxyRequests |-> proxied[x]]
  BY DEF GatewayInv
<1>2. CASE Analyse(q)
  <2>0. p.at = "received" /\ p.recorded = FALSE
    BY <1>1, <1>2 DEF Analyse, RequestOK
  <2>1. CASE proxied' = [proxied EXCEPT ![q].at = "decided"] /\ UNCHANGED ring
    <3> DEFINE n == [p EXCEPT !.at = "decided"]
    <3>1. /\ n = [f \in ProxiedFields |-> n[f]] /\ n.at = "decided" /\ n.gate = p.gate
          /\ n.text = p.text /\ n.pos = p.pos /\ n.told = p.told /\ n.recorded = p.recorded
          /\ n.path = p.path /\ n.mode = p.mode
      BY <1>1 DEF RequestOK, ProxiedFields
    <3>2. proxied' = [proxied EXCEPT ![q] = n]
      BY <2>1
    <3> HIDE DEF n
    <3>3. RequestOK(n)
      <4>1. GateOK(n)
        BY <1>1, <2>0, <3>1, GateStands DEF RequestOK
      <4> QED
        BY <1>1, <2>0, <3>1, <4>1 DEF RequestOK, ProxiedFields, ProxyStages, ConstraintsReach
    <3> QED
      BY <2>1, <3>1, <3>2, <3>3, RequestMoves
  <2>2. CASE \E policy : \E records \in BOOLEAN :
                /\ proxied' = [proxied EXCEPT ![q].at = "decided", ![q].policy = policy, ![q].recorded = records]
                /\ RecordProvenance(q, records)
    <3>0. PICK policy : \E records \in BOOLEAN :
                /\ proxied' = [proxied EXCEPT ![q].at = "decided", ![q].policy = policy, ![q].recorded = records]
                /\ RecordProvenance(q, records)
      BY <2>2
    <3>1. PICK records \in BOOLEAN :
                /\ proxied' = [proxied EXCEPT ![q].at = "decided", ![q].policy = policy, ![q].recorded = records]
                /\ RecordProvenance(q, records)
      BY <3>0
    <3> DEFINE n == [p EXCEPT !.at = "decided", !.policy = policy, !.recorded = records]
    <3>2. RequestOK(n) /\ n.recorded = records
      <4>1. /\ n = [f \in ProxiedFields |-> n[f]] /\ n.at = "decided" /\ n.gate = p.gate
            /\ n.text = p.text /\ n.pos = p.pos /\ n.told = p.told /\ n.recorded = records
            /\ n.path = p.path /\ n.mode = p.mode
        BY <1>1 DEF RequestOK, ProxiedFields
      <4> HIDE DEF n
      <4>2. GateOK(n)
        BY <1>1, <2>0, <4>1, GateStands DEF RequestOK
      <4> QED
        BY <1>1, <2>0, <4>1, <4>2 DEF RequestOK, ProxiedFields, ProxyStages, ConstraintsReach
    <3>3. proxied' = [proxied EXCEPT ![q] = n]
      BY <3>1
    <3>4. \/ records = FALSE /\ UNCHANGED ring
          \/ records = TRUE /\ PutRecord(q)
      BY <3>1 DEF RecordProvenance
    <3> HIDE DEF n
    <3> QED
      BY <2>0, <3>2, <3>3, <3>4, RequestMoves
  <2>3. CASE p.mode = "passthrough" \/ ~HasBlocks(p)
    BY <1>2, <2>1, <2>3 DEF Analyse
  <2>4. CASE ~(p.mode = "passthrough" \/ ~HasBlocks(p))
    <3>1. PICK found \in SUBSET { "low", "medium", "high" }, llmFailed \in BOOLEAN :
          \E v \in Verdicts(found) :
            LET records == p.path # "direct" \/ found # {} IN
            /\ proxied' = [proxied EXCEPT
                  ![q].at = "decided",
                  ![q].policy = IF records
                      THEN ComputePolicy(v, llmFailed /\ found = {}, p.mode) ELSE "none",
                  ![q].recorded = records]
            /\ RecordProvenance(q, records)
      BY <1>2, <2>4 DEF Analyse
    <3> DEFINE records == p.path # "direct" \/ found # {}
    <3>2. PICK v \in Verdicts(found) :
            /\ proxied' = [proxied EXCEPT
                  ![q].at = "decided",
                  ![q].policy = IF records
                      THEN ComputePolicy(v, llmFailed /\ found = {}, p.mode) ELSE "none",
                  ![q].recorded = records]
            /\ RecordProvenance(q, records)
      BY <3>1
    <3> DEFINE policy == IF records THEN ComputePolicy(v, llmFailed /\ found = {}, p.mode) ELSE "none"
    <3>3. records \in BOOLEAN
      OBVIOUS
    <3>4. /\ proxied' = [proxied EXCEPT ![q].at = "decided", ![q].policy = policy, ![q].recorded = records]
          /\ RecordProvenance(q, records)
      BY <3>2
    <3> HIDE DEF records, policy
    <3> QED
      BY <2>2, <3>3, <3>4
  <2> QED
    BY <2>3, <2>4
<1>3. CASE Attest(q)
  <2> DEFINE n == [p EXCEPT !.at = "done", !.path = "attest", !.recorded = TRUE]
  <2>1. p.at = "new" /\ PutRecord(q) /\ proxied' = [proxied EXCEPT ![q] = n]
    BY <1>3 DEF Attest
  <2>2. /\ n = [f \in ProxiedFields |-> n[f]] /\ n.at = "done" /\ n.path = "attest"
        /\ n.recorded = TRUE /\ n.gate = p.gate /\ n.text = p.text /\ n.pos = p.pos
        /\ n.told = p.told /\ n.mode = p.mode
    BY <1>1 DEF RequestOK, ProxiedFields
  <2> HIDE DEF n
  <2>3. GateOK(n)
    BY <1>1, <2>2 DEF RequestOK, GateOK, StrictWithholds, CodeHeld
  <2>4. RequestOK(n) /\ ~p.recorded
    BY <1>1, <2>1, <2>2, <2>3 DEF RequestOK, ProxiedFields, ProxyStages, ConstraintsReach
  <2> QED
    BY <2>1, <2>2, <2>4, RequestMoves
<1>4. ASSUME NEW rest \in SUBSET Nat, FinishAnswer(q, rest),
             /\ p.mode = "balanced" /\ p.policy = "hold_for_review" /\ Uncut(p)
             /\ p.path = "responses" \/ (p.path = "json" /\ AllClosed(p))
             => \A i \in rest : p.text[i] # "code"
      PROVE  GatewayInv'
  <2> DEFINE out == p.gate.out \cup (IF Enforced(p.policy, p.mode) THEN {} ELSE rest)
             g == [OpenGate EXCEPT !.out = out]
             n == [p EXCEPT !.at = "done", !.gate = g]
  <2>1. p.at = "decided" /\ UNCHANGED ring /\ proxied' = [proxied EXCEPT ![q] = n]
    BY <1>4 DEF FinishAnswer
  <2>2. p.gate \in Gates /\ HoldsBack(p)
    BY <1>1, <2>1 DEF RequestOK, GateOK
  <2>3. g.out = out /\ g \in Gates
    BY <1>4, <2>2 DEF OpenGate, Gates
  <2>4. p.mode = "strict" /\ p.path \in Gated /\ Enforced(p.policy, p.mode) => out = {}
    BY <2>2 DEF HoldsBack
  <2>5. p.path = "responses" /\ p.mode = "balanced" /\ Uncut(p) => NoCode(p)
    BY <2>2 DEF HoldsBack
  <2>6. p.path = "json" => p.gate.out = {}
    BY <2>2 DEF HoldsBack
  <2>7. \A i \in out : i \in p.gate.out \/ i \in rest
    OBVIOUS
  <2> HIDE DEF g, out
  <2>8. /\ n = [f \in ProxiedFields |-> n[f]] /\ n.gate = g /\ n.at = "done" /\ n.recorded = p.recorded
        /\ n.mode = p.mode /\ n.path = p.path /\ n.policy = p.policy /\ n.text = p.text /\ n.pos = p.pos
        /\ n.told = p.told
    BY <1>1 DEF RequestOK, ProxiedFields
  <2> HIDE DEF n
  <2>9. StrictWithholds(n)
    BY <2>3, <2>4, <2>8 DEF StrictWithholds, Gated
  <2>10. CodeHeld(n)
    <3>1. (Uncut(n) <=> Uncut(p)) /\ (AllClosed(n) <=> AllClosed(p))
      BY <2>8 DEF Uncut, AllClosed, Received
    <3> QED
      BY <1>4, <2>3, <2>5, <2>6, <2>7, <2>8, <3>1 DEF CodeHeld, NoCode
  <2>11. GateOK(n)
    BY <1>1, <2>3, <2>8, <2>9, <2>10 DEF RequestOK, GateOK
  <2>12. RequestOK(n)
    BY <1>1, <2>1, <2>8, <2>11 DEF RequestOK, ProxiedFields, ProxyStages, ConstraintsReach
  <2> QED
    BY <2>1, <2>8, <2>12, RequestMoves
<1>5. CASE DirectAnswer(q)
  <2> DEFINE n == [p EXCEPT !.at = "done"]
  <2>1. p.at = "decided" /\ p.path = "direct" /\ UNCHANGED ring /\ proxied' = [proxied EXCEPT ![q] = n]
    BY <1>5 DEF DirectAnswer
  <2>2. /\ n = [f \in ProxiedFields |-> n[f]] /\ n.at = "done" /\ n.path = "direct" /\ n.text = p.text
        /\ n.pos = p.pos /\ n.told = p.told /\ n.recorded = p.recorded /\ n.gate = p.gate /\ n.mode = p.mode
    BY <1>1, <2>1 DEF RequestOK, ProxiedFields
  <2> HIDE DEF n
  <2>3. GateOK(n)
    BY <1>1, <2>2 DEF RequestOK, GateOK, StrictWithholds, CodeHeld
  <2>4. RequestOK(n)
    BY <1>1, <2>1, <2>2, <2>3 DEF RequestOK, ProxiedFields, ProxyStages, ConstraintsReach
  <2> QED
    BY <2>1, <2>2, <2>4, RequestMoves
<1>6. p.gate \in Gates /\ p.gate.buf \in SUBSET Nat /\ p.gate.held \in SUBSET Nat /\ p.pos \in Nat
      /\ Received(p) \in SUBSET Nat
  <2>1. p.gate \in Gates /\ p.pos \in 0 .. Len(p.text) /\ p.text \in Texts \cup { <<>> }
    BY <1>1 DEF RequestOK, GateOK
  <2>2. p.pos \in Nat
    BY <2>1
  <2> QED
    BY <2>1, <2>2 DEF Gates, Received
<1>7. CASE JSONAnswer(q)
  <2> DEFINE rest == IF p.policy = "hold_for_review" /\ p.mode = "balanced" THEN Redact(p) ELSE Received(p)
  <2>1. p.path = "json" /\ FinishAnswer(q, rest)
    BY <1>7 DEF JSONAnswer
  <2>2. rest \in SUBSET Nat
    BY <1>6 DEF Redact
  <2>3. ASSUME p.mode = "balanced", p.policy = "hold_for_review", AllClosed(p), NEW i \in rest
        PROVE  p.text[i] # "code"
    <3>1. i \in 1 .. p.pos /\ (Fences(p.text, i - 1) % 2 = 0 \/ Fences(p.text, i - 1) = Fences(p.text, p.pos))
      BY <2>3 DEF Redact, Received
    <3>2. Fences(p.text, i - 1) % 2 = 0
      BY <2>3, <3>1 DEF AllClosed
    <3>3. i - 1 \in Nat /\ (i - 1) + 1 = i
      BY <1>6, <3>1
    <3>4. p.text[i] = "code" => Fences(p.text, i) = Fences(p.text, i - 1)
      <4>1. /\ Fences(p.text, i - 1) \in Nat
            /\ Fences(p.text, (i - 1) + 1) = Fences(p.text, i - 1)
                  + (IF p.text[(i - 1) + 1] \in { "fence", "half2" } THEN 1 ELSE 0)
        BY <3>3, FencesCount
      <4> QED
        BY <3>3, <4>1
    <3>5. p.text \in Texts /\ i \in DOMAIN p.text
      <4>1. p.text \in Texts \cup { <<>> } /\ p.pos \in 0 .. Len(p.text)
        BY <1>1 DEF RequestOK, GateOK
      <4>2. p.text # <<>>
        BY <3>1, <4>1
      <4>3. DOMAIN p.text = 1 .. Len(p.text) /\ Len(p.text) \in Nat
        BY <4>1, <4>2, LenProperties, ProxyGateAssumption
      <4> QED
        BY <3>1, <4>1, <4>2, <4>3
    <3>6. p.text[i] = "code" => Fences(p.text, i) % 2 = 1
      BY <3>5, ProxyGateAssumption
    <3> QED
      BY <3>2, <3>4, <3>6
  <2> HIDE DEF rest
  <2> QED
    BY <1>4, <2>1, <2>2, <2>3
<1>8. CASE ChatAnswer(q)
  <2> DEFINE rest == IF p.mode = "strict" THEN p.gate.buf ELSE {}
  <2>1. p.path = "chat" /\ FinishAnswer(q, rest) /\ rest \in SUBSET Nat
    BY <1>6, <1>8 DEF ChatAnswer
  <2> HIDE DEF rest
  <2> QED
    BY <1>4, <2>1
<1>9. CASE ResponsesAnswer(q)
  <2> DEFINE rest == FinishGate(p.gate, p.policy, p.mode)
  <2>1. p.path = "responses" /\ FinishAnswer(q, rest)
    BY <1>9 DEF ResponsesAnswer
  <2>2. CASE p.mode \in Modes
    <3>1. rest \in SUBSET Nat /\ (p.mode = "balanced" /\ p.policy = "hold_for_review" => rest = {})
      BY <1>6, <2>2 DEF FinishGate, Modes
    <3> HIDE DEF rest
    <3> QED
      BY <1>4, <2>1, <3>1
  <2> QED
    BY <1>1, <2>2 DEF RequestOK
<1> QED
  BY <1>2, <1>3, <1>5, <1>7, <1>8, <1>9

LEMMA GatewayKept == ASSUME GatewayInv, [ProxyGateNext]_proxyVars PROVE GatewayInv'
<1>1. CASE MinuteOver
  BY <1>1 DEF MinuteOver, GatewayInv, RingInv, Recorded
<1>2. CASE UNCHANGED proxyVars
  BY <1>2 DEF proxyVars, GatewayInv, RingInv, Recorded
<1> QED
  BY <1>1, <1>2, RequestGoesOn, ChunkGoesOn, VerdictGoesOn DEF ProxyGateNext

(***************************************************************************)
(* handleProxyRequest, handleStreaming, handleResponsesStream, the design  *)
(* gate and the provenance store, for any requests, texts, modes and size  *)
(* of the store: strict mode lets nothing out before or against the        *)
(* decision, balanced mode lets no code out that is held for review, the   *)
(* constraints reach the provider, records are kept.                       *)
(***************************************************************************)
THEOREM GatewayKeepsItsWord == ProxyGateSpec => []WithheldStaysWithheld
<1>1. ASSUME GatewayInv, NEW q \in ProxyRequests
      PROVE  /\ StrictWithholds(proxied[q]) /\ CodeHeld(proxied[q])
             /\ ConstraintsReach(proxied[q]) /\ RecordKept(q)
  <2>1. RequestOK(proxied[q]) /\ RingInv
    BY <1>1 DEF GatewayInv
  <2>2. StrictWithholds(proxied[q]) /\ CodeHeld(proxied[q]) /\ ConstraintsReach(proxied[q])
    BY <2>1 DEF RequestOK, GateOK, HoldsBack, NoCode, CodeHeld, StrictWithholds, Gated
  <2>3. ASSUME proxied[q].recorded, ~Contains(ring, q)
        PROVE  Cardinality({ x \in ProxyRequests \ { q } : proxied[x].recorded }) >= RingSize
    <3> DEFINE others == { x \in ProxyRequests \ { q } : proxied[x].recorded }
    <3>1. q \notin ToSet(ring) /\ q \in Recorded
      <4>1. DOMAIN ring = 1 .. Len(ring)
        BY <2>1, LenProperties DEF RingInv
      <4> QED
        BY <2>3, <4>1 DEF Contains, ToSet, Recorded
    <3>2. Len(ring) = RingSize /\ ToSet(ring) \subseteq others
      BY <2>1, <3>1 DEF RingInv, Recorded
    <3>3. IsFiniteSet(others)
      <4>1. others \subseteq Recorded
        BY DEF Recorded
      <4> QED
        BY <2>1, <4>1, FS_Subset DEF RingInv
    <3>4. Cardinality(ToSet(ring)) = RingSize
      BY <2>1, <3>2, ListCounts DEF RingInv
    <3>5. Cardinality(ToSet(ring)) <= Cardinality(others) /\ Cardinality(others) \in Nat /\ RingSize \in Nat
      BY <3>2, <3>3, FS_Subset, FS_CardinalityType, ProxyGateAssumption
    <3> QED
      BY <3>4, <3>5
  <2> QED
    BY <2>2, <2>3 DEF RecordKept, Verifies
<1>2. GatewayInv => WithheldStaysWithheld
  BY <1>1 DEF WithheldStaysWithheld
<1> QED
  BY <1>2, GatewayStart, GatewayKept, PTL DEF ProxyGateSpec

--------------------------------------------------------------------------------
(* The request pipeline *)

PipelineStages == { "idle", "match", "generate", "regenerate", "critique", "record", "put",
                    "extract", "done" }
Generated == (Calls \X { "first", "second" }) \cup (Prompts \X { "fix" }) \cup { NoContent }
CallRecords == [at : PipelineStages, tries : Nat, content : Generated, accepted : BOOLEAN,
                retries : Nat]
Entries == [key : { PutKey(p) : p \in Prompts }, content : Generated]

\* Where the call is agrees with what the critic and the feedback engine know of it.
CallOK(c) ==
    LET call == llmCall[c] IN
    /\ feedback[c] = NoContent \/ feedback[c] = call.accepted
    /\ feedback[c] # NoContent => call.at \in { "put", "extract", "done" }
    /\ <<c, "first">> \in rejectedTexts =>
          ~call.accepted /\ call.at \notin { "idle", "match", "generate", "critique" }
    /\ call.at = "critique" => call.content = <<c, "first">>
    /\ call.at = "regenerate" => ~call.accepted
    /\ call.accepted => call.content \in { <<c, "first">>, <<PromptOf[c], "fix">> }

(***************************************************************************)
(* AcceptedNotRejected rests on the key the pipeline stores under, which   *)
(* is never the one it looks up, and on the critic's verdict staying with  *)
(* the response whatever becomes of the regeneration.                      *)
(***************************************************************************)
PipelineInv ==
    /\ llmCall \in [Calls -> CallRecords]
    /\ responses \in Seq(Entries)
    /\ feedback \in [Calls -> BOOLEAN \cup { NoContent }]
    /\ rejectedTexts \subseteq Calls \X { "first" }
    /\ \A c \in Calls : CallOK(c)

\* What is looked up is not there.
LEMMA NeverHit == ASSUME PipelineInv, NEW p \in Prompts PROVE Holding(GetKey(p)) = {}
<1> SUFFICES ASSUME NEW i \in Holding(GetKey(p)) PROVE FALSE
  OBVIOUS
<1>1. i \in 1 .. Len(responses) /\ responses[i].key = <<"llm:", p>>
  BY LenProperties DEF PipelineInv, Holding, GetKey
<1>2. responses \in Seq(Entries)
  BY DEF PipelineInv
<1>3. responses[i] \in Entries
  BY <1>1, <1>2, ElementOfSeq
<1>4. PICK q \in Prompts : responses[i].key = <<"", q>>
  BY <1>3 DEF PutKey, Entries
<1>5. <<"llm:", p>>[1] = <<"", q>>[1]
  BY <1>1, <1>4, Zenon
<1> QED
  BY <1>5

LEMMA EntryCut ==
    ASSUME PipelineInv, NEW key
    PROVE  WithoutKey(key) \in Seq(Entries)
<1>1. CASE Holding(key) = {}
  BY <1>1 DEF PipelineInv, WithoutKey
<1>2. CASE Holding(key) # {}
  <2> DEFINE i == CHOOSE x \in Holding(key) : TRUE
  <2>1. i \in 1 .. Len(responses) /\ responses \in Seq(Entries)
    BY <1>2, LenProperties DEF PipelineInv, Holding
  <2> HIDE DEF i
  <2>2. SubSeq(responses, 1, i - 1) \in Seq(Entries) /\ SubSeq(responses, i + 1, Len(responses)) \in Seq(Entries)
    BY <2>1, SubSeqProperties, LenProperties
  <2>3. RemoveAt(responses, i) \in Seq(Entries)
    BY <2>2, ConcatProperties DEF RemoveAt
  <2> QED
    BY <1>2, <2>3 DEF WithoutKey, i
<1> QED
  BY <1>1, <1>2

\* A call moves on, the other calls stay where they are.
LEMMA CallMoves ==
    ASSUME PipelineInv, NEW c \in Calls,
           llmCall' \in [Calls -> CallRecords],
           feedback' \in [Calls -> BOOLEAN \cup { NoContent }],
           responses' \in Seq(Entries),
           rejectedTexts' \in { rejectedTexts, rejectedTexts \cup { <<c, "first">> } },
           \A d \in Calls \ { c } : llmCall'[d] = llmCall[d] /\ feedback'[d] = feedback[d],
           CallOK(c)'
    PROVE  PipelineInv'
<1>1. rejectedTexts' \subseteq Calls \X { "first" }
  <2>1. <<c, "first">> \in Calls \X { "first" } /\ rejectedTexts \subseteq Calls \X { "first" }
    BY DEF PipelineInv
  <2> QED
    BY <2>1
<1>2. ASSUME NEW d \in Calls \ { c } PROVE CallOK(d)'
  <2>1. llmCall'[d] = llmCall[d] /\ feedback'[d] = feedback[d] /\ CallOK(d)
    BY DEF PipelineInv
  <2>2. <<d, "first">> \in rejectedTexts' => <<d, "first">> \in rejectedTexts
    <3>1. <<d, "first">> # <<c, "first">>
      OBVIOUS
    <3> QED
      BY <3>1
  <2> QED
    BY <2>1, <2>2 DEF CallOK
<1> QED
  BY <1>1, <1>2 DEF PipelineInv

LEMMA PipelineStart == RequestPipelineInit => PipelineInv
<1> SUFFICES ASSUME RequestPipelineInit PROVE PipelineInv
  OBVIOUS
<1>1. NewCall \in CallRecords /\ NewCall.at = "idle" /\ NewCall.accepted = FALSE
  BY DEF NewCall, CallRecords, PipelineStages, Generated
<1>2. llmCall \in [Calls -> CallRecords] /\ feedback \in [Calls -> BOOLEAN \cup { NoContent }]
      /\ responses \in Seq(Entries)
      /\ rejectedTexts = {}
  BY <1>1 DEF RequestPipelineInit
<1>3. ASSUME NEW c \in Calls PROVE CallOK(c)
  <2>1. llmCall[c].at = "idle" /\ llmCall[c].accepted = FALSE /\ feedback[c] = NoContent
    BY <1>1 DEF RequestPipelineInit
  <2> QED
    BY <1>2, <2>1 DEF CallOK
<1> QED
  BY <1>2, <1>3 DEF PipelineInv

LEMMA CallGoesOn == ASSUME PipelineInv, NEW c \in Calls, ProcessStep(c) PROVE PipelineInv'
<1> DEFINE o == llmCall[c]
           n == llmCall'[c]
           Kept == /\ llmCall' \in [Calls -> CallRecords]
                   /\ \A d \in Calls \ { c } : llmCall'[d] = llmCall[d]
<1>1. /\ o \in CallRecords /\ PromptOf[c] \in Prompts /\ CallOK(c)
      /\ llmCall \in [Calls -> CallRecords] /\ feedback \in [Calls -> BOOLEAN \cup { NoContent }]
      /\ responses \in Seq(Entries)
  BY PipelineAssumption DEF PipelineInv
<1>2. /\ <<c, "first">> \in Generated /\ <<c, "second">> \in Generated
      /\ NoContent \in Generated /\ <<PromptOf[c], "fix">> \in Generated
  BY <1>1 DEF Generated
<1>3. ASSUME RateLimited(c) \/ MatchPattern(c) \/ StartGeneration(c) \/ GenerateOK(c) \/ AttemptFails(c)
             \/ GenerationFails(c) \/ CritiqueAccepts(c)
      PROVE  feedback' = feedback /\ responses' = responses /\ rejectedTexts' = rejectedTexts
  BY <1>3, Zenon DEF RateLimited, MatchPattern, StartGeneration, GenerateOK, AttemptFails, GenerationFails,
        CritiqueAccepts
<1>10. CASE RateLimited(c)
  <2>1. Kept /\ n.at = "done" /\ n.accepted = FALSE /\ o.at = "idle"
    BY <1>1, <1>2, <1>10 DEF RateLimited, Answers, CallRecords, PipelineStages
  <2>2. CallOK(c)'
    BY <1>1, <1>3, <1>10, <2>1 DEF CallOK
  <2> QED
    BY <1>1, <1>3, <1>10, <2>1, <2>2, CallMoves
<1>11. CASE CheckCache(c)
  <2>1. Holding(GetKey(PromptOf[c])) = {}
    BY <1>1, NeverHit
  <2>2. /\ llmCall' = [llmCall EXCEPT ![c].at = "match"] /\ o.at = "idle"
        /\ feedback' = feedback /\ responses' = responses /\ rejectedTexts' = rejectedTexts
    BY <1>11, <2>1 DEF CheckCache
  <2>3. Kept /\ n.at = "match" /\ n.accepted = o.accepted /\ n.content = o.content
    BY <1>1, <2>2 DEF CallRecords, PipelineStages
  <2>4. CallOK(c)'
    BY <1>1, <2>2, <2>3 DEF CallOK
  <2> QED
    BY <1>1, <2>2, <2>3, <2>4, CallMoves
<1>12. CASE MatchPattern(c)
  <2>1. Kept /\ n.at = "done" /\ n.content = <<PromptOf[c], "fix">> /\ o.at = "match"
    BY <1>1, <1>2, <1>12 DEF MatchPattern, Answers, CallRecords, PipelineStages
  <2>2. CallOK(c)'
    BY <1>1, <1>3, <1>12, <2>1 DEF CallOK
  <2> QED
    BY <1>1, <1>3, <1>12, <2>1, <2>2, CallMoves
<1>13. CASE StartGeneration(c) \/ AttemptFails(c) \/ CritiqueAccepts(c)
  <2>1. Kept /\ n.accepted = o.accepted /\ n.content = o.content
    <3>1. CASE StartGeneration(c)
      BY <1>1, <3>1 DEF StartGeneration, CallRecords, PipelineStages
    <3>2. CASE AttemptFails(c)
      <4>1. llmCall' = [llmCall EXCEPT ![c].tries = @ + 1]
        BY <3>2 DEF AttemptFails
      <4>2. n = [o EXCEPT !.tries = @ + 1]
            /\ \A d \in Calls \ { c } : llmCall'[d] = llmCall[d]
        BY <1>1, <4>1
      <4>3. n \in CallRecords
        <5>1. ASSUME NEW k \in Nat PROVE [o EXCEPT !.tries = k] \in CallRecords
          BY <1>1 DEF CallRecords
        <5>2. o.tries + 1 \in Nat
          BY <1>1 DEF CallRecords
        <5> QED
          BY <4>2, <5>1, <5>2, Zenon
      <4>4. n.accepted = o.accepted /\ n.content = o.content
        BY <1>1, <4>2 DEF CallRecords
      <4> HIDE DEF n
      <4>5. llmCall' \in [Calls -> CallRecords]
        BY <1>1, <4>1, <4>2, <4>3
      <4> QED
        BY <4>2, <4>4, <4>5 DEF n
    <3>3. CASE CritiqueAccepts(c)
      BY <1>1, <3>3 DEF CritiqueAccepts, CallRecords, PipelineStages
    <3> QED
      BY <1>13, <3>1, <3>2, <3>3
  <2>2. \/ n.at = "generate" /\ o.at = "match"
        \/ n.at = o.at
        \/ n.at = "record" /\ o.at = "critique"
    BY <1>1, <1>13 DEF StartGeneration, AttemptFails, CritiqueAccepts, CallRecords
  <2>3. CallOK(c)'
    BY <1>1, <1>3, <1>13, <2>1, <2>2 DEF CallOK
  <2> QED
    BY <1>1, <1>3, <1>13, <2>1, <2>3, CallMoves
<1>14. CASE GenerateOK(c)
  <2>1. CASE o.at = "generate"
    <3>1. /\ Kept /\ n.at = "critique" /\ n.content = <<c, "first">>
      BY <1>1, <1>2, <1>14, <2>1 DEF GenerateOK, CallRecords, PipelineStages
    <3>2. CallOK(c)'
      BY <1>1, <1>3, <1>14, <2>1, <3>1 DEF CallOK
    <3> QED
      BY <1>1, <1>3, <1>14, <3>1, <3>2, CallMoves
  <2>2. CASE o.at = "regenerate"
    <3>0. llmCall' = [llmCall EXCEPT ![c].tries = 0, ![c].content = <<c, "second">>,
                ![c].accepted = @, ![c].retries = @ + 1, ![c].at = "record"]
      BY <1>14, <2>2 DEF GenerateOK
    <3>1. Kept /\ n.at = "record" /\ n.accepted = o.accepted
      BY <1>1, <1>2, <3>0 DEF CallRecords, PipelineStages
    <3>2. CallOK(c)'
      BY <1>1, <1>3, <1>14, <2>2, <3>1 DEF CallOK
    <3> QED
      BY <1>1, <1>3, <1>14, <3>1, <3>2, CallMoves
  <2> QED
    BY <1>14, <2>1, <2>2 DEF GenerateOK
<1>15. CASE GenerationFails(c)
  <2>1. CASE o.at = "generate"
    <3>1. Kept /\ n.at = "done" /\ n.accepted = FALSE
      <4>1. Answers(c, NoContent, FALSE)
        BY <1>15, <2>1, Zenon DEF GenerationFails
      <4> QED
        BY <1>1, <1>2, <4>1 DEF Answers, CallRecords, PipelineStages
    <3>2. CallOK(c)'
      BY <1>1, <1>3, <1>15, <2>1, <3>1 DEF CallOK
    <3> QED
      BY <1>1, <1>3, <1>15, <3>1, <3>2, CallMoves
  <2>2. CASE o.at = "regenerate"
    <3>1. Kept /\ n.at = "record" /\ n.accepted = o.accepted /\ n.content = o.content
      <4>1. llmCall' = [llmCall EXCEPT ![c].at = "record", ![c].tries = 0]
        BY <1>15, <2>2 DEF GenerationFails
      <4> QED
        BY <1>1, <4>1 DEF CallRecords, PipelineStages
    <3>2. CallOK(c)'
      BY <1>1, <1>3, <1>15, <2>2, <3>1 DEF CallOK
    <3> QED
      BY <1>1, <1>3, <1>15, <3>1, <3>2, CallMoves
  <2> QED
    BY <1>15, <2>1, <2>2 DEF GenerationFails
<1>16. ASSUME NEW answer, CritiqueRejects(c, answer) PROVE PipelineInv'
  <2>1. /\ o.at = "critique" /\ o.content = <<c, "first">> /\ feedback' = feedback
        /\ responses' = responses /\ rejectedTexts' = rejectedTexts \cup { <<c, "first">> }
    BY <1>1, <1>16 DEF CritiqueRejects, CallOK
  <2>2. Kept /\ n.accepted = FALSE
    BY <1>1, <1>16 DEF CritiqueRejects, CallRecords, PipelineStages
  <2>3. n.at \in { "regenerate", "record" }
    BY <1>1, <1>16 DEF CritiqueRejects, CallRecords
  <2>4. feedback[c] = NoContent
    BY <1>1, <2>1 DEF CallOK
  <2>5. CallOK(c)'
    BY <2>1, <2>2, <2>3, <2>4 DEF CallOK
  <2> QED
    BY <1>1, <2>1, <2>2, <2>5, CallMoves
<1>17. CASE RecordOutcome(c)
  <2>1. Kept /\ n.accepted = o.accepted /\ n.content = o.content /\ n.at = "put" /\ o.at = "record"
    BY <1>1, <1>17 DEF RecordOutcome, CallRecords, PipelineStages
  <2>2. responses' = responses /\ rejectedTexts' = rejectedTexts
    BY <1>17 DEF RecordOutcome
  <2>3. o.accepted \in BOOLEAN
    BY <1>1 DEF CallRecords
  <2>4. /\ feedback' \in [Calls -> BOOLEAN \cup { NoContent }] /\ feedback'[c] = o.accepted
        /\ \A d \in Calls \ { c } : feedback'[d] = feedback[d]
    BY <1>1, <1>17, <2>3 DEF RecordOutcome
  <2>5. CallOK(c)'
    BY <1>1, <2>1, <2>2, <2>4 DEF CallOK
  <2> QED
    BY <1>1, <2>1, <2>2, <2>4, <2>5, CallMoves
<1>18. CASE PutResponse(c)
  <2>1. Kept /\ n.accepted = o.accepted /\ n.content = o.content /\ n.at = "extract" /\ o.at = "put"
    BY <1>1, <1>18 DEF PutResponse, CallRecords, PipelineStages
  <2>2. feedback' = feedback /\ rejectedTexts' = rejectedTexts
    BY <1>18 DEF PutResponse
  <2> DEFINE key == PutKey(PromptOf[c])
             rest == WithoutKey(key)
             stored == [key |-> key, content |-> o.content]
             room == IF Holding(key) = {} /\ Len(rest) >= CacheSize THEN Tail(rest) ELSE rest
  <2>3. stored \in Entries /\ rest \in Seq(Entries)
    BY <1>1, EntryCut DEF Entries, CallRecords
  <2>4. responses' = Append(room, stored)
    BY <1>18 DEF PutResponse, Stored
  <2> HIDE DEF stored, rest, key
  <2>5. Len(rest) >= CacheSize => Tail(rest) \in Seq(Entries)
    <3>1. rest # <<>> => Tail(rest) \in Seq(Entries)
      BY <2>3, HeadTailProperties
    <3>2. rest = <<>> => Len(rest) = 0
      BY EmptySeq
    <3> QED
      BY <3>1, <3>2, PipelineAssumption
  <2>6. room \in Seq(Entries)
    BY <2>3, <2>5
  <2> HIDE DEF room
  <2>7. responses' \in Seq(Entries)
    BY <2>3, <2>4, <2>6, AppendProperties
  <2>8. CallOK(c)'
    BY <1>1, <2>1, <2>2 DEF CallOK
  <2> QED
    BY <1>1, <2>1, <2>2, <2>7, <2>8, CallMoves DEF PipelineInv
<1>19. CASE ScanAndExtract(c)
  <2>1. Kept /\ n.accepted = o.accepted /\ n.content = o.content /\ n.at = "done" /\ o.at = "extract"
    BY <1>1, <1>19 DEF ScanAndExtract, CallRecords, PipelineStages
  <2>2. feedback' = feedback /\ responses' = responses /\ rejectedTexts' = rejectedTexts
    BY <1>19 DEF ScanAndExtract
  <2>3. CallOK(c)'
    BY <1>1, <2>1, <2>2 DEF CallOK
  <2> QED
    BY <1>1, <2>1, <2>2, <2>3, CallMoves
<1> QED
  BY <1>10, <1>11, <1>12, <1>13, <1>14, <1>15, <1>16, <1>17, <1>18, <1>19 DEF ProcessStep

LEMMA PipelineKept == ASSUME PipelineInv, [RequestPipelineNext]_pipelineVars PROVE PipelineInv'
<1>1. CASE UNCHANGED pipelineVars
  BY <1>1 DEF pipelineVars, PipelineInv, CallOK
<1>2. ASSUME NEW p \in Prompts, ResponseExpires(PutKey(p)) PROVE PipelineInv'
  <2>1. responses' \in Seq(Entries)
    BY <1>2, EntryCut DEF ResponseExpires
  <2> QED
    BY <1>2, <2>1 DEF ResponseExpires, PipelineInv, CallOK
<1> QED
  BY <1>1, <1>2, CallGoesOn DEF RequestPipelineNext

LEMMA PipelineSound == PipelineInv => AcceptedNotRejected
<1> SUFFICES ASSUME PipelineInv, NEW c \in Calls
             PROVE  /\ llmCall[c].at = "done" /\ llmCall[c].accepted => llmCall[c].content \notin rejectedTexts
                    /\ feedback[c] # NoContent => feedback[c] = llmCall[c].accepted
  BY DEF AcceptedNotRejected
<1>1. CallOK(c) /\ rejectedTexts \subseteq Calls \X { "first" }
  BY DEF PipelineInv
<1>2. <<PromptOf[c], "fix">> \notin rejectedTexts
  BY <1>1
<1> QED
  BY <1>1, <1>2 DEF CallOK
--------------------------------------------------------------------------------
(* The engines of the gateway *)

OwnCategories == { "injection", "xss", "secrets", "crypto", "analysis" }
EngineFindings == [cat : STRING \cup OwnCategories, sev : DOMAIN SeverityRank, both : { FALSE }]
ScannerResults == UNION { [D -> EngineFindings] : D \in SUBSET Nat }

\* What the goroutine of a block adds when it merges its engines' findings.
Merging(b) == MergeFindings(block[b].det, IF block[b].llm = Failed THEN <<>> ELSE block[b].llm)

Merged == { b \in Blocks : block[b].merged }
ModelFailed == { b \in Merged : block[b].llm = Failed }

(***************************************************************************)
(* The collected findings are what the goroutines that ended have merged,  *)
(* and the errors are those of the models that did not answer them: in     *)
(* whatever order they end.                                                *)
(***************************************************************************)
EngineInv ==
    /\ block \in [Blocks -> [det : ScannerResults \cup { Unfinished },
                             llm : Seq(EngineFindings) \cup { Unfinished, Failed }, merged : BOOLEAN]]
    /\ \A b \in Merged : block[b].det # Unfinished /\ block[b].llm # Unfinished
    /\ allFindings = UNION { Merging(b) : b \in Merged }
    /\ llmErrCount = Cardinality(ModelFailed)
    /\ scanOutcome.verdict # "pending" =>
          /\ Merged = Blocks
          /\ scanOutcome.unavailable <=> llmErrCount >= Cardinality(Blocks) /\ allFindings = {}

LEMMA RankOfSeverity == \A s \in DOMAIN SeverityRank : SeverityRank[s] \in 1 .. 5
  BY DEF SeverityRank

LEMMA PlainFinding ==
    /\ \A cat \in { "injection", "xss", "secrets" } : Finding(cat, "critical") \in EngineFindings
    /\ \A cat \in { "injection", "xss", "secrets" } : Finding(cat, "high") \in EngineFindings
    /\ Finding("crypto", "medium") \in EngineFindings /\ Finding("analysis", "info") \in EngineFindings
<1>1. { "critical", "high", "medium", "info" } \subseteq DOMAIN SeverityRank
  BY DEF SeverityRank
<1>2. \A sev \in { "critical", "high", "medium", "info" }, cat \in OwnCategories :
        Finding(cat, sev) \in EngineFindings
  BY <1>1 DEF Finding, EngineFindings
<1> QED
  BY <1>2 DEF OwnCategories

LEMMA NotAnswers ==
    /\ Unfinished \notin ScannerResults /\ Unfinished \notin Seq(EngineFindings)
    /\ Failed \notin Seq(EngineFindings) /\ Failed # Unfinished
<1>1. /\ DOMAIN Unfinished = 1 .. 1 /\ DOMAIN Failed = 1 .. 1 /\ Len(Unfinished) = 1 /\ Len(Failed) = 1
      /\ Unfinished[1].sev = "unfinished" /\ Failed[1].sev = "failed"
  BY DEF Unfinished, Failed, Finding
<1>2. \A f \in EngineFindings : f.sev \in { "critical", "high", "medium", "low", "info" }
  BY DEF EngineFindings, SeverityRank
<1>3. Unfinished \notin ScannerResults
  <2> SUFFICES ASSUME NEW D \in SUBSET Nat, Unfinished \in [D -> EngineFindings] PROVE FALSE
    BY DEF ScannerResults
  <2>1. Unfinished[1] \in EngineFindings
    <3>1. 1 \in DOMAIN Unfinished /\ DOMAIN Unfinished = D
      BY <1>1
    <3> QED
      BY <3>1
  <2> QED
    BY <1>1, <1>2, <2>1
<1>4. ASSUME NEW s \in Seq(EngineFindings), Len(s) = 1 PROVE s[1].sev \notin { "unfinished", "failed" }
  <2>1. s[1] \in EngineFindings
    BY <1>4, ElementOfSeq
  <2> QED
    BY <1>2, <2>1
<1> QED
  BY <1>1, <1>3, <1>4

LEMMA AnswersAreFindings ==
    ASSUME NEW answer \in BackendAnswers \cup LLMAnswers \cup DeepAnswers
    PROVE  answer \in Seq(EngineFindings)
<1> DEFINE Declared == [cat : STRING, sev : DOMAIN SeverityRank, both : { FALSE }]
<1>1. answer \in Seq(Declared)
  BY DualEngineAssumption
<1>2. Declared \subseteq EngineFindings
  BY DEF EngineFindings
<1> HIDE DEF Declared
<1>3. answer \in [1 .. Len(answer) -> EngineFindings] /\ Len(answer) \in Nat
  BY <1>1, <1>2, ElementOfSeq, LenProperties
<1> QED
  BY <1>3, IsASeq

\* The first of the model's findings in a category it has one of.
LEMMA FirstIsOne ==
    ASSUME NEW llm \in Seq(EngineFindings), NEW i \in DOMAIN llm
    PROVE  FirstOf(llm, llm[i].cat) \in EngineFindings
<1> DEFINE same == { j \in DOMAIN llm : llm[j].cat = llm[i].cat }
           least == CHOOSE k \in same : \A j \in same : k <= j
<1>1. same \in SUBSET Nat /\ i \in same /\ DOMAIN llm = 1 .. Len(llm)
  BY LenProperties
<1>2. \E k \in same : \A j \in same : k <= j
  <2> HIDE DEF same
  <2> QED
    BY <1>1, LeastNatural
<1>3. least \in same
  <2> HIDE DEF same
  <2> QED
    BY <1>2
<1>4. least \in 1 .. Len(llm)
  BY <1>1, <1>3
<1> HIDE DEF least
<1>5. llm[least] \in EngineFindings
  BY <1>4, ElementOfSeq
<1> QED
  BY <1>5 DEF FirstOf, least

\* A finding of the scanners keeps its category and is not weakened; it is marked where the
\* model has a finding of its category.
LEMMA Corroborated ==
    ASSUME NEW f \in EngineFindings, NEW llm \in Seq(EngineFindings)
    PROVE  LET g == Corroborate(f, llm) IN
           /\ g.cat = f.cat /\ SeverityRank[g.sev] >= SeverityRank[f.sev]
           /\ (\E i \in DOMAIN llm : llm[i].cat = f.cat) => g.both
<1> DEFINE g == Corroborate(f, llm)
<1>1. CASE \A i \in DOMAIN llm : llm[i].cat # f.cat
  <2>1. g = f
    BY <1>1 DEF Corroborate
  <2>2. SeverityRank[f.sev] \in Nat
    BY RankOfSeverity DEF EngineFindings
  <2> QED
    BY <1>1, <2>1, <2>2
<1>2. ASSUME NEW i \in DOMAIN llm, llm[i].cat = f.cat
      PROVE  g.cat = f.cat /\ SeverityRank[g.sev] >= SeverityRank[f.sev] /\ g.both
  <2> DEFINE first == FirstOf(llm, f.cat).sev
             worse == IF SeverityRank[first] > SeverityRank[f.sev] THEN first ELSE f.sev
  <2>1. first \in DOMAIN SeverityRank /\ f.sev \in DOMAIN SeverityRank
    BY <1>2, FirstIsOne DEF EngineFindings
  <2>2. SeverityRank[first] \in Nat /\ SeverityRank[f.sev] \in Nat
    BY <2>1, RankOfSeverity
  <2>3. g = [f EXCEPT !.both = TRUE, !.sev = worse]
    BY <1>2 DEF Corroborate
  <2> HIDE DEF first, g
  <2>4. SeverityRank[worse] >= SeverityRank[f.sev]
    BY <2>2
  <2> HIDE DEF worse
  <2>5. g.cat = f.cat /\ g.sev = worse /\ g.both
    BY <2>3 DEF EngineFindings
  <2> QED
    BY <2>4, <2>5
<1> QED
  BY <1>1, <1>2

\* MergeFindings covers the scanners' findings, and the model's but behind an earlier one
\* of the category.
LEMMA MergeCovers ==
    ASSUME NEW det \in ScannerResults, NEW llm \in Seq(EngineFindings)
    PROVE  LET Covers(f) == \E g \in MergeFindings(det, llm) :
                  g.cat = f.cat /\ SeverityRank[g.sev] >= SeverityRank[f.sev]
           IN  /\ \A i \in DOMAIN det : Covers(det[i])
               /\ \A i \in DOMAIN llm : Covers(llm[i]) \/ \E j \in 1 .. i - 1 : llm[j].cat = llm[i].cat
<1> DEFINE Covers(f) == \E g \in MergeFindings(det, llm) :
                  g.cat = f.cat /\ SeverityRank[g.sev] >= SeverityRank[f.sev]
<1>1. \A i \in DOMAIN det : det[i] \in EngineFindings
  BY DEF ScannerResults
<1>2. \A i \in DOMAIN det : Corroborate(det[i], llm) \in MergeFindings(det, llm)
  BY DEF MergeFindings
<1>3. \A i \in DOMAIN det : Covers(det[i])
  BY <1>1, <1>2, Corroborated
<1>4. ASSUME NEW i \in DOMAIN llm, \A j \in 1 .. i - 1 : llm[j].cat # llm[i].cat
      PROVE  Covers(llm[i])
  <2>1. DOMAIN llm = 1 .. Len(llm) /\ llm[i] \in EngineFindings
    BY LenProperties, ElementOfSeq
  <2>2. \A j \in DOMAIN llm : j < i => llm[j].cat # llm[i].cat
    BY <1>4, <2>1
  <2>3. \A k \in DOMAIN det : Corroborate(det[k], llm).cat = llm[i].cat => Corroborate(det[k], llm).both
    BY <1>1, Corroborated
  <2>4. llm[i] \in MergeFindings(det, llm)
    BY <2>2, <2>3, Zenon DEF MergeFindings
  <2>5. SeverityRank[llm[i].sev] \in Nat
    BY <2>1, RankOfSeverity DEF EngineFindings
  <2>6. SeverityRank[llm[i].sev] >= SeverityRank[llm[i].sev]
    BY <2>5
  <2> QED
    BY <2>4, <2>6
<1> QED
  BY <1>3, <1>4

\* Where no model answered, nothing is found but by the scanners.
LEMMA NothingMerged ==
    ASSUME NEW det \in ScannerResults
    PROVE  MergeFindings(det, <<>>) = {} <=> det = <<>>
<1>1. MergeFindings(det, <<>>) = { Corroborate(det[i], <<>>) : i \in DOMAIN det }
  BY DEF MergeFindings
<1>2. DOMAIN det = {} => det = <<>>
  BY DEF ScannerResults
<1>3. det = <<>> => DOMAIN det = {}
  OBVIOUS
<1>4. MergeFindings(det, <<>>) = {} <=> DOMAIN det = {}
  BY <1>1
<1> QED
  BY <1>2, <1>3, <1>4

LEMMA EngineStart == DualEngineInit => EngineInv
<1> SUFFICES ASSUME DualEngineInit PROVE EngineInv
  OBVIOUS
<1>1. \A b \in Blocks : block[b].merged = FALSE
  BY DEF DualEngineInit
<1>2. Merged = {} /\ ModelFailed = {}
  BY <1>1 DEF Merged, ModelFailed
<1>3. allFindings = UNION { Merging(b) : b \in Merged } /\ llmErrCount = Cardinality(ModelFailed)
  BY <1>2, FS_EmptySet DEF DualEngineInit
<1>4. scanOutcome.verdict = "pending"
  BY DEF DualEngineInit
<1>5. block \in [Blocks -> [det : ScannerResults \cup { Unfinished },
                 llm : Seq(EngineFindings) \cup { Unfinished, Failed }, merged : BOOLEAN]]
  BY DEF DualEngineInit
<1> QED
  BY <1>2, <1>3, <1>4, <1>5 DEF EngineInv

LEMMA EnginesKeep == ASSUME EngineInv, [GatewayNext]_gatewayVars PROVE EngineInv'
<1> DEFINE Goroutines == [det : ScannerResults \cup { Unfinished },
                llm : Seq(EngineFindings) \cup { Unfinished, Failed }, merged : BOOLEAN]
<1>1. /\ block \in [Blocks -> Goroutines]
      /\ \A b \in Blocks : block[b].det \in ScannerResults \cup { Unfinished }
      /\ \A b \in Blocks : block[b].merged => block[b].det # Unfinished /\ block[b].llm # Unfinished
  BY DEF EngineInv, Merged
\* An engine of block b answers.
<1>2. ASSUME NEW b \in Blocks, NEW n \in Goroutines, block' = [block EXCEPT ![b] = n],
             ~block[b].merged, ~n.merged,
             UNCHANGED <<allFindings, llmErrCount, scanOutcome>>
      PROVE  EngineInv'
  <2>1. block' \in [Blocks -> Goroutines]
    BY <1>1, <1>2
  <2>2. block'[b] = n /\ \A c \in Blocks \ { b } : block'[c] = block[c]
    BY <1>1, <1>2
  <2>3. Merged' = Merged /\ \A c \in Merged : block'[c] = block[c]
    BY <1>2, <2>2 DEF Merged
  <2>4. ModelFailed' = ModelFailed
    BY <2>3 DEF ModelFailed
  <2>5. \A c \in Merged : Merging(c)' = Merging(c)
    BY <2>3 DEF Merging
  <2>6. UNION { Merging(c) : c \in Merged }' = UNION { Merging(c) : c \in Merged }
    BY <2>3, <2>5
  <2> QED
    BY <1>2, <2>1, <2>3, <2>4, <2>6 DEF EngineInv
<1>3. ASSUME NEW b \in Blocks, DeterministicReturns(b) PROVE EngineInv'
  <2>1. PICK fs \in BackendAnswers \cup { LocalScan(positions) : positions \in PatternHits } :
            block' = [block EXCEPT ![b].det = fs]
    BY <1>3 DEF DeterministicReturns
  <2>2. fs \in ScannerResults
    <3>1. CASE fs \in BackendAnswers
      <4>1. fs \in Seq(EngineFindings)
        BY <3>1, AnswersAreFindings
      <4>2. fs \in [1 .. Len(fs) -> EngineFindings] /\ 1 .. Len(fs) \in SUBSET Nat
        BY <4>1, LenProperties, ElementOfSeq
      <4> QED
        BY <4>2 DEF ScannerResults
    <3>2. ASSUME NEW positions \in PatternHits, fs = LocalScan(positions) PROVE fs \in ScannerResults
      <4>1. \A i \in 1 .. 5 : LocalRules[i] \in EngineFindings
        <5>1. /\ LocalRules[1] = Finding("injection", "critical") /\ LocalRules[2] = Finding("xss", "high")
              /\ LocalRules[3] = Finding("secrets", "critical") /\ LocalRules[4] = Finding("crypto", "medium")
              /\ LocalRules[5] = Finding("injection", "critical")
          BY DEF LocalRules
        <5>2. ASSUME NEW i \in 1 .. 5 PROVE LocalRules[i] \in EngineFindings
          <6>1. i \in { 1, 2, 3, 4, 5 }
            OBVIOUS
          <6> QED
            BY <5>1, <6>1, PlainFinding
        <5> QED
          BY <5>2
      <4>2. positions \subseteq 1 .. 5
        BY DualEngineAssumption DEF LocalRules
      <4>3. fs \in [positions -> EngineFindings] /\ positions \in SUBSET Nat
        BY <3>2, <4>1, <4>2 DEF LocalScan
      <4> QED
        BY <4>3 DEF ScannerResults
    <3> QED
      BY <3>1, <3>2
  <2> DEFINE n == [block[b] EXCEPT !.det = fs]
  <2>3. n \in Goroutines /\ n.merged = block[b].merged
    BY <1>1, <2>2
  <2>4. block[b].det = Unfinished /\ block' = [block EXCEPT ![b] = n]
    BY <1>1, <1>3, <2>1 DEF DeterministicReturns
  <2>5. ~block[b].merged
    BY <1>1, <2>4
  <2> HIDE DEF n, Goroutines
  <2>6. ~n.merged
    BY <2>3, <2>5
  <2>7. UNCHANGED <<allFindings, llmErrCount, scanOutcome>>
    BY <1>3 DEF DeterministicReturns
  <2> QED
    BY <1>2, <2>3, <2>4, <2>5, <2>6, <2>7
<1>4. ASSUME NEW b \in Blocks, LLMReturns(b) PROVE EngineInv'
  <2>1. PICK fs \in Seq(EngineFindings) \cup { Failed } : block' = [block EXCEPT ![b].llm = fs]
    <3>1. CASE block' = [block EXCEPT ![b].llm = Failed]
      BY <3>1
    <3>2. ASSUME NEW answer \in LLMAnswers \cup { Unparsable },
                 block' = [block EXCEPT ![b].llm =
                    IF ParseLLMFindings(answer) = <<>> THEN << Finding("analysis", "info") >>
                    ELSE ParseLLMFindings(answer)]
          PROVE  \E fs \in Seq(EngineFindings) \cup { Failed } : block' = [block EXCEPT ![b].llm = fs]
      <4>1. ParseLLMFindings(answer) \in Seq(EngineFindings)
        <5>1. CASE answer = Unparsable
          BY <5>1, EmptySeq DEF ParseLLMFindings
        <5>2. CASE answer # Unparsable
          BY <5>2, AnswersAreFindings DEF ParseLLMFindings
        <5> QED
          BY <5>1, <5>2
      <4>2. << Finding("analysis", "info") >> \in Seq(EngineFindings)
        <5>1. Finding("analysis", "info") \in EngineFindings
          BY PlainFinding
        <5> QED
          BY <5>1
      <4> QED
        BY <3>2, <4>1, <4>2
    <3> QED
      BY <1>4, <3>1, <3>2 DEF LLMReturns
  <2> DEFINE n == [block[b] EXCEPT !.llm = fs]
  <2>3. n \in Goroutines /\ n.merged = block[b].merged
    BY <1>1
  <2>4. block[b].llm = Unfinished /\ block' = [block EXCEPT ![b] = n]
    BY <1>1, <1>4, <2>1 DEF LLMReturns
  <2>5. ~block[b].merged
    BY <1>1, <2>4
  <2> HIDE DEF n, Goroutines
  <2>6. ~n.merged
    BY <2>3, <2>5
  <2>7. UNCHANGED <<allFindings, llmErrCount, scanOutcome>>
    BY <1>4 DEF LLMReturns
  <2> QED
    BY <1>2, <2>3, <2>4, <2>5, <2>6, <2>7
<1>5. ASSUME NEW b \in Blocks, MergeBlock(b) PROVE EngineInv'
  <2>1. /\ block[b].det # Unfinished /\ block[b].llm # Unfinished /\ block[b].merged = FALSE
        /\ block' = [block EXCEPT ![b].merged = TRUE]
        /\ allFindings' = allFindings \cup Merging(b)
        /\ llmErrCount' = IF block[b].llm = Failed THEN llmErrCount + 1 ELSE llmErrCount
        /\ scanOutcome' = scanOutcome
    BY <1>1, <1>5 DEF MergeBlock, Merging
  <2>2. block' \in [Blocks -> Goroutines]
    BY <1>1, <2>1
  <2>3. /\ \A c \in Blocks : block'[c].det = block[c].det /\ block'[c].llm = block[c].llm
        /\ \A c \in Blocks \ { b } : block'[c].merged = block[c].merged
        /\ block'[b].merged
    BY <1>1, <2>1
  <2>4. Merged' = Merged \cup { b } /\ b \notin Merged
    BY <2>1, <2>3 DEF Merged
  <2>5. \A c \in Blocks : Merging(c)' = Merging(c)
    BY <2>3 DEF Merging
  <2>6. allFindings' = UNION { Merging(c)' : c \in Merged' }
    <3>1. \A c \in Merged' : c \in Blocks
      BY DEF Merged
    <3>2. { Merging(c)' : c \in Merged' } = { Merging(c) : c \in Merged } \cup { Merging(b) }
      BY <2>4, <2>5, <3>1
    <3>3. allFindings = UNION { Merging(c) : c \in Merged }
      BY DEF EngineInv
    <3> QED
      BY <2>1, <3>2, <3>3
  <2>7. IsFiniteSet(ModelFailed) /\ llmErrCount = Cardinality(ModelFailed) /\ b \notin ModelFailed
    BY <2>4, DualEngineAssumption, FS_Subset DEF EngineInv, ModelFailed, Merged
  <2>8. llmErrCount' = Cardinality(ModelFailed')
    <3>1. CASE block[b].llm = Failed
      <4>1. ModelFailed' = ModelFailed \cup { b }
        BY <2>3, <2>4, <3>1 DEF ModelFailed, Merged
      <4> QED
        BY <2>1, <2>7, <3>1, <4>1, FS_AddElement
    <3>2. CASE block[b].llm # Failed
      <4>1. ModelFailed' = ModelFailed
        BY <2>3, <2>4, <3>2 DEF ModelFailed, Merged
      <4> QED
        BY <2>1, <2>7, <3>2, <4>1
    <3> QED
      BY <3>1, <3>2
  <2>9. scanOutcome'.verdict = "pending"
    BY <2>1, <2>4 DEF EngineInv, Merged
  <2>10. \A c \in Merged' : block'[c].det # Unfinished /\ block'[c].llm # Unfinished
    BY <1>1, <2>1, <2>3, <2>4 DEF Merged
  <2> QED
    BY <2>2, <2>6, <2>8, <2>9, <2>10 DEF EngineInv
<1>6. CASE ComputeOutcome
  <2>1. UNCHANGED <<block, allFindings, llmErrCount>> /\ Merged = Blocks
    BY <1>6 DEF ComputeOutcome, Merged
  <2>2. Merged' = Merged /\ ModelFailed' = ModelFailed
        /\ UNION { Merging(c) : c \in Merged }' = UNION { Merging(c) : c \in Merged }
    BY <2>1 DEF Merged, ModelFailed, Merging
  <2>3. scanOutcome'.unavailable <=> llmErrCount >= Cardinality(Blocks) /\ allFindings = {}
    <3> DEFINE none == llmErrCount >= Cardinality(Blocks) /\ allFindings = {}
    <3>1. PICK v : scanOutcome' = [verdict |-> v, unavailable |-> none]
      BY <1>6 DEF ComputeOutcome
    <3> HIDE DEF none
    <3>2. scanOutcome'.unavailable = none
      BY <3>1
    <3> QED
      BY <3>2 DEF none
  <2> QED
    BY <2>1, <2>2, <2>3 DEF EngineInv
<1>7. CASE UNCHANGED gatewayVars
  <2>1. UNCHANGED <<block, allFindings, llmErrCount, scanOutcome>>
    BY <1>7 DEF gatewayVars
  <2>2. Merged' = Merged /\ ModelFailed' = ModelFailed
        /\ UNION { Merging(c) : c \in Merged }' = UNION { Merging(c) : c \in Merged }
    BY <2>1 DEF Merged, ModelFailed, Merging
  <2> QED
    BY <2>1, <2>2 DEF EngineInv
<1> QED
  BY <1>3, <1>4, <1>5, <1>6, <1>7 DEF GatewayNext

\* What FindingsSurvive says of the gateway.
VerdictRests ==
    scanOutcome.verdict # "pending" =>
        /\ \A b \in Blocks : \A i \in DOMAIN block[b].det : Covered(block[b].det[i])
        /\ \A b \in Blocks : block[b].llm # Failed =>
              \A i \in DOMAIN block[b].llm :
                  \/ Covered(block[b].llm[i])
                  \/ \E j \in 1 .. i - 1 : block[b].llm[j].cat = block[b].llm[i].cat
        /\ scanOutcome.unavailable <=>
              \A b \in Blocks : block[b].llm = Failed /\ block[b].det = <<>>

LEMMA VerdictRestsOnAll == EngineInv => VerdictRests
<1> SUFFICES ASSUME EngineInv, scanOutcome.verdict # "pending"
             PROVE  /\ \A b \in Blocks : \A i \in DOMAIN block[b].det : Covered(block[b].det[i])
                    /\ \A b \in Blocks : block[b].llm # Failed =>
                          \A i \in DOMAIN block[b].llm :
                              \/ Covered(block[b].llm[i])
                              \/ \E j \in 1 .. i - 1 : block[b].llm[j].cat = block[b].llm[i].cat
                    /\ scanOutcome.unavailable <=>
                          \A b \in Blocks : block[b].llm = Failed /\ block[b].det = <<>>
  BY DEF VerdictRests
<1>1. /\ Merged = Blocks
      /\ scanOutcome.unavailable <=> llmErrCount >= Cardinality(Blocks) /\ allFindings = {}
      /\ allFindings = UNION { Merging(b) : b \in Blocks } /\ llmErrCount = Cardinality(ModelFailed)
  BY DEF EngineInv
<1> DEFINE model(b) == IF block[b].llm = Failed THEN <<>> ELSE block[b].llm
<1>2. ASSUME NEW b \in Blocks
      PROVE  /\ block[b].det \in ScannerResults /\ model(b) \in Seq(EngineFindings)
             /\ MergeFindings(block[b].det, model(b)) \subseteq allFindings
  <2>1. block[b].det \in ScannerResults
    BY <1>1 DEF EngineInv
  <2>2. block[b].llm \in Seq(EngineFindings) \cup { Failed }
    BY <1>1 DEF EngineInv
  <2>3. model(b) \in Seq(EngineFindings)
    BY <2>2, EmptySeq
  <2>4. MergeFindings(block[b].det, model(b)) = Merging(b)
    BY DEF Merging
  <2> QED
    BY <1>1, <2>1, <2>3, <2>4
<1>3. ASSUME NEW b \in Blocks
      PROVE  /\ \A i \in DOMAIN block[b].det : Covered(block[b].det[i])
             /\ block[b].llm # Failed => \A i \in DOMAIN block[b].llm :
                    \/ Covered(block[b].llm[i])
                    \/ \E j \in 1 .. i - 1 : block[b].llm[j].cat = block[b].llm[i].cat
  <2> DEFINE det == block[b].det
             llm == model(b)
  <2>1. det \in ScannerResults /\ llm \in Seq(EngineFindings) /\ MergeFindings(det, llm) \subseteq allFindings
    BY <1>2
  <2>2. block[b].llm # Failed => block[b].llm = llm
    OBVIOUS
  <2> HIDE DEF llm
  <2>3. /\ \A i \in DOMAIN det : Covered(det[i])
        /\ \A i \in DOMAIN llm : Covered(llm[i]) \/ \E j \in 1 .. i - 1 : llm[j].cat = llm[i].cat
    BY <2>1, MergeCovers DEF Covered
  <2> QED
    BY <2>2, <2>3
<1>4. (\A b \in Blocks : block[b].llm = Failed) <=> llmErrCount >= Cardinality(Blocks)
  <2>1. ModelFailed \subseteq Blocks /\ IsFiniteSet(Blocks)
    BY DualEngineAssumption DEF ModelFailed, Merged
  <2>2. /\ Cardinality(ModelFailed) <= Cardinality(Blocks)
        /\ Cardinality(ModelFailed) = Cardinality(Blocks) => ModelFailed = Blocks
        /\ Cardinality(Blocks) \in Nat /\ Cardinality(ModelFailed) \in Nat
    BY <2>1, FS_Subset, FS_CardinalityType
  <2>3. ModelFailed = Blocks <=> \A b \in Blocks : block[b].llm = Failed
    BY <1>1 DEF ModelFailed
  <2> QED
    BY <1>1, <2>2, <2>3
<1>5. ASSUME \A b \in Blocks : block[b].llm = Failed
      PROVE  allFindings = {} <=> \A b \in Blocks : block[b].det = <<>>
  <2>1. \A b \in Blocks : Merging(b) = MergeFindings(block[b].det, <<>>) /\ block[b].det \in ScannerResults
    BY <1>2, <1>5 DEF Merging
  <2>2. \A b \in Blocks : Merging(b) = {} <=> block[b].det = <<>>
    BY <2>1, NothingMerged
  <2> QED
    BY <1>1, <2>2
<1> QED
  BY <1>1, <1>3, <1>4, <1>5

--------------------------------------------------------------------------------
(* The scanner engine and its endpoints *)

Analysers == { "builtin", "bandit", "semgrep" }

\* What an analyser reports: the name of the rule says who, of what and how severe.
IsReport(f) ==
    LET tool == f.rule[1] IN
    /\ f = Reported(tool, f.cat, f.sev, f.place)
    /\ tool \in Analysers /\ f.sev \in DOMAIN SeverityRank /\ f.place \in Places
    /\ f.sev = "critical" => tool = "builtin"

ReportsOfLine(raw) ==
    /\ IsFiniteSet(raw) /\ \A f \in raw : IsReport(f)
    /\ \A f, g \in raw : f.place = g.place

\* A rule reports once for a line.
LEMMA OneReport ==
    ASSUME NEW raw, ReportsOfLine(raw), NEW f \in raw, NEW g \in raw, f.rule = g.rule
    PROVE  f = g
<1>1. f = Reported(f.rule[1], f.cat, f.sev, f.place) /\ g = Reported(g.rule[1], g.cat, g.sev, g.place)
      /\ f.place = g.place
  BY DEF ReportsOfLine, IsReport
<1>2. f.rule = <<f.rule[1], f.cat, f.sev>> /\ g.rule = <<g.rule[1], g.cat, g.sev>>
  BY <1>1 DEF Reported
<1>3. f.cat = g.cat /\ f.sev = g.sev
  <2>1. \A a, b, c, d, x, y : <<a, b, c>> = <<d, x, y>> => b = x /\ c = y
    OBVIOUS
  <2> QED
    BY <1>2, <2>1
<1> QED
  BY <1>1, <1>3

LEMMA NothingToMerge ==
    ASSUME NEW raw, ReportsOfLine(raw)
    PROVE  ByFingerprint(raw) = raw
<1> DEFINE Same(f) == { g \in raw : g.rule = f.rule /\ g.place = f.place }
           Worst(f) == CHOOSE g \in Same(f) : \A h \in Same(f) : SeverityRank[g.sev] >= SeverityRank[h.sev]
           One(f) == [f EXCEPT !.by = UNION { g.by : g \in Same(f) }, !.sev = Worst(f).sev]
<1>1. ASSUME NEW f \in raw PROVE One(f) = f
  <2>1. Same(f) = { f }
    BY OneReport
  <2>2. SeverityRank[f.sev] >= SeverityRank[f.sev]
    BY RankOfSeverity DEF ReportsOfLine, IsReport
  <2>3. Worst(f) = f
    <3> HIDE DEF Same
    <3> QED
      BY <2>1, <2>2
  <2>4. UNION { g.by : g \in Same(f) } = f.by
    <3> HIDE DEF Same
    <3> QED
      BY <2>1
  <2>5. One(f) = [f EXCEPT !.by = f.by, !.sev = f.sev]
    <3> HIDE DEF Same, Worst
    <3> QED
      BY <2>3, <2>4
  <2> HIDE DEF One
  <2> QED
    BY <2>5 DEF ReportsOfLine, IsReport, Reported
<1>2. ByFingerprint(raw) = { One(f) : f \in raw }
  BY DEF ByFingerprint
<1> HIDE DEF One
<1> QED
  BY <1>1, <1>2

\* A report with its confidence, judged for the kind of the file.
Scored(f, kind) == [rule |-> f.rule, by |-> f.by, cat |-> f.cat, sev |-> f.sev, place |-> f.place,
                    conf |-> ConfidenceWithFile(f, kind)]
JudgedFor(f, kind) == IF IsTestFile(kind) THEN SuppressTestFP(Scored(f, kind)) ELSE Scored(f, kind)
KeptReports(raw, lost) == { f \in raw : f.by \cap lost = {} }

LEMMA EngineReports ==
    ASSUME NEW raw, ReportsOfLine(raw), NEW lost, NEW kind
    PROVE  RunEngine(raw, lost, kind) =
              { g \in { JudgedFor(f, kind) : f \in KeptReports(raw, lost) } :
                  kind # "testdata" /\ g.conf >= 300 /\ ~g.place.nosec }
<1> DEFINE A == KeptReports(raw, lost)
<1>1. ReportsOfLine(A)
  BY FS_Subset DEF ReportsOfLine, KeptReports
<1>2. ByFingerprint(A) = A
  BY <1>1, NothingToMerge
<1>3. RunEngine(raw, lost, kind) = { f \in MergeScoreAndFilter(A, kind) : ~f.place.nosec }
  BY DEF RunEngine, KeptReports
<1> HIDE DEF A
<1>4. MergeScoreAndFilter(A, kind) =
        { f \in { IF IsTestFile(kind) THEN SuppressTestFP(f) ELSE f : f \in { Scored(f, kind) : f \in A } } :
            kind # "testdata" /\ f.conf >= 300 }
  BY <1>2 DEF MergeScoreAndFilter, Scored
<1>5. { IF IsTestFile(kind) THEN SuppressTestFP(f) ELSE f : f \in { Scored(f, kind) : f \in A } }
        = { JudgedFor(f, kind) : f \in A }
  BY DEF JudgedFor
<1> QED
  BY <1>3, <1>4, <1>5 DEF A

LEMMA JudgedKeeps ==
    ASSUME NEW f, NEW kind
    PROVE  /\ JudgedFor(f, kind).rule = f.rule /\ JudgedFor(f, kind).place = f.place
           /\ ~(IsTestFile(kind) /\ f.cat \in { "secrets", "injection" }) => JudgedFor(f, kind).sev = f.sev
<1> DEFINE s == Scored(f, kind)
<1>1. /\ s.rule = f.rule /\ s.place = f.place /\ s.sev = f.sev /\ s.cat = f.cat /\ s.by = f.by
      /\ DOMAIN s = { "rule", "by", "cat", "sev", "place", "conf" }
  BY DEF Scored
<1> HIDE DEF s
<1>2. /\ SuppressTestFP(s).rule = f.rule /\ SuppressTestFP(s).place = f.place
      /\ f.cat \notin { "secrets", "injection" } => SuppressTestFP(s).sev = f.sev
  BY <1>1 DEF SuppressTestFP
<1>3. CASE IsTestFile(kind)
  BY <1>2, <1>3 DEF JudgedFor, s
<1>4. CASE ~IsTestFile(kind)
  BY <1>1, <1>4 DEF JudgedFor, s
<1> QED
  BY <1>3, <1>4

\* The report of a scan is finite, a rule is in it once and only where an analyser reported it.
LEMMA EngineOnce ==
    ASSUME NEW raw, ReportsOfLine(raw), NEW lost, NEW kind
    PROVE  LET found == RunEngine(raw, lost, kind) IN
           /\ IsFiniteSet(found)
           /\ \A g, h \in found : g.rule = h.rule => g = h
<1> DEFINE found == RunEngine(raw, lost, kind)
           A == KeptReports(raw, lost)
<1>1. IsFiniteSet(A) /\ A \subseteq raw
  BY FS_Subset DEF ReportsOfLine, KeptReports
<1>2. IsFiniteSet({ JudgedFor(f, kind) : f \in A })
  <2> DEFINE T == { JudgedFor(f, kind) : f \in A }
             judge == [f \in A |-> JudgedFor(f, kind)]
  <2>1. judge \in Surjection(A, T)
    BY DEF Surjection
  <2> QED
    BY <1>1, <2>1, FS_Surjection
<1>3. found \subseteq { JudgedFor(f, kind) : f \in A }
  BY EngineReports
<1>4. IsFiniteSet(found)
  BY <1>2, <1>3, FS_Subset
<1>5. ASSUME NEW g \in found, NEW h \in found, g.rule = h.rule PROVE g = h
  <2>1. PICK f \in A : g = JudgedFor(f, kind)
    BY <1>3
  <2>2. PICK e \in A : h = JudgedFor(e, kind)
    BY <1>3
  <2>3. f.rule = e.rule
    BY <1>5, <2>1, <2>2, JudgedKeeps
  <2> QED
    BY <1>1, <2>1, <2>2, <2>3, OneReport
<1> QED
  BY <1>4, <1>5

\* A critical report of an analyser that answered is in the report of the scan.
LEMMA CriticalStays ==
    ASSUME NEW raw, ReportsOfLine(raw), NEW lost, "builtin" \notin lost, NEW kind \in FileKinds,
           NEW f \in raw, f.sev = "critical", ~f.place.nosec, kind # "testdata",
           ~(IsTestFile(kind) /\ f.cat \in { "secrets", "injection" })
    PROVE  \E g \in RunEngine(raw, lost, kind) : g.rule = f.rule /\ g.sev = "critical"
<1> DEFINE g == JudgedFor(f, kind)
<1>1. f.by = { "builtin" } /\ f.place \in Places
  BY DEF ReportsOfLine, IsReport, Reported
<1>2. f \in KeptReports(raw, lost)
  BY <1>1 DEF KeptReports
<1>3. g.rule = f.rule /\ g.sev = "critical" /\ g.place = f.place
  BY JudgedKeeps
<1>4. Confidence(f.sev, f.by) = 650
  <2>1. Cardinality({ "builtin" }) = 1
    BY FS_Singleton
  <2> QED
    BY <1>1, <2>1 DEF Confidence, BaseConfidence, AnalyzerWeight, Clamp
<1>5. SnippetConfidence[f.place.snippet] \in { 50, -50, 0 }
  BY <1>1, DualEngineAssumption DEF SnippetConfidence
<1>6. g.conf >= 300
  <2> DEFINE s == Scored(f, kind)
  <2>1. s.conf = Clamp(650 - ContextPenalty[kind] + SnippetConfidence[f.place.snippet])
        /\ s.cat = f.cat /\ DOMAIN s = { "rule", "by", "cat", "sev", "place", "conf" }
    BY <1>4 DEF Scored, ConfidenceWithFile
  <2> HIDE DEF s
  <2>2. CASE IsTestFile(kind)
    <3>1. ContextPenalty[kind] \in { 150, 0 }
      BY <2>2 DEF IsTestFile, ContextPenalty
    <3>2. s.conf \in 450 .. 700
      BY <1>5, <2>1, <3>1 DEF Clamp
    <3>3. SuppressTestFP(s).conf = s.conf \/ SuppressTestFP(s).conf = Clamp(s.conf - 150)
      BY <2>1, <2>2 DEF SuppressTestFP
    <3>4. g = SuppressTestFP(s)
      BY <2>2 DEF JudgedFor, s
    <3> QED
      BY <3>2, <3>3, <3>4 DEF Clamp
  <2>3. CASE ~IsTestFile(kind)
    <3>1. ContextPenalty[kind] \in { 0, 200, 300 }
      BY <2>3 DEF IsTestFile, FileKinds, ContextPenalty
    <3>2. g = s
      BY <2>3 DEF JudgedFor, s
    <3> QED
      BY <1>5, <2>1, <3>1, <3>2 DEF Clamp
  <2> QED
    BY <2>2, <2>3
<1> HIDE DEF g
<1>7. g \in RunEngine(raw, lost, kind)
  <2>1. g \in { JudgedFor(x, kind) : x \in KeptReports(raw, lost) }
    BY <1>2 DEF g
  <2> QED
    BY <1>3, <1>6, <2>1, EngineReports
<1> QED
  BY <1>3, <1>7

\* The deductions are numbers, and the model's are none where it scores nothing.
LEMMA DeductedIsNat ==
    ASSUME NEW count \in [DOMAIN Deduction -> Nat]
    PROVE  /\ Deducted(count) \in Nat
           /\ (\A sev \in DOMAIN Deduction \ { "info" } : count[sev] = 0) => Deducted(count) = 0
<1>1. DOMAIN Deduction = { "critical", "high", "medium", "low", "info" }
      /\ Deduction.critical = 25 /\ Deduction.high = 15 /\ Deduction.medium = 10 /\ Deduction.low = 5
  BY DEF Deduction
<1>2. count.critical \in Nat /\ count.high \in Nat /\ count.medium \in Nat /\ count.low \in Nat
  BY <1>1
<1>3. Deducted(count) = 25 * count.critical + 15 * count.high + 10 * count.medium + 5 * count.low
  BY <1>1 DEF Deducted
<1>4. (\A sev \in DOMAIN Deduction \ { "info" } : count[sev] = 0) =>
          count.critical = 0 /\ count.high = 0 /\ count.medium = 0 /\ count.low = 0
  BY <1>1
<1>5. ASSUME NEW a \in Nat, NEW b \in Nat, NEW c \in Nat, NEW d \in Nat
      PROVE  25 * a + 15 * b + 10 * c + 5 * d \in Nat
             /\ (a = 0 /\ b = 0 /\ c = 0 /\ d = 0 => 25 * a + 15 * b + 10 * c + 5 * d = 0)
  OBVIOUS
<1>6. Deducted(count) \in Nat
  BY <1>2, <1>3, <1>5
<1>7. ASSUME \A sev \in DOMAIN Deduction \ { "info" } : count[sev] = 0 PROVE Deducted(count) = 0
  <2>1. count.critical = 0 /\ count.high = 0 /\ count.medium = 0 /\ count.low = 0
    BY <1>4, <1>7
  <2> QED
    BY <1>3, <2>1
<1> QED
  BY <1>6, <1>7

LEMMA CountsOfASet ==
    ASSUME NEW found, IsFiniteSet(found)
    PROVE  Deducted(CountOf(found)) \in Nat
<1>1. \A sev \in DOMAIN Deduction : Cardinality({ f \in found : f.sev = sev }) \in Nat
  <2> SUFFICES ASSUME NEW sev \in DOMAIN Deduction
               PROVE  Cardinality({ f \in found : f.sev = sev }) \in Nat
    OBVIOUS
  <2>1. { f \in found : f.sev = sev } \subseteq found
    OBVIOUS
  <2> QED
    BY <2>1, FS_Subset, FS_CardinalityType
<1>2. CountOf(found) \in [DOMAIN Deduction -> Nat]
  BY <1>1 DEF CountOf
<1> QED
  BY <1>2, DeductedIsNat

LEMMA CountsOfAList ==
    ASSUME NEW list \in Seq(EngineFindings)
    PROVE  /\ Deducted(CountIn(list)) \in Nat
           /\ (\A i \in DOMAIN list : list[i].sev = "info") => Deducted(CountIn(list)) = 0
<1>0. IsFiniteSet(DOMAIN list)
  BY LenProperties, FS_Interval
<1>1. \A sev \in DOMAIN Deduction : Cardinality({ i \in DOMAIN list : list[i].sev = sev }) \in Nat
  <2> SUFFICES ASSUME NEW sev \in DOMAIN Deduction
               PROVE  Cardinality({ i \in DOMAIN list : list[i].sev = sev }) \in Nat
    OBVIOUS
  <2>1. { i \in DOMAIN list : list[i].sev = sev } \subseteq DOMAIN list
    OBVIOUS
  <2> QED
    BY <1>0, <2>1, FS_Subset, FS_CardinalityType
<1>2. CountIn(list) \in [DOMAIN Deduction -> Nat]
  BY <1>1 DEF CountIn
<1>3. ASSUME \A i \in DOMAIN list : list[i].sev = "info", NEW sev \in DOMAIN Deduction \ { "info" }
      PROVE  CountIn(list)[sev] = 0
  <2>1. { i \in DOMAIN list : list[i].sev = sev } = {}
    BY <1>3
  <2> QED
    BY <2>1, FS_EmptySet DEF CountIn
<1> QED
  BY <1>2, <1>3, DeductedIsNat

\* The score of both engines is that of the scanner's findings, less what the model's take off.
LEMMA ScoreOfBoth ==
    ASSUME NEW found, IsFiniteSet(found), NEW list \in Seq(EngineFindings)
    PROVE  /\ DeepScore(found, list) <= GradeFromFindings(found)
           /\ (\A i \in DOMAIN list : list[i].sev = "info") =>
                 DeepScore(found, list) = GradeFromFindings(found)
<1> DEFINE d == Deducted(CountOf(found))
           m == Deducted(CountIn(list))
<1>1. d \in Nat /\ m \in Nat
  BY CountsOfASet, CountsOfAList
<1>2. (\A i \in DOMAIN list : list[i].sev = "info") => m = 0
  BY CountsOfAList
<1>3. DeepScore(found, list) = ScoreFrom(d + m) /\ GradeFromFindings(found) = ScoreFrom(d)
  BY DEF DeepScore, GradeFromFindings
<1> HIDE DEF d, m
<1>4. m = 0 => d + m = d
  BY <1>1
<1>5. ScoreFrom(d + m) <= ScoreFrom(d)
  BY <1>1 DEF ScoreFrom
<1> QED
  BY <1>2, <1>3, <1>4, <1>5

\* What a call of /middleware/process for the scanned code can find.
ProcessCalls(raw, kind) == { [found |-> RunEngine(raw, lost, kind), lost |-> lost] : lost \in SUBSET Analysers }

\* The calls that found something of a rule.
CallsWith(t) == { i \in DOMAIN checked.processed : \E f \in checked.processed[i].found : f.rule = t }

CheckedFields == { "at", "file", "raw", "scanScore", "det", "lost", "llm", "score", "processed", "skills" }

(***************************************************************************)
(* ScansAgree rests on what the endpoints computed being what the engine   *)
(* makes of the reports of one line of code, and on a rule reporting it    *)
(* once.                                                                   *)
(***************************************************************************)
ScanInv ==
    /\ DOMAIN checked = CheckedFields
    /\ checked.file \in FileKinds /\ ReportsOfLine(checked.raw)
    /\ \A f \in checked.raw : f.by \subseteq Analysers
    /\ checked.llm \in Seq(EngineFindings) \cup { Unfinished, Failed }
    /\ checked.at # "new" => checked.scanScore = GradeFromFindings(RunEngine(checked.raw, {}, checked.file))
    /\ checked.at \in { "deep", "answered" } =>
          "builtin" \notin checked.lost /\ checked.det = RunEngine(checked.raw, checked.lost, checked.file)
    /\ checked.at = "answered" =>
          checked.llm # Unfinished
          /\ checked.score = DeepScore(checked.det, IF checked.llm = Failed THEN <<>> ELSE checked.llm)
    /\ checked.processed \in Seq(ProcessCalls(checked.raw, checked.file))
    /\ checked.at = "new" => checked.processed = <<>>
    /\ DOMAIN checked.skills =
          { f.rule : f \in UNION { call.found : call \in ToSet(checked.processed) } }
    /\ \A t \in DOMAIN checked.skills : checked.skills[t] = Cardinality(CallsWith(t))

LEMMA ScanStart == DualEngineInit => ScanInv
<1> SUFFICES ASSUME DualEngineInit PROVE ScanInv
  OBVIOUS
<1>1. checked = [at |-> "new", file |-> "plain", raw |-> {}, scanScore |-> 100,
                 det |-> {}, lost |-> {}, llm |-> Unfinished, score |-> 100,
                 processed |-> <<>>, skills |-> <<>>]
  BY DEF DualEngineInit
<1>2. /\ DOMAIN checked = CheckedFields /\ checked.at = "new" /\ checked.file = "plain" /\ checked.raw = {}
      /\ checked.llm = Unfinished /\ checked.processed = <<>> /\ checked.skills = <<>>
  BY <1>1 DEF CheckedFields
<1>3. "plain" \in FileKinds /\ ReportsOfLine({})
  BY FS_EmptySet DEF FileKinds, ReportsOfLine
<1>4. ToSet(checked.processed) = {} /\ DOMAIN checked.skills = {}
  BY <1>2 DEF ToSet
<1>5. DOMAIN checked.skills = { f.rule : f \in UNION { call.found : call \in ToSet(checked.processed) } }
  BY <1>4
<1>6. checked.processed \in Seq(ProcessCalls(checked.raw, checked.file))
  BY <1>2, EmptySeq
<1> QED
  BY <1>2, <1>3, <1>4, <1>5, <1>6 DEF ScanInv

\* What BuiltinAnalyzer, BanditAnalyzer and SemgrepAnalyzer find in a line.
LEMMA AnalysersReport ==
    ASSUME NEW kind \in FileKinds, NEW place \in Places, NEW x \in BuiltinFinds(kind, place),
           NEW y \in BanditFinds(place), NEW z \in SemgrepFinds(place)
    PROVE  ReportsOfLine(x \cup y \cup z) /\ \A f \in x \cup y \cup z : f.by \subseteq Analysers
<1> DEFINE Fine(f) == IsReport(f) /\ f.place = place /\ f.by \subseteq Analysers
<1>1. ASSUME NEW tool \in Analysers, NEW cat, NEW sev \in DOMAIN SeverityRank,
             sev = "critical" => tool = "builtin"
      PROVE  Fine(Reported(tool, cat, sev, place))
  <2> DEFINE f == Reported(tool, cat, sev, place)
  <2>1. /\ f.rule = <<tool, cat, sev>> /\ f.by = { tool } /\ f.cat = cat /\ f.sev = sev /\ f.place = place
    BY DEF Reported
  <2>2. f.rule[1] = tool
    BY <2>1
  <2> QED
    BY <1>1, <2>1, <2>2 DEF IsReport
<1>2. \A r \in BuiltinRules : r[2] \in DOMAIN SeverityRank
  <2>1. { "critical", "high", "medium", "low" } \subseteq DOMAIN SeverityRank
    BY DEF SeverityRank
  <2>2. \A r \in BuiltinRules : r[2] \in { "critical", "high", "medium", "low" }
    BY DEF BuiltinRules, InjectionRules, PythonRules, SecretsRules, CryptoRules, PathRules, SSRFRules,
           DeserializationRules, DisclosureRules, PermissionRules, QualityRules
  <2> QED
    BY <2>1, <2>2
<1>3. ToolLevels \subseteq DOMAIN SeverityRank \ { "critical" }
  BY DualEngineAssumption DEF SeverityRank
<1>4. x = {} \/ \E f : x = { f } /\ Fine(f)
  <2>1. x = {} \/ \E r \in BuiltinRules : x = { Reported("builtin", r[1], r[2], place) }
    BY DEF BuiltinFinds
  <2>2. "builtin" \in Analysers
    BY DEF Analysers
  <2> HIDE DEF Fine
  <2> QED
    BY <1>1, <1>2, <2>1, <2>2
<1>5. y = {} \/ \E f : y = { f } /\ Fine(f)
  <2>1. y = {} \/ \E sev \in ToolLevels : y = { Reported("bandit", "test", sev, place) }
    BY DEF BanditFinds
  <2>2. "bandit" \in Analysers
    BY DEF Analysers
  <2> HIDE DEF Fine
  <2> QED
    BY <1>1, <1>3, <2>1, <2>2
<1>6. z = {} \/ \E f : z = { f } /\ Fine(f)
  <2>1. z = {} \/ \E sev \in ToolLevels : z = { Reported("semgrep", "security", sev, place) }
    BY DEF SemgrepFinds
  <2>2. "semgrep" \in Analysers
    BY DEF Analysers
  <2> HIDE DEF Fine
  <2> QED
    BY <1>1, <1>3, <2>1, <2>2
<1>7. \A f \in x \cup y \cup z : Fine(f)
  <2> HIDE DEF Fine
  <2> QED
    BY <1>4, <1>5, <1>6
<1>8. IsFiniteSet(x) /\ IsFiniteSet(y) /\ IsFiniteSet(z)
  <2>1. ASSUME NEW s, s = {} \/ \E f : s = { f } PROVE IsFiniteSet(s)
    BY <2>1, FS_EmptySet, FS_Singleton
  <2> HIDE DEF Fine
  <2>2. (x = {} \/ \E f : x = { f }) /\ (y = {} \/ \E f : y = { f }) /\ (z = {} \/ \E f : z = { f })
    BY <1>4, <1>5, <1>6
  <2> QED
    BY <2>1, <2>2
<1>9. IsFiniteSet(x \cup y \cup z)
  BY <1>8, FS_Union
<1> QED
  BY <1>7, <1>9 DEF ReportsOfLine

\* A call of /middleware/process: its findings are learnt once each.
LEMMA CallCounted ==
    ASSUME ScanInv, checked.at # "new", NEW lost \in SUBSET Analysers, checked' = RunMiddlewarePipeline(lost)
    PROVE  ScanInv'
<1> DEFINE raw == checked.raw
           kind == checked.file
           found == RunEngine(raw, lost, kind)
           call == [found |-> found, lost |-> lost]
           p == checked.processed
           Sources(ps) == { f.rule : f \in UNION { c.found : c \in ToSet(ps) } }
           calls == ProcessCalls(raw, kind)
           n == Len(p)
<1>1. /\ DOMAIN checked' = CheckedFields
      /\ checked'.at = "processed" /\ checked'.file = kind /\ checked'.raw = raw /\ checked'.llm = checked.llm
      /\ checked'.scanScore = checked.scanScore
      /\ checked'.processed = Append(p, call) /\ checked'.skills = ExtractFromFindings(found, checked.skills)
  BY DEF ScanInv, RunMiddlewarePipeline, CheckedFields
<1>2. p \in Seq(calls) /\ call \in calls
  BY DEF ScanInv, ProcessCalls
<1>3. IsFiniteSet(found) /\ \A g, h \in found : g.rule = h.rule => g = h
  BY EngineOnce DEF ScanInv
<1> HIDE DEF found, calls
<1>4. /\ Append(p, call) \in Seq(calls) /\ Len(Append(p, call)) = n + 1
      /\ \A i \in 1 .. n : Append(p, call)[i] = p[i]
      /\ Append(p, call)[n + 1] = call
      /\ DOMAIN p = 1 .. n /\ DOMAIN Append(p, call) = 1 .. n + 1 /\ n \in Nat
  BY <1>2, AppendProperties, LenProperties
<1> DEFINE q == Append(p, call)
           Of(t) == { f \in found : f.rule = t }
<1>5. ToSet(q) = ToSet(p) \cup { call }
  BY <1>4 DEF ToSet
<1>6. Sources(q) = Sources(p) \cup { f.rule : f \in found }
  <2> HIDE DEF p, q
  <2>1. call.found = found
    OBVIOUS
  <2> HIDE DEF call
  <2>2. ASSUME NEW r PROVE r \in Sources(q) <=> r \in Sources(p) \/ \E f \in found : f.rule = r
    <3>1. r \in Sources(q) <=> \E c \in ToSet(q) : \E f \in c.found : f.rule = r
      OBVIOUS
    <3>2. r \in Sources(p) <=> \E c \in ToSet(p) : \E f \in c.found : f.rule = r
      OBVIOUS
    <3> HIDE DEF Sources
    <3> QED
      BY <1>5, <2>1, <3>1, <3>2
  <2> HIDE DEF Sources
  <2> QED
    BY <2>2
<1> DEFINE old == checked.skills
           new == ExtractFromFindings(found, old)
<1>7. DOMAIN new = Sources(q)
  BY <1>6 DEF ExtractFromFindings, NormalizeTrigger, ScanInv
<1>8. \A t \in DOMAIN new : new[t] = Cardinality(Of(t)) + (IF t \in DOMAIN old THEN old[t] ELSE 0)
  BY DEF ExtractFromFindings, NormalizeTrigger
<1> DEFINE With(ps, t) == { i \in DOMAIN ps : \E f \in ps[i].found : f.rule = t }
<1>9. ASSUME NEW t \in DOMAIN new PROVE new[t] = Cardinality(With(q, t))
  <2>1. IsFiniteSet(With(p, t)) /\ n + 1 \notin With(p, t)
    <3>1. With(p, t) \subseteq 1 .. n /\ IsFiniteSet(1 .. n)
      BY <1>4, FS_Interval
    <3>2. n + 1 \notin 1 .. n
      BY <1>4
    <3> HIDE DEF With
    <3> QED
      BY <3>1, <3>2, FS_Subset
  <2>2. (IF t \in DOMAIN old THEN old[t] ELSE 0) = Cardinality(With(p, t))
    <3>1. CASE t \in DOMAIN old
      BY <3>1 DEF ScanInv, CallsWith
    <3>2. CASE t \notin DOMAIN old
      <4>1. t \notin Sources(p)
        BY <3>2 DEF ScanInv
      <4>2. With(p, t) = {}
        BY <4>1 DEF ToSet
      <4> QED
        BY <3>2, <4>2, FS_EmptySet
    <3> QED
      BY <3>1, <3>2
  <2>3. CASE Of(t) = {}
    <3>1. With(q, t) = With(p, t)
      BY <1>4, <2>3
    <3>2. Cardinality(Of(t)) = 0
      BY <2>3, FS_EmptySet
    <3>3. Cardinality(With(p, t)) \in Nat
      BY <2>1, FS_CardinalityType
    <3> HIDE DEF With, Of
    <3> QED
      BY <1>8, <2>2, <3>1, <3>2, <3>3
  <2>4. CASE Of(t) # {}
    <3>1. PICK f \in found : f.rule = t
      BY <2>4
    <3>2. Of(t) = { f }
      BY <1>3, <3>1
    <3>3. Cardinality(Of(t)) = 1
      BY <3>2, FS_Singleton
    <3>4. With(q, t) = With(p, t) \cup { n + 1 }
      BY <1>4, <3>1
    <3>5. Cardinality(With(p, t)) \in Nat
      BY <2>1, FS_CardinalityType
    <3>6. Cardinality(With(q, t)) = Cardinality(With(p, t)) + 1
      <4> HIDE DEF With
      <4> QED
        BY <2>1, <3>4, FS_AddElement
    <3> HIDE DEF With, Of
    <3> QED
      BY <1>8, <2>2, <3>3, <3>5, <3>6
  <2> QED
    BY <2>3, <2>4
<1>10. \A t \in DOMAIN checked'.skills : checked'.skills[t] = Cardinality(CallsWith(t)')
  BY <1>1, <1>9 DEF CallsWith
<1>11. checked'.processed \in Seq(ProcessCalls(checked'.raw, checked'.file))
  BY <1>1, <1>4 DEF calls
<1>12. DOMAIN checked'.skills = Sources(checked'.processed)
  BY <1>1, <1>7
<1>13. /\ checked.file \in FileKinds /\ ReportsOfLine(checked.raw)
       /\ \A f \in checked.raw : f.by \subseteq Analysers
       /\ checked.llm \in Seq(EngineFindings) \cup { Unfinished, Failed }
       /\ checked.scanScore = GradeFromFindings(RunEngine(checked.raw, {}, checked.file))
  BY DEF ScanInv
<1> HIDE DEF p, q, call, new, old, n, With, Of
<1> QED
  BY <1>1, <1>10, <1>11, <1>12, <1>13 DEF ScanInv

LEMMA ToolsMayFail ==
    ASSUME ScanInv, NEW lost \in SUBSET Fallible
    PROVE  lost \in SUBSET Analysers /\ "builtin" \notin lost
<1>1. \A f \in checked.raw : f.by \subseteq Analysers
  BY DEF ScanInv
<1>2. Fallible \subseteq Analysers /\ "builtin" \notin Fallible
  BY <1>1 DEF Fallible
<1> QED
  BY <1>2

\* Nothing that the calls of /middleware/process rest on changes.
LEMMA SkillsStay ==
    ASSUME ScanInv, DOMAIN checked' = CheckedFields,
           checked'.processed = checked.processed, checked'.skills = checked.skills
    PROVE  /\ DOMAIN checked'.skills =
                { f.rule : f \in UNION { call.found : call \in ToSet(checked'.processed) } }
           /\ \A t \in DOMAIN checked'.skills : checked'.skills[t] = Cardinality(CallsWith(t)')
  BY DEF ScanInv, CallsWith

LEMMA ScansKeep ==
    ASSUME ScanInv, EndpointsNext \/ UNCHANGED checked
    PROVE  ScanInv'
<1>1. /\ DOMAIN checked = CheckedFields /\ checked.file \in FileKinds /\ ReportsOfLine(checked.raw)
      /\ \A f \in checked.raw : f.by \subseteq Analysers
      /\ checked.llm \in Seq(EngineFindings) \cup { Unfinished, Failed }
      /\ checked.processed \in Seq(ProcessCalls(checked.raw, checked.file))
  BY DEF ScanInv
<1>2. CASE ScanHandler
  <2>1. PICK kind \in FileKinds, place \in Places :
          \E x \in BuiltinFinds(kind, place), y \in BanditFinds(place), z \in SemgrepFinds(place) :
             checked' = [checked EXCEPT !.at = "scanned", !.file = kind, !.raw = x \cup y \cup z,
                              !.scanScore = GradeFromFindings(RunEngine(x \cup y \cup z, {}, kind))]
    BY <1>2 DEF ScanHandler
  <2>2. PICK raw : /\ ReportsOfLine(raw) /\ \A f \in raw : f.by \subseteq Analysers
                   /\ checked' = [checked EXCEPT !.at = "scanned", !.file = kind, !.raw = raw,
                                     !.scanScore = GradeFromFindings(RunEngine(raw, {}, kind))]
    BY <2>1, AnalysersReport
  <2>3. /\ DOMAIN checked' = CheckedFields /\ checked'.at = "scanned" /\ checked'.file = kind
        /\ checked'.raw = raw /\ checked'.scanScore = GradeFromFindings(RunEngine(raw, {}, kind))
        /\ checked'.llm = checked.llm /\ checked'.processed = checked.processed
        /\ checked'.skills = checked.skills
    BY <1>1, <2>2 DEF CheckedFields
  <2>4. checked'.processed = <<>>
    BY <1>2, <2>3 DEF ScanHandler, ScanInv
  <2>5. checked'.processed \in Seq(ProcessCalls(checked'.raw, checked'.file))
    BY <2>4, EmptySeq
  <2>6. checked'.at # "new" /\ checked'.at \notin { "deep", "answered" }
    BY <2>3
  <2> QED
    BY <1>1, <2>2, <2>3, <2>5, <2>6, SkillsStay DEF ScanInv
\* The code keeps its reports and its score.
<1>3. ASSUME DOMAIN checked' = CheckedFields, checked.at # "new", checked'.at # "new",
             checked'.file = checked.file, checked'.raw = checked.raw,
             checked'.scanScore = checked.scanScore, checked'.processed = checked.processed,
             checked'.skills = checked.skills,
             checked'.llm \in Seq(EngineFindings) \cup { Unfinished, Failed },
             checked'.at \in { "deep", "answered" } => /\ "builtin" \notin checked'.lost
                /\ checked'.det = RunEngine(checked.raw, checked'.lost, checked.file),
             checked'.at = "answered" => /\ checked'.llm # Unfinished
                /\ checked'.score = DeepScore(checked'.det, IF checked'.llm = Failed THEN <<>> ELSE checked'.llm)
      PROVE  ScanInv'
  <2>1. checked'.scanScore = GradeFromFindings(RunEngine(checked'.raw, {}, checked'.file))
    BY <1>3 DEF ScanInv
  <2>2. checked'.processed \in Seq(ProcessCalls(checked'.raw, checked'.file))
    BY <1>1, <1>3
  <2> QED
    BY <1>1, <1>3, <2>1, <2>2, SkillsStay DEF ScanInv
<1>4. CASE DeepScans
  <2>1. PICK lost \in SUBSET Fallible :
          checked' = [checked EXCEPT !.at = "deep", !.lost = lost,
                                     !.det = RunEngine(checked.raw, lost, checked.file)]
    BY <1>4 DEF DeepScans
  <2>2. /\ DOMAIN checked' = CheckedFields /\ checked'.at = "deep" /\ checked'.file = checked.file
        /\ checked'.raw = checked.raw /\ checked'.scanScore = checked.scanScore
        /\ checked'.llm = checked.llm /\ checked'.processed = checked.processed
        /\ checked'.skills = checked.skills /\ checked'.lost = lost
        /\ checked'.det = RunEngine(checked.raw, lost, checked.file)
    BY <1>1, <2>1 DEF CheckedFields
  <2>3. checked.at = "scanned" /\ "builtin" \notin lost
    BY <1>4, ToolsMayFail DEF DeepScans
  <2> QED
    BY <1>1, <1>3, <2>2, <2>3
<1>5. CASE DeepAsks
  <2>1. PICK answer \in Seq(EngineFindings) \cup { Failed } : checked' = [checked EXCEPT !.llm = answer]
    <3>1. << Finding("analysis", "info") >> \in Seq(EngineFindings)
      BY PlainFinding
    <3>2. DeepAnswers \subseteq Seq(EngineFindings)
      BY AnswersAreFindings
    <3> QED
      BY <1>5, <3>1, <3>2 DEF DeepAsks
  <2>2. /\ DOMAIN checked' = CheckedFields /\ checked'.at = checked.at /\ checked'.file = checked.file
        /\ checked'.raw = checked.raw /\ checked'.scanScore = checked.scanScore
        /\ checked'.llm = answer /\ checked'.processed = checked.processed
        /\ checked'.skills = checked.skills /\ checked'.lost = checked.lost /\ checked'.det = checked.det
    BY <1>1, <2>1 DEF CheckedFields
  <2>3. checked.at \in { "scanned", "deep" }
    BY <1>5 DEF DeepAsks
  <2>4. checked'.at = "deep" => /\ "builtin" \notin checked'.lost
                /\ checked'.det = RunEngine(checked.raw, checked'.lost, checked.file)
    BY <2>2 DEF ScanInv
  <2> QED
    BY <1>3, <2>2, <2>3, <2>4
<1>6. CASE DeepAnswer
  <2> DEFINE list == IF checked.llm = Failed THEN <<>> ELSE checked.llm
             total == DeepScore(checked.det, list)
  <2>1. checked' = [checked EXCEPT !.at = "answered", !.score = total]
        /\ checked.at = "deep" /\ checked.llm # Unfinished
    BY <1>6 DEF DeepAnswer
  <2> HIDE DEF total
  <2>2. /\ DOMAIN checked' = CheckedFields /\ checked'.at = "answered" /\ checked'.file = checked.file
        /\ checked'.raw = checked.raw /\ checked'.scanScore = checked.scanScore
        /\ checked'.llm = checked.llm /\ checked'.processed = checked.processed
        /\ checked'.skills = checked.skills /\ checked'.lost = checked.lost /\ checked'.det = checked.det
        /\ checked'.score = total
    BY <1>1, <2>1 DEF CheckedFields
  <2>3. /\ "builtin" \notin checked'.lost
        /\ checked'.det = RunEngine(checked.raw, checked'.lost, checked.file)
    BY <2>1, <2>2 DEF ScanInv
  <2>4. checked'.score = DeepScore(checked'.det, IF checked'.llm = Failed THEN <<>> ELSE checked'.llm)
    BY <2>2 DEF total
  <2> QED
    BY <1>1, <1>3, <2>1, <2>2, <2>3, <2>4
<1>7. CASE MiddlewareProcess
  <2>1. checked.at # "new" /\ \E lost \in SUBSET Fallible : checked' = RunMiddlewarePipeline(lost)
    BY <1>7 DEF MiddlewareProcess
  <2> QED
    BY <2>1, ToolsMayFail, CallCounted
<1>8. CASE UNCHANGED checked
  BY <1>8 DEF ScanInv, CallsWith
<1> QED
  BY <1>2, <1>4, <1>5, <1>6, <1>7, <1>8 DEF EndpointsNext

LEMMA ScansAlwaysAgree == ScanInv => ScansAgree
<1> SUFFICES ASSUME ScanInv PROVE ScansAgree
  OBVIOUS
<1>1. ASSUME checked.at \in { "deep", "answered" }, NEW f \in checked.raw,
             f.sev = "critical", ~f.place.nosec, checked.file # "testdata",
             ~(IsTestFile(checked.file) /\ f.cat \in { "secrets", "injection" })
      PROVE  \E g \in checked.det : g.rule = f.rule /\ g.sev = "critical"
  BY <1>1, CriticalStays DEF ScanInv
<1>2. ASSUME checked.at = "answered", checked.lost = {}
      PROVE  /\ checked.score <= checked.scanScore
             /\ NothingScored(checked.llm) => checked.score = checked.scanScore
  <2> DEFINE found == RunEngine(checked.raw, {}, checked.file)
             list == IF checked.llm = Failed THEN <<>> ELSE checked.llm
  <2>1. checked.score = DeepScore(found, list) /\ checked.scanScore = GradeFromFindings(found)
    BY <1>2 DEF ScanInv
  <2>2. IsFiniteSet(found)
    BY EngineOnce DEF ScanInv
  <2>3. list \in Seq(EngineFindings)
    BY <1>2, EmptySeq DEF ScanInv
  <2>4. NothingScored(checked.llm) => \A i \in DOMAIN list : list[i].sev = "info"
    BY DEF NothingScored
  <2> HIDE DEF found, list
  <2> QED
    BY <2>1, <2>2, <2>3, <2>4, ScoreOfBoth
<1>3. ASSUME NEW i \in DOMAIN checked.processed, checked.processed[i].lost = {}
      PROVE  GradeFromFindings(checked.processed[i].found) = checked.scanScore
  <2>1. checked.processed[i] \in ProcessCalls(checked.raw, checked.file)
    BY LenProperties, ElementOfSeq DEF ScanInv
  <2>2. checked.processed[i].found = RunEngine(checked.raw, {}, checked.file)
    BY <1>3, <2>1 DEF ProcessCalls
  <2>3. checked.at # "new"
    BY DEF ScanInv
  <2> QED
    BY <2>2, <2>3 DEF ScanInv
<1>4. \A t \in DOMAIN checked.skills : checked.skills[t] = Cardinality(
          { i \in DOMAIN checked.processed : \E f \in checked.processed[i].found : f.rule = t })
  BY DEF ScanInv, CallsWith
<1>5. DOMAIN checked.skills = { f.rule : f \in UNION { call.found : call \in ToSet(checked.processed) } }
  BY DEF ScanInv
<1> QED
  BY <1>1, <1>2, <1>3, <1>4, <1>5 DEF ScansAgree

--------------------------------------------------------------------------------
(* The two ways generated code is judged *)

(***************************************************************************)
(* RequestPipeline, DualEngine: for any number of concurrent calls, blocks *)
(* and findings, what the critic rejected is not returned as accepted, and *)
(* no finding is lost or weakened on its way to a verdict or a score.      *)
(***************************************************************************)
THEOREM VerdictsAlwaysSound == GeneratedCodeSpec => []VerdictsSound
<1> DEFINE JudgedInv == PipelineInv /\ EngineInv /\ ScanInv
<1>1. GeneratedCodeInit => JudgedInv
  BY PipelineStart, EngineStart, ScanStart DEF GeneratedCodeInit
<1>2. JudgedInv /\ [GeneratedCodeNext]_<<gatewayVars, checked, pipelineVars>> => JudgedInv'
  <2> SUFFICES ASSUME JudgedInv, [GeneratedCodeNext]_<<gatewayVars, checked, pipelineVars>>
               PROVE  JudgedInv'
    OBVIOUS
  <2>1. [RequestPipelineNext]_pipelineVars
    BY DEF GeneratedCodeNext
  <2>2. [GatewayNext]_gatewayVars
    BY DEF GeneratedCodeNext, EndpointsNext, ScanHandler, DeepScans, DeepAsks, DeepAnswer, MiddlewareProcess
  <2>3. EndpointsNext \/ UNCHANGED checked
    BY DEF GeneratedCodeNext, GatewayNext, DeterministicReturns, LLMReturns, MergeBlock, ComputeOutcome
  <2> QED
    BY <2>1, <2>2, <2>3, PipelineKept, EnginesKeep, ScansKeep
<1>3. JudgedInv => VerdictsSound
  BY PipelineSound, VerdictRestsOnAll, ScansAlwaysAgree
     DEF VerdictsSound, FindingsSurvive, VerdictRests
<1> QED
  BY <1>1, <1>2, <1>3, PTL DEF GeneratedCodeSpec
================================================================================
