# VigilAgent: TLA+ models and proofs

VigilAgent is a Go server that runs coding agents: a task is planned by an LLM,
its steps call tools, some of them only after a human approved, and the whole is
metered by budgets and protected by circuit breakers. Around it are an LLM
gateway that scans generated code, review and scan services, accounts, webhooks,
streams, and an editor extension with an MCP server. This directory holds TLA+
models of the parts of `src/` where the difficulty is concurrency, failure or
ordering, the TLC configurations that check them on small instances, and TLAPS
proofs for every size. `PROJECT.json` maps each definition to the lines it
models and lists components, runs, mutants, findings, hazards and theorems.

To check a run: `tlc -workers 2 -config <cfg> <MC module>`.
To check the proofs: `tlapm <module>_proofs.tla`.

## 1. Inventory

| Component | Source (`src/internal/...`) | State | Operations | Talks to |
|---|---|---|---|---|
| Task state machine | `agent/state.go` | state, retry count, current step | `Transition` | fired by the agent loop |
| Agent loop | `agent/agent.go` | plan, loop index, tokens, results | `ExecuteTask`: plan, gate, execute, reflect, review | LLM router, tools, HITL queue, `OnStateChange` callback |
| Human-in-the-loop queue | `middleware/hitl.go` | pending map, decision channels, Redis mirror | `Submit`, `Decide`, `markTimeout`, `expiryChecker`, `Close` | the agent waits in `Submit`; humans call `DecideHandler` |
| Task service | `router/tasks.go`, `router/hitl_handlers.go`, `router/batch.go`, `repository/task.go` | row of `tasks`, semaphore, goroutine | create, batch, cancel, approve/reject, recover | runs the agent; every writer updates the same row |
| Circuit breaker | `llm/circuit_breaker.go` | state, failure count, probes | `Execute`, `IsOpen`, `Reset` | one per provider, in the router |
| Model router | `llm/provider.go`, `llm/health.go`, `llm/cache.go`, `llm/*.go` adapters | health, breakers, cache, two channels per stream | `Route`, `ExecuteWithFailover`, `StreamWithFailover`, health checks | breaker, budget manager, providers |
| Budget manager | `cost/budget.go`, `cost/store.go` | usage in memory and in `budget_usage` | `CheckBudget`, `RecordCost`, `ensureLoaded` | asked before and told after each LLM request |
| Streams and sockets | `router/websocket.go`, `router/tasks.go`, `websocket/` | channel per task, connections and their users | register, broadcast, unregister, pumps | fed by `OnStateChange` and handlers |
| Webhook engine | `webhook/` | delivery slots, retry timers, endpoint cache, log | dispatch, deliver, retry, replay | fed by task events |
| Idempotency | `middleware/idempotency.go`, `idempotency/` | entry per key | reserve, wait, store, evict | wraps handlers |
| Task queue worker | `queue/` | in-flight messages | publish, fetch, ack, redeliver | NATS; only tests construct it |
| Rate limiting | `middleware/ratelimit.go` | windows, counters, quotas in Redis | allow, count, meter | wraps handlers |
| Accounts | `auth/`, `middleware/blacklist.go`, `middleware/lockout.go`, `email/`, `router/router.go` | tokens, blacklist, lockouts, keys | login, refresh, logout, verify, reset, rotate | database, Redis |
| Tenants | `router/router.go`, `router/org_handlers.go`, `router/permissions.go`, `repository/` | tree of rows | create, read, change, delete, list, dashboards | database |
| Database access | `database/` | pool, breaker, schema version and its lock | acquire, query, migrate | every handler |
| Response cache | `middleware/cache.go` | entries in order of use | look up, store, invalidate | wraps handlers |
| Memory manager | `memory/` | working memory, its copy in Redis, episodes, patterns | remember, recall | handlers |
| LLM gateway | `proxy/` | requests in flight, quotas, provenance | forward, hold back, scan, judge, attest | providers, scanner |
| Scanners | `scanner/`, `router/scan_handlers.go`, `router/middleware_wiring.go`, `skillengine/` | findings, learned skills | scan, grade, learn | gateway, review, endpoints |
| Request pipeline | `middleware/middleware.go`, `retry/`, `critic/`, `cache/`, `feedback/`, `extraction/` | answer cache, records | `Process` | LLM, scanner; no production caller |
| Review pipeline | `pipeline/review.go` | code, findings, verdicts | generate, scan, review, fix | LLM, scanner |
| Configuration and flags | `config/`, `featureflags/` | current configuration, cached flags | watch, reload, get, set | file, database |
| Server lifecycle | `server/server.go`, `router/`, `cmd/api/main.go` | what is open and running | start, readiness, shutdown | everything |
| Editor extension | `vscode-extension/src/` | pending reviews, diagnostics, labels, a child process | schedule, scan, show, call a tool | backend, MCP server |
| MCP server | `mcp/server.go` | requests in flight | tool calls | editor, backend |

The rest (prompts, patterns, analysers of text, user interface, manifests,
command-line clients) is sequential, I/O or data; `PROJECT.json` lists each part
with its reason and section 7 sums them up.

What is hard, and what makes each part correct:

* **HITL queue.** A decision, the submitter's timer, the expiry checker and
  shutdown race for one entry, over a mutex that is released between removing
  the entry, updating Redis and closing the channel. Correct: one resolution
  wins, it is a permitted human's, the waiting agent hears that one, and always
  hears something.
* **Agent loop.** The loop goes on after the state machine refused an event, and
  reflection rewrites the plan while it is being executed. Correct: no guarded
  tool without an approval of that very step; the token budget stops the loop;
  completion and failure are earned.
* **Task service.** Four writers update a row without a condition; a slot is
  taken in a handler and given back in a goroutine; the process may die anywhere.
  Correct: slots are conserved, `completed` is never invented, an ended
  goroutine leaves a terminal row.
* **Breaker, router, budget.** Requests outlive the state they were admitted in,
  and the budget is checked seconds before it is charged. Correct: one probe per
  half-open period; the overshoot is bounded, all spend is accounted for, an
  execution the budget did not refuse tries every provider.
* **Whatever checks under one lock and acts under another** (tenants, lockouts,
  caches, flags, memory, idempotency, connection limits). Correct: the check
  still means something when the action comes, or what can go wrong is exactly
  an overlap with another request.
* **Whatever crosses a channel or a process** (streams, hub, webhooks, task
  queue, MCP). Correct: nothing vanishes without a reason the code names, late
  answers go to nobody else, and every waiter is released.
* **Whatever judges generated code** (gateway, engines, pipelines). Correct: what
  was withheld stays withheld, no severe finding is lost on the way to the
  verdict, and a report describes the code that is returned.
* **Start and stop.** Correct: each migration is applied once and in order by
  whichever pod, and an exit leaves nothing open.

## 2. Modules

| Module | Models | Kind |
|---|---|---|
| `AgentStateMachine` | `Transition`, `ValidTransitions`, `IsTerminal` | constant operators |
| `AgentLoop` | `ExecuteTask` for a set of tasks | component, extends the machine |
| `HITLCheckpoint` | what the queue promises for one checkpoint: opened, resolved once, answered and acknowledged faithfully | abstract specification |
| `HITLQueue` | the queue with its lock sections, channels, timers and Redis | component, refines `HITLCheckpoint` |
| `GatedAgent` | `waitHITLDecision` through `hitlAdapter` into the queue | composition of `AgentLoop` and `HITLQueue` |
| `TaskService` | handlers, goroutine, row, crash and recovery | composition over `AgentLoop` |
| `BreakerCore` | the lock sections of a breaker as operators | shared by the next two |
| `CircuitBreaker` | one breaker with concurrent callers | component |
| `ModelRouter` | routing, failover, health, cache and budget gate | composition over `BreakerCore` |
| `BudgetManager` | counters and table across restarts | component |
| `StreamRelay` | a streamed answer: producer, relay and reader goroutines | component |
| `Tenancy` | organisations down to events and tasks, with permissions and foreign keys | component |
| `Listing` | a client's walk over a changing list, in three ways of paging | component |
| `Database` | several pods migrating; requests over the pool and its breaker | two components |
| `Accounts` | lockout and login limiter; JWTs and emailed tokens; keys and their rotation | three components |
| `TaskStreams`, `Hub` | a task's event streams; the WebSocket hub | components |
| `Messaging` | the JetStream worker; webhook deliveries with retries | two components |
| `Middleware` | what keeps state between requests: idempotency keys, the response cache, limits and quotas | three components |
| `WorkingMemory` | the memory manager | component |
| `ProxyGate`, `DualEngine` | what leaves the gateway and when; the two analysis engines, the scanner and the three endpoints that grade or learn from its findings | components |
| `GeneratedCode` | the gateway's engines and the request pipeline's critic side by side | composition of `DualEngine` and `RequestPipeline` |
| `RequestPipeline`, `ReviewPipeline` | the request pipeline; the review with its reviewers and fixes | components |
| `HotReload` | configuration reload; feature flags | component |
| `ServerLifecycle` | start-up, wiring, readiness and shutdown of a process | component, extends `Database` for the migrations start-up runs |
| `AutoVerify`, `McpClient` | the editor's automatic review; its MCP client with the server's tools | components |
| `*_proofs` | theorems about the module of that name; `Spending_proofs` about `ModelRouter`, `BudgetManager` and `StreamRelay`, `RemoteCalls_proofs` about `CircuitBreaker`, `AutoVerify` and `McpClient`, `Access_proofs` about `Tenancy`, `Accounts` and `Listing`, `Services_proofs` about `Messaging`, `Middleware`, `WorkingMemory`, `ProxyGate`, `Hub`, `Database`, `HotReload`, `ReviewPipeline`, `ServerLifecycle` and `GeneratedCode` | proofs |
| `MC*` | the instances TLC checks | |

How state and actions correspond to the code:

**AgentLoop.** `pc[t]` is where the goroutine is in `ExecuteTask`; `machine[t]`
the `Task` value the state machine works on; `plan`, `index` and `tokens` the
local variables; `approved`, `steps` and `overrun` are history. One action per
stretch of code between two calls that may fail or wait: `Start`, `PlanTask`,
`EnterStep`, `RequireHITL`, `HITLAnswer`, `ExecuteStep`, `Reflect`, `LeaveLoop`,
`Review`. The LLM's plan is any sequence of tools up to `MaxPlan`, or the default
plan when it cannot be parsed; a tool succeeds, fails or needs a human. An event
the machine refuses leaves it as it is and the loop continues, as in the code.

**HITLQueue.** `pending`, `status` and `closed` are the map, the entry's decision
and its channel; `submit[c]` and `request[r]` are where the submitter and each
decide request are; `redisPending` is the mirrored set, whose writes may fail, and `strayed` the
history of what it may be wrong about: a checkpoint one of whose writes failed or
came late, or that the expiry checker, which writes nothing, removed.
Each lock section, each Redis write and each channel operation is one action.
`clock[c]` tells an entry past its `ExpiresAt`, which the checker's ticker looks
at, from one whose submitter's own timer has fired.

**TaskService.** `row[t]` is `tasks.status`; `job[t]` the create request and its
goroutine; `slots` the semaphore; `human[h]` a cancel, approve or reject request
between its read and its write. `Crash` loses memory and keeps the rows;
`ReplicaStarts` is another replica running `recoverStuckTasks` over stale rows.
`ColumnsFilled` says whether `FindByID` can read a row at all. In the code as it
stands it cannot: `Create` leaves `result`, `model`, `provider`, `complexity` and
`error` NULL, nothing ever writes `complexity`, and the scan into Go strings refuses
NULL (`repository/task.go:50-76`). So approving answers 404, and cancelling, reading
or streaming a task 403, for every task there is (`RowsAreFound`); the two list
queries scan the same columns. The run `task_service` takes `ColumnsFilled = TRUE`
with statements that may fail: its behaviours include those in which every read
fails, and it keeps checking the writes behind the read, which are dormant until the
columns have defaults. `Listing` (walks over tasks) and `TaskStreams` (opening a stream,
`Poll`) take rows to be readable too, which allows more than the code does.

**CircuitBreaker, ModelRouter.** `Enter` and `Exit` are the two lock sections of
`Execute`; the protected call runs between them. The router's `pc[c]` follows one
`ExecuteWithFailover` through `attempt`'s stages `gate`, `cache`, `budget`,
`chat`, `record`, `enter`, `exit` and `charge`. The ranking is any order of the
viable candidates, since scores depend on prices and prompts.

**BudgetManager.** Each lock section and each SQL statement is one action;
`spent` and `lost` are history. A response costs one unit.

**The other components** follow one scheme. A request, goroutine or timer is a
record whose `pc`-like field says between which two lock sections, statements,
channel operations or awaits it is; a lock section, a statement or the stretch up
to the next await is one action; shared state is a variable named after the
field or table it stands for. Faults are actions or inputs: a statement or a Redis
command that fails, a pod that crashes, a message delivered again, a process that
exits, hangs or answers late, a context that is cancelled, a handler that panics.
Times are counted in ticks that are left. A module's header says what the code
does at that place and what was decided about it; the comments of its actions
name the lines. Some less obvious choices:

* `Tenancy` splits a request into its permission check and its statement;
  `ON DELETE CASCADE` is part of the statement.
* The migrations of `Database` give every statement of the pool any idle session, so lock and
  unlock may miss each other; a session the pool closes drops its locks.
* `ProxyGate` keeps what has left the gateway for each request, chunk by chunk,
  next to what the verdict later says of it. A chunk is a fence, code, prose or one
  half of a fence that the provider cut; what the gate has let out, buffers and
  holds in closed blocks are sets of chunk numbers.
* `DualEngine` carries the rule tables of `scanner/builtin.go` as data (category,
  severity, kind of file) and the arithmetic of confidence and grade in full.
* `ServerLifecycle` lists which goroutine is told to stop by what: the shutdown
  context, the router, a wrapped cleanup function, or nothing.
* In `AutoVerify` a text is the number of the edit that made it. A change event
  is the range it replaced and the lines it put there.
* In `McpClient` a request that waits is one whose id a call or a start holds.

## 3. Runs

`CHECK_DEADLOCK FALSE` appears where the system really may come to rest (every
task returned, every request answered, the editor closed). Components that do not
interact share a run: `part` names the one a behaviour exercises, is chosen in the
initial state and never changes, and the variables of the others stand still. The
states of such a run are the sum, not the product, of its parts'. A property of
one part holds trivially in the behaviours of another, so checking them together
asks the same question of each as a run of its own would. Symmetry is used only with
invariants, over actors that occur in nothing but quantifiers: the two tasks of
`task_service`, the two administrators of `tenancy` and their two organisations, and in `services` the actors `u1`, `u2`, which are the clients of
the cache, the gateway and the limiter, the code blocks and the JWTs.

| Run | Checks | Instance and why it is enough |
|---|---|---|
| `human_loop` | `DecisionIntegrity`, `AnswerFaithful`, `NoLostWakeup`, `RedisMatchesPending`, `SubmitReturns`, `ImplementsPromise`; `AgentConsistent`, `HITLGated`, `ExecuteTaskReturns` | queue: one checkpoint, two requests by any of owner, admin, stranger, failing Redis. Entries do not interact except through the checker, which is per entry; two requests is the smallest race between humans. The proofs lift it to any number. Agent: plans up to four steps under a limit of three iterations, so the plan can be longer than the loop; two retries, so failures are spread over steps; a budget that runs out. 0.18 million states. |
| `gated_agent` | `HumanDecides`, `GatedTaskReturns` | one task of up to two steps, owner and stranger, two requests, failing Redis: a decision on each step, two racing on one, and a decision racing either expiry. 0.64 million states. |
| `task_service` | `ServiceConsistent`, `FinishedIsTerminal` | two interchangeable tasks over one slot, one human request that finds its row or fails to, failing statements, one crash, recoveries. One human suffices because its write races the goroutine and the recovery, the only other writers. 3.4 million states. |
| `model_router` | `FailoverSound`, `BudgetConsistent`, `AttemptsRunOut` | router: two executions for one task, two providers, threshold and budget of one, so both may pass the budget before either charges and a breaker opens under the other's feet. Budget manager: three requests on two tasks (two share one), failing loads and statements, one restart. 2.8 million states. |
| `remote_calls` | `BreakerConsistent`, `OneProbe`, `HalfOpenEnds`, `EditorSound`, `EditorEnds` | breaker: four callers, threshold three, so a straggler returns in every state. Review: three edits (paste, paste of a known block over lines, typing, deletion, undo) over two lives of the document, so a scan can outlive an edit and a close. MCP: two calls, three starts, a key that is rejected and healed, so answers and exits of two dead processes meet a live one. 0.28 million states. |
| `tenancy` | `TenantIsolation` | two administrators with an organisation each and one row of every kind below: every statement can meet a row, or an account, deleted since its check. 0.51 million states. |
| `services` | twelve invariants, below | two or three clients per service and limits of one or two, so that every limit is reached and passed and every check is separated from its action by another client's step. 1.35 million states over seventeen services. |
| `progress` | `StartAndStop`, `ReportMatchesOutput`, `StreamAccounted`, `RequestsAnswered`, `StreamsEnd`, `WorkEnds` | two pods, two migrations and two crashes; two batches and a public request over two connections (all connections held while all want another); two viewers and the creator on one channel of one event; reviews with two fixes; a stream of three pieces through buffers of one and two, with all three adapters; one process with two attempts per dependency. 0.13 million states. |

Several names are conjunctions, so that a run asks one question per component:

* `AgentConsistent`: types; the budget stops the loop (`BudgetStops`), completion
  is earned (`CompletedEarned`), failures are counted (`FailureAccounting`).
* `ServiceConsistent`: types, `SlotAccounting`, `CompletedAfterReturn`.
* `HumanDecides`: a guarded tool ran only after a permitted human approved that
  step (`HumanApproved`), and a refusal ends the task (`RefusalStops`).
* `BreakerConsistent`: types, `HalfOpenHasProbe`, `CountMatchesState`.
* `FailoverSound`: types, `TriesEveryProvider` (of executions the budget refused
  nothing; of the others `RefusalEnds` speaks), `OvershootBounded`.
* `BudgetConsistent`: types, `SpendAccounted`, `MemoryCoversStore`,
  `RestartKeepsBudget`.
* `CredentialsSound`: `CredentialsSpent`, `KeysKept`, `GuessesBounded`.
* `EditorSound`: `PendingKept`, `ShownOnScannedText`, `LabelsRight`, `OwnAnswer`,
  `ExitHarmless`. The last makes one exception. A start whose handshake times out
  leaves its process running, and forgets it; when that process exits during the
  next start, the client lets that start go too and a third one overtakes it, so
  what waits on the second is rejected by an exit while its process lives. That takes
  a third call; the invariant of the proof led to it.
* `StartAndStop`: `AppliedOnceInOrder`, `ShutdownReleases`.
* `WorkEnds`: `PodsServe`, `LifecycleEnds`, `ReviewEnds`, `ListenerEnds`,
  `ProducerEnds`.

In words: `DecisionIntegrity` says at most one request takes effect and it is a
permitted user's; `AnswerFaithful` that `Submit` returns what was recorded;
`NoLostWakeup` that a resolved checkpoint's channel is closed or somebody is on
the way to close it; `RedisMatchesPending` that, while Redis fails at will, its set
is wrong only about checkpoints a write of which failed or came late, or which the
expiry checker removed: what waits is listed, and what is resolved is listed only
until the goroutine that resolved it gets to its SREM. Of the services:

* `WalkComplete`: a finished walk over a list has shown every row that was there
  all along, also when the row its cursor names disappeared.
* `StaleOnlyByOverlap`: a stale cached body can only come from a handler that was
  reading while the write ran.
* `LostOnlyByOverlap`: a saved message is lost only to an `Add` in progress at the
  same time; no user is shown another's memory.
* `WithheldStaysWithheld`: strict mode lets nothing out before or against the
  decision; balanced mode holds back code on the paths that hold code at all.
* `VerdictsSound`: what the critic rejected is nowhere accepted; no scanner finding
  is lost or weakened before the verdict; the endpoints that grade agree.
* `LimitsExact`: request limits are exact, in both directions, while Redis answers.
* `CredentialsSound`: a token is not served after its logout was answered, emailed
  tokens serve once and for one purpose, rotation never leaves a user without a key,
  and wrong passwords beyond the limit are those that were past the check.
* `UserReached`: an authenticated connection the hub knows is known under its user.
* `FanOutBounded`: delivery slots and attempts are accounted for, and deleted
  endpoints drop out with the cache's life.
* `TasksKept`: a message leaves the queue only because a handler finished it.
* `ExecutedOnce`: while a key's entry lives its handler runs once, and repeats get
  that run's response.
* `ReloadsQuiesce`: nothing reloads after `Stop`; the applied configuration, and
  every cached flag, is current unless two of them overlapped.

Four runs expect a violation. Each states what a comment or document of the
repository says, and TLC shows what the code does instead:

| Run | What is said | What happens |
|---|---|---|
| `task_rows_found` | "Verify task exists and user has access" before "task not found" (`router/hitl_handlers.go:43-46`); `cancelTaskHandler` "cancels a running task" (`router/tasks.go:382`) | `FindByID` fails for every row `Create` made, so both answer as if the task did not exist |
| `task_recovery` | `recoverStuckTasks` "marks tasks stuck in non-terminal states for > 5 minutes as failed" (`server/server.go:617`) | its statement leaves out `reviewing`; a task that was in its review when the server died stays there |
| `budget_refusal` | a budget error is "returned without trying fallbacks" (`llm/provider.go:559-561`), "do not retry other providers" (`:596`) | `ExecuteWithFailover` goes on like after any error, and the last resort asks with an estimate of zero, so a provider gets the request |
| `auto_verify_region` | the region of a change is "the bulk-inserted region" (`vscode-extension/src/autoVerify.ts:217`) | it is the range the edit replaced, which is empty for an insertion: the pasted lines are not sent |

### Also seen while modelling

Each of these is in the model as the code does it; properties name it as an
exception where they would otherwise fail.

*Tasks, agent, models*

* the loop keeps executing steps after the machine is `failed`
  (`docs/ARCHITECTURE.md:291`, `agent/agent.go:249`), and the row is `completed`
  whenever `ExecuteTask` returns no error (`docs/ARCHITECTURE.md:290`);
* were the columns of a task filled, the write of an approval could follow the end of
  the task, since its test of the status is a statement of its own
  (`router/hitl_handlers.go:50-72`), and the row would go back to `executing`: the
  exception of `FinishedIsTerminal`. A cancel would only write the row while the
  goroutine goes on running tools;
* an approval through `POST /tasks/{id}/hitl` updates the row and never reaches
  the agent waiting in the queue (`router/hitl_handlers.go:72`);
* the breaker counts failures that were not consecutive
  (`docs/ARCHITECTURE.md:247`), and `attempt` refuses an open breaker before
  `Execute` could half-open it (`llm/provider.go:574`);
* the last resort does not look at health (`llm/provider.go:534`);
* a late successful `LoadUsage` overwrites costs recorded meanwhile, which is why
  `MemoryCoversStore` and `RestartKeepsBudget` assume no load failed
  (`cost/budget.go:83`);
* no error of a Redis write of the queue is looked at, `Submit` may list a checkpoint
  after it was decided, and the expiry checker never takes one off the set: the
  exceptions of `RedisMatchesPending`;
* a stream the provider breaks off is reported as finished, and adapters that
  send without a `select` leave a goroutine behind when the reader is gone.

*Requests and rows*

* `authMiddleware` pins a connection per request and a batch operation acquires a
  second one: only the 30 second `TimeoutHandler` resolves the wait; pinned
  statements bypass the database breaker, whose count is never reset while closed;
* the migration unlock may reach another session than the lock;
* the response cache is keyed by path and query and comes before authentication;
* idempotency keys are not scoped to a caller, and a handler that panics leaves
  its entry in `processing` until the TTL;
* the quota's metric "tasks" is never incremented; with the lockout in Redis an
  account without an entry (`redis.Nil`) counts as locked; the limiter's escalation level is lost by its clean-up;
* `changePassword` stores a user-level revocation that no installed middleware
  reads, although it answers that all sessions were invalidated; rotating an
  expired key makes a valid one; `JWTRotationMiddleware` compares paths without
  their prefix and never rotates; the admin role is taken from the token's claims;
* `SemanticStore.Search` scans ten variables from eleven columns; the columns of
  skills and alerts differ between repository and migrations; publishing never
  sets `is_published`; invitations are stored nowhere; audit runs before
  authentication with an empty user; overlapping ratings may miss each other in
  the aggregate.

*Streams, deliveries, background work*

* a send on a closed SSE channel panics and marks the task failed; a stream whose
  channel was closed by another spins until its next poll;
* `CanConnect` and `RegisterConnection` are separate lock sections, and the count
  is of upgrading handlers; with the default CORS configuration the hub is not
  constructed in production at all;
* a webhook event goes to the endpoints of every user; a deleted endpoint may get
  events for 30 seconds more;
* nothing outside tests constructs the task worker, and a message delivered
  `MaxDeliver` times has no dead letter;
* `HotReloader.Stop` before `Start` waits for ever; of two overlapping reloads the
  older may store last; a flag deleted by another instance stays cached;
* an open SSE stream makes shutdown run into its 30 seconds and `os.Exit(1)`; a
  signal before `signal.Notify` ends the process without closing anything; several
  clean-up loops are never stopped; environment "staging" has neither the checks
  of production nor the leniency of development.

*Generated code*

* in strict mode an output whose verdict is `require_acknowledgement` is released, as
  `TestEnforcePolicy` asserts (`proxy/verdict_test.go:123`). The comments read more
  strictly: nothing "until the scan policy produces an allow decision"
  (`proxy/proxy.go:1161`), a warning "only released with an explicit
  acknowledgement" (`:1172-1174`). `WithheldStaysWithheld` follows code and test;
* strict mode is not enforced on the direct fallback; a fence cut across two
  chunks is not recognised; streaming requests are not counted by the quota; a
  client that leaves the direct path skips the scan;
* `MergeFindings` drops a more severe finding of the model behind an earlier one
  of its category (`proxy/dualengine.go:504`); an answer of the model without
  findings becomes one informational finding;
* the scanner's fingerprints contain the rule, so findings of different tools never
  merge; `suppressTestFP` compares severities as strings; a tool that fails makes
  the same code score better; `/middleware/process` reports `pipeline_passed`
  without looking at the findings; an accepted outcome can lower a skill's
  confidence (`skillengine/engine.go:121`), and one for an unknown skill is
  answered "recorded";
* the request pipeline's cache never hits, since `Put` and `Get` build different
  keys; JSON from the critic without a score is a rejection while text that does
  not parse is an acceptance;
* the review drops schema and compliance reasons after a fix, calls the LLM for
  fixes in deterministic mode, lets keywords override an explicit pass
  (`parseReviewerOutput`), and in rewriting mode keeps suggestions on the lines of
  the code before its fixes.

*Editor*

* a label left by a cancelled gateway insertion may be used for a foreign paste
  (`docs/MANUAL_TESTING.md:399`); a keystroke within 1.5 seconds of a paste drops
  its scan; a dismissal suppresses later suggestions of the same role and line for
  good; results are shown after disabling; a scan that outlives closing and
  reopening may remove the new entry;
* a handshake that times out leaves its process running; requests to a killed
  process wait for their 120 seconds; the output buffer is shared by successive
  processes; a failed start forgets a newer one; disposing while the key is read
  starts a process nobody owns; a provider's 401 text triggers the key healing.

## 4. Fairness

Liveness is checked under weak fairness only, and never of an action that needs a
human, a client or a crash:

* a goroutine that can run, runs: `AgentStep`, `SubmitStep`, `DecideStep`,
  `Goroutine`, and in `progress` `MigrateStep`, `RequestStep`, `AgentGoes`,
  `CreateReturns`, `ReviewStep`, the steps of a stream's producer, relay and
  reader, `MainStep`, `WatchEnds`, `TickReturns`. Go schedules runnable
  goroutines; LLM requests, statements and tools end by themselves or by their
  timeout, and a request by `http.TimeoutHandler`;
* time passes: `PassExpiry`, `PassTimer`, `ConnReaped` (the pool closes
  connections by age). The submitter's timer is its own, so `SubmitReturns` and
  `GatedTaskReturns` hold with the expiry checker stopped;
* a `select` with several ready cases picks each with positive chance, so the
  ticker of `streamTaskHandler` is served (`Poll`) also next to a closed channel
  that is always ready;
* a protected call returns (`Exit`), and of the editor's parts: the debounce timer
  fires and HTTP requests time out (`ReviewGoesOn`), the 120 second timer of a
  request fires and the key is read (`McpStep`), and a tool of the MCP server ends
  by its deadline of 30 to 90 seconds (`OtherStep`). In `remote_calls` there is no
  fairness of new calls, edits or starts;
* `ServiceLiveSpec` adds that a handler that has read also writes. It is used for
  violation runs, where more fairness only makes the refutation stronger.

`AgentLoop` alone assumes that a checkpoint is answered; `GatedAgent` discharges
that assumption against the queue. `AttemptsRunOut` needs no fairness: it is a
measure that every step of an execution decreases.

## 5. Proofs

Eight modules hold theorems. They hold for every number of actors (tasks,
checkpoints, users, requests, callers, pods, rows, tokens) and every value of the
limits; the runs check the same properties on small instances. No theorem is about
an instance.

| Module | Theorems | Inductive invariant |
|---|---|---|
| `HITLQueue_proofs` | `TypeCorrect`, `OneDecision`, `FaithfulAnswers`, `WakeupsKept`, `RedisAlwaysMatches`, `QueueImplementsPromise` | `Inv`: `EntryInv` per checkpoint and `RequestInv` per request |
| `AgentLoop_proofs` | `AgentTypeCorrect`, `GatedByHumans`, `AgentAlwaysConsistent` | `AgentInv` (types and `GateInv`), `LedgerInv` |
| `GatedAgent_proofs` | `HumansAlwaysDecide`, `GatedImplementsParts`, `GatedPartsHold` | `Composition`: both parts' and `GatedInv` |
| `TaskService_proofs` | `ServiceAlwaysConsistent`, `FinishedAlwaysTerminal`, `ServiceGated` | `ServiceInv`, `CheckedRows` |
| `RemoteCalls_proofs` | `TypeCorrect`, `ProbeInFlight`, `StateMatchesCount`, `BreakerAlwaysConsistent`, `SingleProbe`, `EditorAlwaysSound` | `Inv`: `TypeOK`, `HalfOpenHasProbe` and `CountMatchesState` together; `ReviewInv`; `McpInv` |
| `Spending_proofs` | `BudgetAlwaysConsistent`, `FailoverAlwaysSound`, `AttemptsAlwaysRunOut`, `StreamAlwaysAccounted` | `BudgetInv`; `RouterInv`; `StreamInv` |
| `Access_proofs` | `TenantsAlwaysIsolated`, `GuessesAlwaysBounded`, `CredentialsAlwaysSound`, `WalksAlwaysComplete` | `TenancyInv`; `LoginInv`; `SessionsInv`, `KeysInv`; `WalkInv` |
| `Services_proofs` | `TasksAlwaysKept`, `AlwaysExecutedOnce`, `UserAlwaysReached`, `FanOutAlwaysBounded`, `MigrationsInOrder`, `ReloadsAlwaysQuiesce`, `ReportAlwaysMatches`, `ShutdownAlwaysReleases`, `StartsAndStopsSoundly`, `LimitsAlwaysExact`, `ServedOnlyStaleByOverlap`, `SavedUnlessOverlapped`, `GatewayKeepsItsWord`, `VerdictsAlwaysSound` | `QueueInv`; `IdemInv`; `HubInv`; `HooksInv`; `MigrateInv`; `ReloadInv`, `FlagsInv`; `ReviewInv`; `LifecycleInv`; `LimitsInv`; `CacheInv`; `MemoryInv`; `GatewayInv`; `PipelineInv`, `EngineInv`, `ScanInv` |

*Assumptions.* Those the modules declare, which TLC evaluates in every run: actors
that are counted form finite sets; limits are positive; every request has a task,
every model a provider, every checkpoint an owner; guarded tools are registered;
the default plan is not empty; a marker (`NoRow`, `NoToken`, `"absent"`) is no value;
`CheckpointAssumption`: every step of a task has a checkpoint of its own, as
`cp-<task>-<step>` gives it; and `TokenLife <= BlacklistTTL`, both 24 hours as
shipped. With a longer `jwt_expiration` a token would outlive its logout. In a
provider's text a chunk is code only after an odd number of fences, which is what
"code" means to the gate; an engine answers with a finite sequence of findings
of the severities `severityRank` knows.

*The queue.* None of the safety properties is inductive. That only one request
takes effect rests on three facts: an entry is in `pending` exactly while its
status is pending, a request that took effect left its own decision in the
status, and two requests that took effect on one entry are the same. That no
wakeup is lost needs to know who still has to close the channel: the submitter
in `unmarking`, or a request that has `decided` and not yet signalled. The same two
are those who still have to take a resolved checkpoint off the Redis set, which
gives `RedisMatchesPending`. The
refinement maps the abstract checkpoint to the entry's status, the submitter's
answer and the acknowledged requests. `SubmitStore` opens a checkpoint,
`DecideLock`, `MarkTimeout` and `ExpiryTick` resolve it, `SubmitReceive`,
`MarkFinish` and a `MarkTimeout` that finds it resolved answer it, `DecideSignal`
acknowledges, and every other step is a stutter.

*The agent.* `HITLGated` speaks of tools that ran. It is inductive only with the
fact that between the answer and the run (`pc = "exec"`) a guarded tool's step
is approved, that the loop index lies inside the plan there, and that steps that
ran lie before the index, so an approval is used once. `Reflect` changes only
later steps of the plan, after the current one ran. That completion is earned and
failures are counted needs `LedgerInv`: which machine states each stretch of the
loop can meet (the loop goes on after the machine has failed), that the machine's
step is the loop's, and that every retry it counted is a failed step.

*Agent and queue.* Every step of the composition is a step of each part or leaves
it alone (`GatedImplementsParts`); the one shared step is the answer, and what
`Submit` returns is among the answers `AgentLoop` assumed. So the theorems of the
parts hold of the whole (`GatedPartsHold`). What is new is `GatedInv`: an approved
step's checkpoint was answered "approve", and a checkpoint answered otherwise is
the one the agent is at, or the task has errored with no later step run.

*The task service.* `SlotAccounting` compares a counter with the set of jobs that
hold a slot; every handler and goroutine moves one job in or out of it and the
counter with it, and a crash empties both. `FinishedIsTerminal` needs that a
request which has read a row finds one when it writes, and that it got past its read
only if rows can be read (`CheckedRows`); its exception is empty while
`ColumnsFilled` is FALSE.

*Budget and router.* `BudgetInv` splits the spend of a key into what the table has,
what requests still owe it and what faults lost; the bound after a restart counts the
requests that were allowed and have not charged. In the router `Exposure` adds to
the usage what each call past the budget gate may still cost, and `CallInv` that the
providers not yet tried are in the rest of the queue. `AttemptsRunOut` is an action
property: the measure `Remaining` decreases with every step of a call.

*Tenants.* `TenantIsolation` relates a row to the owner of its organisation, while the
check and the statement of a request are separate and rows vanish between them. The
argument is that parent links never change once a row exists (`OwnerStays`), so the
owner that was checked is the owner of whatever the statement still finds; that the
rows a deletion cascades to are closed below (`CascadeClosed`), so no live row hangs
below a dead one; and that a pending request names rows of its owner (`CallsOwned`).

*Credentials.* A wrong password beyond the limit comes from a login that passed the
check before the lock: `LoginInv` counts those still on the way (`Guessing`) together
with those recorded. A token that was logged out has a blacklist entry that lasts at
least as long as the token (`BlacklistOutlives`), so a request that passes the
blacklist after it holds a token that is over. While a reset token is stored, the
passwords set with it are those of requests that have not yet deleted it, which with
the ones still to set one are at most all requests (`ResetsCounted`). Key creations
are counted like logins, and a rotation leaves a key without expiry (`LastingKey`).

*Services.* `QueueInv`: a waiting message has a delivery left. `IdemInv`: a key whose
handler was started has a live entry. `HubInv`: a connection enters the register
channel once, and its own meta knows the user from authentication on. `HooksInv`:
slots and retries are bounded together with what a delivery in backoff still has,
and the age of the cached list bounds when an endpoint in it was deleted.
`MigrateInv`: one pod at a time is past the advisory lock, on a session of its own.
`ReloadInv`: the wait group counts the goroutines past `Add`, so once `Start` found
none the context was done before any of them could begin to work; and while nothing
slipped, the file's version is still on its way or has arrived (`OnItsWay`).

*Stream, review, shutdown.* `StreamInv`: what the reader has, what waits in the two
channels and what the producer still has make up the answer (`PiecesInOrder`,
`RelayedArrives`), and which stage of the relay has recorded what (`TriesRecorded`).
`ReviewInv`: in every stage the last scan is of the current version
(`ScanIsCurrent`), every version but the first followed failing evidence
(`FixesEarned`), and what each stage may have cost adds up (`CallsBounded`).
`LifecycleInv`: which connections each place of `main` can meet open (`LinksKept`),
and whom each of the three ways of stopping has told by then (`EveryoneTold`).
`StartsAndStopsSoundly` joins it with `MigrationsInOrder` to the property the run
checks.

*Limits and cache.* `LimitsInv`: the sorted set holds only requests that were let
through, and all of those a window can still see; so what the script counts is what
the window passed, and the oldest member, whose existence for any set of times rests
on the well-founded order of the numbers (`LeastNatural`), gives the wait. In the
cache every entry was stored after the last write finished, since the end of a write
leaves no entry (`CacheInv`); `CutOut`, `PutLast` and `CutOff` say what the changes of
the list of use do to a list without repetitions, and `ListCounts` that its length is
the number of entries, which is why evicting by the list bounds the map.

*Memory and gateway.* `MemoryInv`: two `Add`s in progress overlap, and a message saved
without an overlap is in memory, in Redis and in every copy of the messages that is
still to be written (`Safe`), so no later write of a copy removes it. In the gateway
strict mode keeps a gate that has released nothing until the decision, whatever the
chunks (`RequestOK`); what balanced mode holds back rests on the gate being in code
exactly after an odd number of fences, as long as the provider cut none (`GateOK`), so
that no code chunk is among those let out (`HoldsBack`); each way of calling a provider scans the text itself, which is
why the fallback path, that starts again from the original body, has its constraints
too; and the store either has every record or is full of records (`RingInv`), each
there once.

*Generated code.* The pipeline stores an answer under another key than the one it
looks up, so no call is served from its cache (`NeverHit`), and the critic's verdict
stays with the response it was given for, through the regeneration (`CallOK`). For the
engines the order in which goroutines end cannot matter: what is collected is the
union of the merges of those that ended, and the errors are the models that failed
(`EngineInv`). A merge covers every finding of the scanners at no lower severity, and
those of the model but behind an earlier one of its category (`MergeCovers`). For the
endpoints (`ScanInv`), a rule reports once for a line (`OneReport`), so merging by
fingerprint loses nothing; a critical report stays in the engine's report
(`CriticalStays`), also when the other analysers fail; the deep score is that of the
same report, less what the model's findings take off (`ScoreOfBoth`); and a skill counts the calls
that found something of its rule (`CallCounted`).

*Editor and MCP client.* `ReviewInv`: a result is told from a late one by the
document's version, so a scan knows the text of the version it names, and a timer
armed for a matched block still has that block pending. `McpInv` has three parts. `IdsInv`: an
id is given once, so whatever a process still writes under the id of a call that waits
is that call's answer. `OneProcess`: while no handshake timed out the client
starts a process only when none lives. `NothingWaits`: nothing waits while a start
reads its keys, unless a call was repeated with another key. The first
carries `OwnAnswer`, the other two `ExitHarmless`.

*Walks.* `WalkInv`: every row that was in the list all along and that the walk has left
behind has been shown. What is behind a cursor is decided by the row's own place in
the order, so a cursor whose row is gone still divides the list; what is behind a page
number is decided by how many newer rows match, which holds only while no row leaves.

Every invariant and every action property of the runs that pass is stated by one of
these theorems. Only model-checked, on the instances above, is liveness, since
fairness and `ENABLED` are outside the prover: `SubmitReturns`, `ExecuteTaskReturns`,
`GatedTaskReturns`, `HalfOpenEnds`, `EditorEnds`, `RequestsAnswered`, `StreamsEnd` and
`WorkEnds`. The four runs that expect a violation have nothing to prove. What filters
and folds over sequences compute is not proved in general, which would take
induction over data; where a model needed such a value it is written as a set or a
choice (`CountOf`, `FirstOf`, `MergeFindings`), which says the same and can be
reasoned about.

## 6. Abstractions and limits

* Prompts, conversation, memories, prices, patterns and error texts are data
  without influence on the properties and are left out. A response costs one unit
  in `BudgetManager` and any of `Costs` in `ModelRouter`.
* Bounds are guards or saturations and are named in each module: `MaxPlan`,
  `MaxIter`, `MaxRetries`, `MaxTokens` (agent), `MaxFails` (the breaker's counter
  saturates above the threshold, where the code only compares), `MaxSpent`,
  `MaxUsage`, `MaxCrashes`, `MaxDBFaults`, `MaxEdits`, `MaxLives`, `MaxMoves`,
  `MaxStarts`, `MaxStreamTries`, `MaxFlagWrites`, `MaxProcessed`, `LastSecond`, and
  the finite sets of actors. Sizes that are configuration in the code (`MaxSize`,
  `MaxSlots`, `BufferSize`, `MaxConns`, `Quota` and the like) are constants with
  small values, so that the limit is met.
* Not modelled inside the covered components: the branches of `createTaskHandler`
  and `waitHITLDecision` for a server without an agent or a queue (a deployment
  has both); `planTask`'s error return, which no path reaches; cancellation of
  `ExecuteTask`'s context, which is `context.Background()`.
* The organisation budget is wired to zero and never limits anything; its
  counters are modelled, its limit is not.
* One process per model, except where processes share something: rows
  (`TaskService`), migrations, flags, rate limits and sessions in Redis. Pending
  checkpoints live in the memory of one replica; a decision that reaches another
  answers 404, which the model covers as a request that finds nothing.
* The rate limiter's script names a member of its sorted set by the second and
  `math.random()`. The model takes two requests' members to differ; a Redis that
  seeds the generator anew for every script makes those of one second coincide,
  and the window then counts them once.
* External behaviour (PostgreSQL's advisory locks and cascades, Redis commands,
  JetStream, viper's watcher, the editor's events) is modelled as the code uses it
  and marked external in `PROJECT.json` where it has a definition of its own.
* Parts that share a run do not interact in it. Where they interact in the code,
  the composition is a module: `GatedAgent`, `TaskService`, `ModelRouter` over
  `BreakerCore`, and `DualEngine` with the scanner under the endpoints.
  `GeneratedCode` puts two components that share nothing under one property.

## 7. Not modelled, and what is left

Left out, with the reasons `PROJECT.json` gives:

* the choice of a provider by key or model name in the gateway, request rewriting
  and anomaly headers: functions of one request's text;
* `openapi.go`, the skills marketplace, alerts, billing, integrations, the audit
  log: documents, or single statements behind the permission checks of `Tenancy`;
* cost intelligence: nothing in production feeds it;
* `POST /validate-full`, `StaleWhileRevalidate`, the retrying helpers of
  `database/`, `configdrift`: sequential, or without a production caller;
* signatures, scopes, CSRF tokens, address filters, compression, tracing: computed
  from one request;
* panels, chat rendering and the browser extension; the command-line programs;
  deployment manifests.

What is left to prove is liveness. What is left to model is listed above; of it,
the choice of a provider in the gateway is the part closest to the modelled code.
