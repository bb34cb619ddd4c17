--------------------------- MODULE ServerLifecycle ---------------------------
(***************************************************************************)
(* The life of one process: main in cmd/api/main.go, server.New and        *)
(* Server.Shutdown, with the goroutines New starts.                        *)
(*                                                                         *)
(* New opens the database, Redis and NATS in this order, retrying each,    *)
(* and closes what is open when one of them fails; in development a server *)
(* runs without them.  Shutdown cancels what New started through three     *)
(* different means: the shutdown context, the router, and a cleanup        *)
(* function that was wrapped once per goroutine.  None of them waits for   *)
(* the goroutine; closing the pool waits for the connections they hold,    *)
(* and HotReloader.Stop waits for a channel only Start closes.             *)
(*                                                                         *)
(* Opening the database migrates it: with other pods, as in Database.      *)
(***************************************************************************)
EXTENDS Database

CONSTANTS
    MaxDBAttempts,      \* attempts outside development: 10 for the database,
    MaxAttemptsOther,   \* 5 for Redis and NATS
    PoolConns           \* connections of the pool

ASSUME LifecycleAssumption ==
    /\ MaxDBAttempts \in Nat \ { 0 } /\ MaxAttemptsOther \in Nat \ { 0 }
    /\ PoolConns \in Nat \ { 0 }

VARIABLES
    env,        \* server.env
    mainAt,     \* where main is
    attempt,    \* the attempt of the current connection
    link,       \* [Conns -> "none", "open", "closing" or "closed"]
    started,    \* the goroutines that were started and may run
    busy,       \* those with a statement in progress
    told,       \* workers whose context is cancelled
    chain,      \* what srv.cleanup will cancel
    watcher,    \* the goroutine of HotReloader.Start
    blind,      \* Stop ran before Start had set hr.cancel
    inHTTP,    \* an HTTP request in progress: "none", "short" or "stream"
    exit        \* how the process ended

lifecycleVars == <<env, mainAt, attempt, link, started, busy, told, chain, watcher,
                   blind, inHTTP, exit>>

Backends == { "db", "redis", "nats" }

\* The goroutines, by what stops them; a task's goroutine and the key clean-up at
\* start-up run with context.Background(), and the loops over in-memory tables of
\* the middleware end with the process.
OfShutdownCtx == { "health", "email", "flags" }
OfRouter == { "lockout", "hitl", "hub" }
OfCleanup == { "telemetry", "purger", "sessions", "keys" }
Endless == { "accountLoop", "idempotencyLoop", "loginLoop", "keyLoop" }
Workers == OfShutdownCtx \cup OfRouter \cup OfCleanup \cup Endless \cup { "startup", "task" }
UseDB == { "flags", "purger", "sessions", "keys", "startup", "task" }

Envs == { "development", "staging", "production" }
Defects == { "unreadable", "invalid", "insecure" }

Dev == env = "development"
AttemptsFor(c) == IF Dev THEN 1 ELSE IF c = "db" THEN MaxDBAttempts ELSE MaxAttemptsOther

LifecycleInit ==
    /\ env \in Envs
    /\ mainAt = "load"
    /\ attempt = 1
    /\ link = [c \in Backends |-> "none"]
    /\ started = {}
    /\ busy = {}
    /\ told = {}
    /\ chain = {}
    /\ watcher = "off"
    /\ blind = FALSE
    /\ inHTTP = "none"
    /\ exit = "no"

(* Mutants *)

\* The wrapper of the last goroutine forgets the function it wraps.
CleanupChainLast(telemetry) ==
    IF link["db"] = "open" THEN { "keys" } ELSE telemetry

------------------------------------------------------------------------------

Exit(how) == mainAt' = "exited" /\ exit' = how

Load(defects) == "unreadable" \notin defects
ValidateProductionEnv(isSet, defects) == isSet => "insecure" \notin defects
Validate(defects) == /\ "invalid" \notin defects
                     /\ env = "production" => "insecure" \notin defects
ValidateProduction(defects) == env = "production" => "insecure" \notin defects

\* main: the four checks before server.New, which validates once more.  The second
\* looks at VIGILAGENT_ENV, which need not say what server.env says.
LoadConfig ==
    /\ mainAt = "load"
    /\ \E defects \in SUBSET Defects, isSet \in BOOLEAN :
          IF /\ Load(defects) /\ ValidateProductionEnv(isSet, defects)
             /\ Validate(defects) /\ ValidateProduction(defects)
          THEN mainAt' = "db" /\ UNCHANGED exit
          ELSE Exit("error")
    /\ UNCHANGED <<env, attempt, link, started, busy, told, chain, watcher, blind, inHTTP>>

After(c) == CASE c = "db" -> "migrate" [] c = "redis" -> "nats" [] c = "nats" -> "wire"

\* NewPostgres, NewRedis and NewNATS close what they opened before they fail.
Connect(c) ==
    /\ mainAt = c /\ c \in Backends
    /\ link' = [link EXCEPT ![c] = "open"]
    /\ mainAt' = After(c) /\ attempt' = 1
    /\ UNCHANGED <<env, started, busy, told, chain, watcher, blind, inHTTP, exit>>

\* What New closes when the last attempt at c failed.
CloseOpened == [c \in Backends |-> IF link[c] = "open" THEN "closed" ELSE link[c]]

ConnectFails(c) ==
    /\ mainAt = c /\ c \in Backends
    /\ \/ /\ attempt < AttemptsFor(c)
          /\ attempt' = attempt + 1
          /\ UNCHANGED <<mainAt, link, exit>>
       \/ /\ attempt = AttemptsFor(c) /\ Dev
          /\ mainAt' = (IF c = "db" THEN "redis" ELSE After(c)) /\ attempt' = 1
          /\ UNCHANGED <<link, exit>>
       \/ /\ attempt = AttemptsFor(c) /\ ~Dev
          /\ link' = CloseOpened
          /\ Exit("error")
          /\ UNCHANGED attempt
    /\ UNCHANGED <<env, started, busy, told, chain, watcher, blind, inHTTP>>

\* runMigrations (module Database) and recoverStuckTasks, whose error is logged.
RunMigrations ==
    /\ mainAt = "migrate"
    /\ \/ mainAt' = "redis" /\ UNCHANGED <<link, exit>>
       \/ link' = CloseOpened /\ Exit("error")
    /\ UNCHANGED <<env, attempt, started, busy, told, chain, watcher, blind, inHTTP>>

\* The function Shutdown calls: each goroutine's cancel around the one before.
CleanupChain(telemetry) ==
    IF link["db"] = "open" THEN telemetry \cup { "purger", "sessions", "keys" } ELSE telemetry

\* What the router's constructors start.  The in-memory lockout, for a server without
\* Redis, has a loop of its own and the one initHandlers gives a context.
NewRouter == IF link["redis"] = "open" THEN {} ELSE { "accountLoop" }
InitSecurityDependencies == { "idempotencyLoop", "loginLoop", "keyLoop" }
InitHandlers == IF link["redis"] = "open" THEN {} ELSE { "lockout" }

NewWithMiddleware == NewRouter \cup InitSecurityDependencies \cup InitHandlers
NewDefault == NewRouter \cup InitSecurityDependencies \cup InitHandlers \cup { "hub" }

\* With allowed origins configured, NewWithMiddleware; the queue of the checkpoints
\* is made for both.
BuildRouter(cors) == { "hitl" } \cup IF cors THEN NewWithMiddleware ELSE NewDefault

\* The rest of New: services, router and goroutines.  Without a database nothing
\* that needs one is started.
Wire ==
    /\ mainAt = "wire"
    /\ \E telemetry \in { {}, { "telemetry" } }, cors \in BOOLEAN :
          LET db == IF link["db"] = "open" THEN { "flags", "purger", "sessions", "keys", "startup" } ELSE {}
          IN  /\ started' = { "health", "email" } \cup db \cup BuildRouter(cors) \cup telemetry
              /\ chain' = CleanupChain(telemetry)
    /\ watcher' = "spawned"
    /\ mainAt' = "serving"
    /\ UNCHANGED <<env, attempt, link, busy, told, blind, inHTTP, exit>>

\* GET /ready: every connection configured and its health check passed.
Readiness(unhealthy) == \A c \in Backends : link[c] = "open" /\ c \notin unhealthy

\* SIGTERM before signal.Notify ends the process where it is.
KilledEarly ==
    /\ mainAt \in { "load", "db", "migrate", "redis", "nats", "wire" }
    /\ Exit("killed")
    /\ UNCHANGED <<env, attempt, link, started, busy, told, chain, watcher, blind, inHTTP>>

------------------------------------------------------------------------------

\* Goroutines.  A tick's statement needs a connection of the open pool; with a
\* closed one, or a cancelled context, it returns an error at once.
WorkerTicks(w) ==
    /\ w \in (started \cap UseDB) \ (busy \cup told)
    /\ link["db"] = "open" /\ mainAt # "exited" /\ Cardinality(busy) < PoolConns
    /\ busy' = busy \cup { w }
    /\ UNCHANGED <<env, mainAt, attempt, link, started, told, chain, watcher, blind, inHTTP, exit>>

\* The start-up clean-up runs one statement; the others go back to their select,
\* where a cancelled one returns: it does not tick again.
TickReturns(w) ==
    /\ w \in busy
    /\ busy' = busy \ { w }
    /\ started' = IF w = "startup" THEN started \ { w } ELSE started
    /\ UNCHANGED <<env, mainAt, attempt, link, told, chain, watcher, blind, inHTTP, exit>>

\* HotReloader.Start sets hr.cancel and waits for its context.
StartWatch ==
    /\ watcher = "spawned" /\ mainAt # "exited" /\ watcher' = "watching"
    /\ UNCHANGED <<env, mainAt, attempt, link, started, busy, told, chain, blind, inHTTP, exit>>

WatchEnds ==
    /\ watcher = "cancelled" /\ watcher' = "ended"
    /\ UNCHANGED <<env, mainAt, attempt, link, started, busy, told, chain, blind, inHTTP, exit>>

\* Requests while the listener is open; POST /tasks leaves a goroutine behind.
RequestArrives(kind) ==
    /\ mainAt = "serving" /\ inHTTP = "none"
    /\ inHTTP' = kind
    /\ UNCHANGED <<env, mainAt, attempt, link, started, busy, told, chain, watcher, blind, exit>>

RequestEnds(kind) ==
    /\ inHTTP = kind /\ mainAt # "exited"
    /\ inHTTP' = "none"
    /\ \/ UNCHANGED started
       \/ kind = "short" /\ started' = started \cup { "task" }
    /\ UNCHANGED <<env, mainAt, attempt, link, busy, told, chain, watcher, blind, exit>>

------------------------------------------------------------------------------

\* A signal, or ListenAndServe fails: main goes on to httpServer.Shutdown.
Quit ==
    /\ mainAt = "serving" /\ mainAt' = "drain"
    /\ UNCHANGED <<env, attempt, link, started, busy, told, chain, watcher, blind, inHTTP, exit>>

HTTPShutdown ==
    /\ mainAt = "drain" /\ inHTTP = "none" /\ mainAt' = "cancel"
    /\ UNCHANGED <<env, attempt, link, started, busy, told, chain, watcher, blind, inHTTP, exit>>

\* A request outlives the 30 seconds: os.Exit(1), without Server.Shutdown.
HTTPShutdownFails ==
    /\ mainAt = "drain" /\ inHTTP # "none" /\ Exit("forced")
    /\ UNCHANGED <<env, attempt, link, started, busy, told, chain, watcher, blind, inHTTP>>

ShutdownCancel ==
    /\ mainAt = "cancel" /\ mainAt' = "router"
    /\ told' = told \cup OfShutdownCtx
    /\ UNCHANGED <<env, attempt, link, started, busy, chain, watcher, blind, inHTTP, exit>>

RouterShutdown ==
    /\ mainAt = "router" /\ mainAt' = "reload"
    /\ told' = told \cup OfRouter
    /\ UNCHANGED <<env, attempt, link, started, busy, chain, watcher, blind, inHTTP, exit>>

\* HotReloader.Stop reads hr.cancel, calls it if it is set and waits for done.
StopReload ==
    /\ mainAt = "reload" /\ mainAt' = "reloadWait"
    /\ watcher' = IF watcher = "watching" THEN "cancelled" ELSE watcher
    /\ blind' = (watcher = "spawned")
    /\ UNCHANGED <<env, attempt, link, started, busy, told, chain, inHTTP, exit>>

ReloadStopped ==
    /\ mainAt = "reloadWait" /\ watcher = "ended" /\ mainAt' = "cleanup"
    /\ UNCHANGED <<env, attempt, link, started, busy, told, chain, watcher, blind, inHTTP, exit>>

RunCleanup ==
    /\ mainAt = "cleanup" /\ mainAt' = "natsDrain"
    /\ told' = told \cup chain
    /\ UNCHANGED <<env, attempt, link, started, busy, chain, watcher, blind, inHTTP, exit>>

\* Drain, or Close when it fails or takes 10 seconds; then Redis.
CloseQueues ==
    /\ mainAt = "natsDrain" /\ mainAt' = "closeDB"
    /\ link' = [c \in Backends |-> IF c # "db" /\ link[c] = "open" THEN "closed" ELSE link[c]]
    /\ UNCHANGED <<env, attempt, started, busy, told, chain, watcher, blind, inHTTP, exit>>

\* pgxpool's Close refuses new statements ...
CloseDB ==
    /\ mainAt = "closeDB" /\ mainAt' = "closed"
    /\ link' = [link EXCEPT !["db"] = IF @ = "open" THEN "closing" ELSE @]
    /\ UNCHANGED <<env, attempt, started, busy, told, chain, watcher, blind, inHTTP, exit>>

\* ... and waits for the connections in use; then main returns.
PoolClosed ==
    /\ mainAt = "closed" /\ busy = {}
    /\ link' = [link EXCEPT !["db"] = IF @ = "closing" THEN "closed" ELSE @]
    /\ Exit("clean")
    /\ UNCHANGED <<env, attempt, started, busy, told, chain, watcher, blind, inHTTP>>

MainStep ==
    \/ LoadConfig \/ RunMigrations \/ Wire
    \/ \E c \in Backends : Connect(c) \/ ConnectFails(c)
    \/ HTTPShutdown \/ HTTPShutdownFails \/ ShutdownCancel \/ RouterShutdown \/ StopReload
    \/ ReloadStopped \/ RunCleanup \/ CloseQueues \/ CloseDB \/ PoolClosed

LifecycleNext ==
    \/ MainStep \/ KilledEarly \/ Quit \/ StartWatch \/ WatchEnds
    \/ \E w \in Workers : WorkerTicks(w) \/ TickReturns(w)
    \/ \E k \in { "short", "stream" } : RequestArrives(k) \/ RequestEnds(k)

LifecycleSpec == LifecycleInit /\ [][LifecycleNext]_lifecycleVars

------------------------------------------------------------------------------

(***************************************************************************)
(* New and Shutdown.  On every path that is not cut short (a signal during *)
(* start-up, a request that outlives the 30 seconds) the process ends with *)
(* no connection open, whichever step of New failed.  When the pool is     *)
(* closed in Shutdown, every goroutine that sends statements on a timer    *)
(* has been told to stop, although three mechanisms share the work, and a  *)
(* clean exit has told every other goroutine that can be told.  A server   *)
(* outside development that serves is ready unless a health check fails.   *)
(***************************************************************************)
ShutdownReleases ==
    /\ exit \in { "clean", "error" } => \A c \in Backends : link[c] \in { "none", "closed" }
    /\ exit # "error" /\ link["db"] \in { "closing", "closed" } =>
          (started \cap UseDB) \ { "startup", "task" } \subseteq told
    /\ exit = "clean" => started \ (Endless \cup { "startup", "task" }) \subseteq told
    /\ mainAt = "serving" /\ ~Dev => Readiness({})

\* NewPostgres and Shutdown: the pods' migrations, and what one process opens and closes.
StartAndStop == AppliedOnceInOrder /\ ShutdownReleases

(***************************************************************************)
(* main.  A start-up ends in a serving process or an exit, and a shutdown  *)
(* ends, whatever requests and statements are in progress: unless Stop ran *)
(* before the goroutine of HotReloader.Start had set hr.cancel, when it    *)
(* waits for a channel nobody will close.                                  *)
(***************************************************************************)
LifecycleEnds ==
    /\ mainAt = "load" ~> mainAt \in { "serving", "exited" }
    /\ mainAt = "drain" ~> (mainAt = "exited" \/ blind)
==============================================================================
