------------------------------- MODULE Database --------------------------------
(*****************************************************************************)
(* The database under the server: its schema, brought up by the pods as they *)
(* start, and the connections the requests share. The two share no state.    *)
(*****************************************************************************)
EXTENDS Integers, Sequences, FiniteSetsExt

--------------------------------------------------------------------------------
(* The schema *)

(***************************************************************************)
(* database.Migrate (internal/database/migrate.go) run by several pods     *)
(* that start at the same time (NewServer, cmd/migrate up).  The advisory  *)
(* lock belongs to a database session, and every pool.Exec takes whichever *)
(* connection is idle: AfterRelease gives connections back from another    *)
(* goroutine, so two statements in a row need not share a session.  The    *)
(* unlock may miss the session that holds the lock, which then keeps it    *)
(* until the pool closes that connection.                                  *)
(***************************************************************************)

CONSTANTS
    Pods,
    Sessions,       \* connections of one pod's pool
    Versions,       \* number of migration files
    MaxCrashes,     \* bound on crashes and failed statements
    NoSession

ASSUME MigrationsAssumption ==
    Versions \in Nat /\ MaxCrashes \in Nat /\ NoSession \notin Pods \X Sessions

VARIABLES
    step,           \* [Pods -> where Migrate is]
    file,           \* [Pods -> the migration it is at]
    wait,           \* [Pods -> session its pg_advisory_lock runs on]
    timed,          \* [Pods -> session that has a lock_timeout]
    holder,         \* session that holds the advisory lock
    schema,         \* schema_migrations
    applied,        \* history: migrations in the order they were committed
    crashes

migrationVars == <<step, file, wait, timed, holder, schema, applied, crashes>>

MigrationsInit ==
    /\ step = [p \in Pods |-> "start"] /\ file = [p \in Pods |-> 1]
    /\ wait = [p \in Pods |-> NoSession] /\ timed = [p \in Pods |-> NoSession]
    /\ holder = NoSession /\ schema = {} /\ applied = <<>> /\ crashes = 0

Goto(p, s) == step' = [step EXCEPT ![p] = s]
OwnsLock(p) == holder \in { p } \X Sessions

(* Mutants *)

\* No idle time and no lifetime are set for the pool's connections.
ConnKept(p) == FALSE /\ UNCHANGED migrationVars

------------------------------------------------------------------------------

\* SET lock_timeout goes to one session, the lock statement to some session.
SetLockTimeout(p) ==
    /\ step[p] = "start" /\ Goto(p, "lock")
    /\ \E s, t \in { p } \X Sessions :
          timed' = [timed EXCEPT ![p] = s] /\ wait' = [wait EXCEPT ![p] = t]
    /\ UNCHANGED <<file, holder, schema, applied, crashes>>

TakeLock(p) ==
    /\ step[p] = "lock" /\ holder = NoSession
    /\ holder' = wait[p] /\ Goto(p, "check")
    /\ UNCHANGED <<file, wait, timed, schema, applied, crashes>>

\* The wait is cut short only on the session that has the timeout.  Any error
\* ends the server, and with it the pod's sessions.
LockTimeout(p) ==
    /\ step[p] = "lock" /\ holder # NoSession /\ timed[p] = wait[p]
    /\ Goto(p, "down")
    /\ UNCHANGED <<file, wait, timed, holder, schema, applied, crashes>>

\* SELECT EXISTS: an applied version is passed over.
CheckVersion(p) ==
    /\ step[p] = "check"
    /\ CASE file[p] > Versions -> Goto(p, "unlock") /\ UNCHANGED file
         [] file[p] \in schema -> file' = [file EXCEPT ![p] = @ + 1] /\ UNCHANGED step
         [] OTHER -> Goto(p, "apply") /\ UNCHANGED file
    /\ UNCHANGED <<wait, timed, holder, schema, applied, crashes>>

\* The file and its row of schema_migrations, in one transaction.
ApplyVersion(p) ==
    /\ step[p] = "apply" /\ Goto(p, "check")
    /\ schema' = schema \cup { file[p] } /\ applied' = Append(applied, file[p])
    /\ file' = [file EXCEPT ![p] = @ + 1]
    /\ UNCHANGED <<wait, timed, holder, crashes>>

\* The deferred unlock runs on any session and its result is not looked at.
Unlock(p) ==
    /\ step[p] = "unlock" /\ Goto(p, "serving")
    /\ \E s \in { p } \X Sessions : holder' = IF s = holder THEN NoSession ELSE holder
    /\ UNCHANGED <<file, wait, timed, schema, applied, crashes>>

\* MaxConnIdleTime or MaxConnLifetime ends a session of a pod whose Migrate has
\* returned: a migration is taken to be shorter than both.
ConnReaped(p) ==
    /\ step[p] = "serving" /\ OwnsLock(p) /\ holder' = NoSession
    /\ UNCHANGED <<step, file, wait, timed, schema, applied, crashes>>

\* A failed statement, a failed migration file or a crash: the open transaction
\* is rolled back and the sessions of the pod end.
PodFails(p) ==
    /\ step[p] \notin { "down", "start" } /\ crashes < MaxCrashes
    /\ crashes' = crashes + 1 /\ Goto(p, "down")
    /\ holder' = IF OwnsLock(p) THEN NoSession ELSE holder
    /\ UNCHANGED <<file, wait, timed, schema, applied>>

\* The pod is started again (restart: unless-stopped).
PodRestarts(p) ==
    /\ step[p] = "down" /\ Goto(p, "start")
    /\ file' = [file EXCEPT ![p] = 1]
    /\ wait' = [wait EXCEPT ![p] = NoSession] /\ timed' = [timed EXCEPT ![p] = NoSession]
    /\ UNCHANGED <<holder, schema, applied, crashes>>

MigrateStep(p) ==
    \/ SetLockTimeout(p) \/ TakeLock(p) \/ LockTimeout(p) \/ CheckVersion(p)
    \/ ApplyVersion(p) \/ Unlock(p) \/ PodRestarts(p)

MigrationsNext == \E p \in Pods : MigrateStep(p) \/ ConnReaped(p) \/ PodFails(p)

MigrationsSpec == MigrationsInit /\ [][MigrationsNext]_migrationVars

------------------------------------------------------------------------------

(***************************************************************************)
(* However many pods start together, crash in the middle or miss their     *)
(* unlock, every migration is committed once and in file order, and a pod  *)
(* serves only on a complete schema (Migrate).                             *)
(***************************************************************************)
AppliedOnceInOrder ==
    /\ applied = [i \in 1 .. Len(applied) |-> i]
    /\ \A p \in Pods : step[p] = "serving" => schema = 1 .. Versions

(***************************************************************************)
(* Every pod comes to serve, although one that serves may hold the lock on *)
(* a connection nobody will unlock (Migrate, NewPostgres).                 *)
(***************************************************************************)
PodsServe == \A p \in Pods : []<>(step[p] = "serving")

--------------------------------------------------------------------------------
(* The connections *)

(***************************************************************************)
(* The connection pool under the requests of the API.  authMiddleware      *)
(* (router.go) takes a connection for the whole request and puts it into   *)
(* the request's context once the session user is set; the methods of Conn *)
(* (postgres.go) use it, and without one go to the pool behind a           *)
(* process-wide circuit breaker.  An operation of batchHandler is a        *)
(* request of its own through the same middleware, below a request that    *)
(* keeps its connection.                                                   *)
(***************************************************************************)

CONSTANTS
    Requests,
    Batches,        \* requests to the batch endpoint
    Public,         \* requests without authentication, and background work
    MaxConns,
    DBThreshold,    \* failures that open the breaker
    MaxDBFaults     \* bound on the changes of the database between up and down

ASSUME DBPoolAssumption ==
    /\ Batches \subseteq Requests /\ Public \subseteq Requests \ Batches
    /\ { MaxConns, DBThreshold, MaxDBFaults } \subseteq Nat \ { 0 }

VARIABLES
    stage,          \* [Requests -> where the request is]
    depth,          \* [Requests -> 1 in an operation of a batch, else 0]
    holds,          \* [Requests -> depths at which it keeps a connection]
    pinned,         \* [Requests -> depths whose context carries it]
    late,           \* [Requests -> the deadline of this depth is over]
    free,           \* connections left in the pool
    dbUp,
    dbBreaker,      \* "closed" or "open"
    failCount,
    faults

poolVars == <<stage, depth, holds, pinned, late, free, dbUp, dbBreaker, failCount, faults>>

DBPoolInit ==
    /\ stage = [r \in Requests |-> "idle"] /\ depth = [r \in Requests |-> 0]
    /\ holds = [r \in Requests |-> {}] /\ pinned = [r \in Requests |-> {}]
    /\ late = [r \in Requests |-> FALSE]
    /\ free = MaxConns /\ dbUp = TRUE /\ dbBreaker = "closed"
    /\ failCount = 0 /\ faults = 0

Goes(r, s) == stage' = [stage EXCEPT ![r] = s]

(* Mutants *)

\* The operations of a batch run without a deadline.
TimedOutAbove(r) == stage[r] \in { "acquire", "pool" } /\ ~late[r] /\ depth[r] = 0

------------------------------------------------------------------------------

\* recordDBFailure and recordDBSuccess: nothing but a half-open breaker is reset
\* by a success, and only CheckDBHealth, which nobody calls, makes it half-open.
RecordDBFailure ==
    /\ failCount' = IF failCount < DBThreshold THEN failCount + 1 ELSE failCount
    /\ dbBreaker' = IF failCount' >= DBThreshold THEN "open" ELSE dbBreaker

RecordDBSuccess == UNCHANGED <<failCount, dbBreaker>>

Arrive(r) ==
    /\ stage[r] = "idle"
    /\ Goes(r, IF r \in Public THEN "run" ELSE "acquire")
    /\ UNCHANGED <<depth, holds, pinned, late, free, dbUp, dbBreaker, failCount, faults>>

\* authMiddleware: Acquire, then set_current_user_id.  When that call fails the
\* connection is kept and not used.
Acquire(r) ==
    /\ stage[r] = "acquire" /\ free > 0 /\ Goes(r, "run")
    /\ free' = free - 1 /\ holds' = [holds EXCEPT ![r] = @ \cup { depth[r] }]
    /\ pinned' = [pinned EXCEPT ![r] = IF dbUp THEN @ \cup { depth[r] } ELSE @]
    /\ UNCHANGED <<depth, late, dbUp, dbBreaker, failCount, faults>>

\* The deadline of http.TimeoutHandler ends a wait for a connection: the request
\* goes on without one.
TimedOut(r) == stage[r] \in { "acquire", "pool" } /\ ~late[r]

GiveUp(r) ==
    /\ TimedOut(r)
    /\ late' = [late EXCEPT ![r] = TRUE]
    /\ Goes(r, IF stage[r] = "acquire" THEN "run" ELSE "ran")
    /\ IF stage[r] = "pool" THEN RecordDBFailure ELSE UNCHANGED <<failCount, dbBreaker>>
    /\ UNCHANGED <<depth, holds, pinned, free, dbUp, faults>>

\* executeBatchOp: the operation goes through the router with a deadline of its
\* own; batchHandler starts it even when its own request is late.
RunBatchOp(r) ==
    /\ stage[r] = "run" /\ r \in Batches /\ depth[r] = 0
    /\ depth' = [depth EXCEPT ![r] = 1] /\ late' = [late EXCEPT ![r] = FALSE]
    /\ Goes(r, "acquire")
    /\ UNCHANGED <<holds, pinned, free, dbUp, dbBreaker, failCount, faults>>

\* Conn.Query and Conn.Exec: on the connection of the context, refused by the
\* breaker, failing at once after the deadline, or through the pool.
Statement(r) ==
    /\ stage[r] = "run" /\ (r \notin Batches \/ depth[r] = 1)
    /\ CASE depth[r] \in pinned[r] -> Goes(r, "ran") /\ UNCHANGED <<dbBreaker, failCount>>
         [] depth[r] \notin pinned[r] /\ (dbBreaker = "open" \/ late[r]) ->
              Goes(r, "ran") /\ RecordDBFailure
         [] OTHER -> Goes(r, "pool") /\ UNCHANGED <<dbBreaker, failCount>>
    /\ UNCHANGED <<depth, holds, pinned, late, free, dbUp, faults>>

\* Conn.QueryRow through the pool tells the breaker nothing.
PoolStatement(r) ==
    /\ stage[r] = "pool" /\ free > 0 /\ Goes(r, "ran")
    /\ \/ IF dbUp THEN RecordDBSuccess ELSE RecordDBFailure
       \/ UNCHANGED <<failCount, dbBreaker>>
    /\ UNCHANGED <<depth, holds, pinned, late, free, dbUp, faults>>

\* The deferred Release: reset by AfterRelease or discarded, the place is free.
Release(r) ==
    /\ free' = free + (IF depth[r] \in holds[r] THEN 1 ELSE 0)
    /\ holds' = [holds EXCEPT ![r] = @ \ { depth[r] }]

Answer(r) ==
    /\ stage[r] = "ran" /\ Release(r)
    /\ pinned' = [pinned EXCEPT ![r] = @ \ { depth[r] }]
    /\ depth' = [depth EXCEPT ![r] = 0] /\ late' = [late EXCEPT ![r] = FALSE]
    /\ Goes(r, IF depth[r] = 1 THEN "ran" ELSE "idle")
    /\ UNCHANGED <<dbUp, dbBreaker, failCount, faults>>

DatabaseFault ==
    /\ faults < MaxDBFaults /\ faults' = faults + 1 /\ dbUp' = ~dbUp
    /\ UNCHANGED <<stage, depth, holds, pinned, late, free, dbBreaker, failCount>>

RequestStep(r) ==
    \/ Acquire(r) \/ GiveUp(r) \/ RunBatchOp(r) \/ Statement(r) \/ PoolStatement(r)
    \/ Answer(r)

DBPoolNext == DatabaseFault \/ \E r \in Requests : Arrive(r) \/ RequestStep(r)

------------------------------------------------------------------------------

(***************************************************************************)
(* authMiddleware, batchHandler under http.TimeoutHandler.  Every          *)
(* connection is in the pool or with one request, whichever way the        *)
(* request and its operations end; and every request is answered, also     *)
(* when each of them keeps a connection and waits for another one.         *)
(***************************************************************************)
RequestsAnswered ==
    /\ [](free + MapThenSumSet(LAMBDA r : Cardinality(holds[r]), Requests) = MaxConns)
    /\ \A r \in Requests : stage[r] # "idle" ~> stage[r] = "idle"
================================================================================
