------------------------------- MODULE Middleware -------------------------------
(*****************************************************************************)
(* The HTTP middleware that keeps something between requests: the answers    *)
(* filed under an idempotency key, the cache of GET responses, and the       *)
(* limits and quotas. The three share no state.                              *)
(*****************************************************************************)
EXTENDS Integers, SequencesExt

--------------------------------------------------------------------------------
(* Idempotency keys *)

(***************************************************************************)
(* Requests with an Idempotency-Key: middleware/idempotency.go in front of *)
(* task creation and billing, and idempotency/idempotency.go, the same     *)
(* algorithm in the proxy's stack.  They differ in what a request that     *)
(* waited 30 seconds for another one gets.  The key alone names the entry, *)
(* so callers and routes share keys.                                       *)
(***************************************************************************)

CONSTANTS
    IdemCallers,
    IdemKeys,
    KeyOf,          \* [IdemCallers -> IdemKeys]
    MaxEntries,     \* maxCacheEntries, MaxEntries
    Wrapper         \* "middleware" or "store"

ASSUME IdempotencyAssumption ==
    /\ KeyOf \in [IdemCallers -> IdemKeys] /\ MaxEntries \in Nat \ { 0 }
    /\ Wrapper \in { "middleware", "store" }

VARIABLES
    entry,          \* [IdemKeys -> "none", "processing" or "done"]
    created,        \* the keys that have an entry, by createdAt
    expired,        \* keys whose entry is older than the TTL
    request,        \* [IdemCallers -> where it is]
    runs,           \* [IdemKeys -> runs of the handler while its entry lived]
    answers         \* [IdemKeys -> the callers whose response was stored]

idemVars == <<entry, created, expired, request, runs, answers>>

IdempotencyInit ==
    /\ entry = [k \in IdemKeys |-> "none"] /\ created = <<>> /\ expired = {}
    /\ request = [c \in IdemCallers |-> "new"]
    /\ runs = [k \in IdemKeys |-> 0] /\ answers = [k \in IdemKeys |-> {}]

Without(k) == SelectSeq(created, LAMBDA x : x # k)

\* Mutant: an entry that is still processing counts as absent.
FoundDone(k) == entry[k] = "done" /\ k \notin expired

\* Entries that live: found and not older than the TTL.
Found(k) == entry[k] # "none" /\ k \notin expired


\* The entry is created, after the oldest one was evicted where the map is full.
Reserve(k) ==
    LET full == Len(created) >= MaxEntries
        oldest == IF full THEN { Head(created) } ELSE {}
        rest == SelectSeq(created, LAMBDA x : x # k /\ x \notin oldest)
    IN  /\ entry' = [x \in IdemKeys |->
              IF x = k THEN "processing" ELSE IF x \in oldest THEN "none" ELSE entry[x]]
        /\ created' = Append(rest, k)
        /\ expired' = expired \ (oldest \cup { k })
        /\ runs' = [x \in IdemKeys |->
              IF x \in oldest \ { k } THEN 0 ELSE IF x = k THEN runs[k] + 1 ELSE runs[x]]

\* One lock section: replay, wait, or reserve and run the handler.
Begin(c) ==
    LET k == KeyOf[c] IN
    /\ request[c] = "new"
    /\ \/ /\ Found(k)
          /\ request' = [request EXCEPT ![c] =
                IF entry[k] = "done" THEN "replayed" ELSE "waiting"]
          /\ UNCHANGED <<entry, created, expired, runs>>
       \/ /\ ~Found(k)
          /\ request' = [request EXCEPT ![c] = "running"]
          /\ Reserve(k)
    /\ UNCHANGED answers

\* The response is stored whatever its status, also over what another run of the
\* key stored, and also where the entry was evicted: the map may exceed its size.
Stores(c, k) ==
    /\ entry' = [entry EXCEPT ![k] = "done"]
    /\ created' = Append(Without(k), k)
    /\ expired' = expired \ { k }
    /\ answers' = [answers EXCEPT ![k] = @ \cup { c }]

HandlerDone(c) ==
    /\ request[c] = "running"
    /\ request' = [request EXCEPT ![c] = "ran"]
    /\ Stores(c, KeyOf[c])
    /\ UNCHANGED runs

\* The panic passes through the middleware: the entry stays in processing.
HandlerPanics(c) ==
    /\ request[c] = "running"
    /\ request' = [request EXCEPT ![c] = "panicked"]
    /\ UNCHANGED <<entry, created, expired, runs, answers>>

\* A tick of waitForCompletion.
WaitOver(c) ==
    /\ request[c] = "waiting" /\ entry[KeyOf[c]] = "done" /\ KeyOf[c] \notin expired
    /\ request' = [request EXCEPT ![c] = "replayed"]
    /\ UNCHANGED <<entry, created, expired, runs, answers>>

\* 409 from the middleware; an empty 200 from the store.
WaitTimesOut(c) ==
    /\ request[c] = "waiting"
    /\ request' = [request EXCEPT ![c] = IF Wrapper = "middleware" THEN "conflict" ELSE "empty"]
    /\ UNCHANGED <<entry, created, expired, runs, answers>>

\* The TTL is the same for all: they expire in the order of createdAt.
EntryExpires ==
    /\ \E i \in 1 .. Len(created) :
          /\ created[i] \notin expired
          /\ \A j \in 1 .. i - 1 : created[j] \in expired
          /\ expired' = expired \cup { created[i] }
          /\ runs' = [runs EXCEPT ![created[i]] = 0]
    /\ UNCHANGED <<entry, created, request, answers>>

\* The cleanup loop, Store.Cleanup.
CleanupEntries ==
    /\ expired # {}
    /\ entry' = [k \in IdemKeys |-> IF k \in expired THEN "none" ELSE entry[k]]
    /\ created' = SelectSeq(created, LAMBDA k : k \notin expired)
    /\ expired' = {}
    /\ UNCHANGED <<request, runs, answers>>

IdempotencyNext ==
    \/ \E c \in IdemCallers :
          \/ Begin(c) \/ HandlerDone(c) \/ HandlerPanics(c)
          \/ WaitOver(c) \/ WaitTimesOut(c)
    \/ EntryExpires \/ CleanupEntries

IdempotencySpec == IdempotencyInit /\ [][IdempotencyNext]_idemVars

--------------------------------------------------------------------------------
(* Properties *)

(***************************************************************************)
(* middleware/idempotency.go:62-110.  While the entry of a key lives, the  *)
(* handler runs once for it however many callers repeat the request and    *)
(* however long it takes: only its eviction or the TTL allow another run.  *)
(* A repeat that is answered without a conflict gets the response of a run *)
(* that ended.                                                             *)
(***************************************************************************)
ExecutedOnce ==
    /\ \A k \in IdemKeys : runs[k] <= 1
    /\ \A c \in IdemCallers : request[c] = "replayed" => answers[KeyOf[c]] # {}

--------------------------------------------------------------------------------
(* The response cache *)

(***************************************************************************)
(* The cache of GET responses in front of the whole API                     *)
(* (internal/middleware/cache.go, installed first in router.go).  An entry  *)
(* is named by path and query alone, so every caller shares it.  A lookup   *)
(* reads under the read lock and moves its key under the write lock; a      *)
(* miss runs the handler with no lock held and stores what it answered.  A  *)
(* write that succeeded removes entries after its handler has returned.     *)
(* All paths of the model begin with the same first segment, "/api".        *)
(***************************************************************************)

CONSTANTS
    CachePaths,     \* path and query of a GET
    ParentPath,     \* a path that other paths extend: the collection
    Readers, Writers,
    MaxSize,        \* entries the cache holds
    NoEntry

CacheEntries == [body : SUBSET Writers, behind : SUBSET Writers, expired : BOOLEAN]

ASSUME ResponseCacheAssumption ==
    ParentPath \in CachePaths /\ MaxSize \in Nat \ { 0 } /\ NoEntry \notin CachePaths \cup CacheEntries

VARIABLES
    entries,        \* [CachePaths -> NoEntry or one of CacheEntries]
    order,          \* the keys, least recently used first
    reader,         \* [Readers -> the GET in progress]
    cacheWriter,    \* [Writers -> where the write request is]
    committed,      \* writes whose handler has changed the rows
    finished        \* writes that are past the invalidation

cacheVars == <<entries, order, reader, cacheWriter, committed, finished>>

\* A body is the set of writes it shows.  "behind" are the writes that were already
\* finished when the entry was stored: only they can be missing from its body.
Entry(body) == [body |-> body, behind |-> finished, expired |-> FALSE]
Idle == [at |-> "idle", path |-> NoEntry, entry |-> NoEntry, begun |-> {}]

ResponseCacheInit ==
    /\ entries = [k \in CachePaths |-> NoEntry] /\ order = <<>>
    /\ reader = [r \in Readers |-> Idle] /\ cacheWriter = [w \in Writers |-> "new"]
    /\ committed = {} /\ finished = {}

Cached == { k \in CachePaths : entries[k] # NoEntry }

\* The list without k: the loop over c.order cuts it out where it finds it.
Drop(k) ==
    IF Contains(order, k) THEN RemoveAt(order, CHOOSE i \in DOMAIN order : order[i] = k) ELSE order

\* The key becomes the most recently used one, if the list still has it.
Bump(k) == IF Contains(order, k) THEN Append(Drop(k), k) ELSE order

\* Set on a new key first drops the least recently used ones down to MaxSize - 1.
Evicted == IF Cardinality(Cached) >= MaxSize THEN Cardinality(Cached) + 1 - MaxSize ELSE 0
OldestEntry == { order[i] : i \in 1 .. Evicted }

Delete(k) == entries' = [entries EXCEPT ![k] = NoEntry] /\ order' = Drop(k)

\* Mutant: only the entry of exactly the written path is removed.
DeleteExactly == Delete(ParentPath)

\* InvalidatePrefix with the first segment, which every path of the model begins with.
DeleteAll == entries' = [k \in CachePaths |-> NoEntry] /\ order' = <<>>

--------------------------------------------------------------------------------
(* GET requests                                                             *)

\* The read-locked half of Get, and the no-cache requests that skip it.
Lookup(r, k) ==
    /\ reader[r].at = "idle"
    /\ LET hit == entries[k] # NoEntry /\ ~entries[k].expired IN
       \/ /\ hit
          /\ reader' = [reader EXCEPT ![r] =
                [at |-> "hit", path |-> k, entry |-> entries[k], begun |-> finished]]
       \/ /\ ~hit
          /\ reader' = [reader EXCEPT ![r] =
                [at |-> "miss", path |-> k, entry |-> NoEntry, begun |-> finished]]
    /\ UNCHANGED <<entries, order, cacheWriter, committed, finished>>

\* The write-locked half: the entry that was read is served, removed or not.
ServeHit(r) ==
    /\ reader[r].at = "hit"
    /\ order' = Bump(reader[r].path)
    /\ reader' = [reader EXCEPT ![r].at = "served"]
    /\ UNCHANGED <<entries, cacheWriter, committed, finished>>

\* The handler reads the rows; its response is 2xx with a body, or is not cached.
HandlerReads(r) ==
    /\ reader[r].at = "miss"
    /\ \/ reader' = [reader EXCEPT ![r].at = "read", ![r].entry = Entry(committed)]
       \/ reader' = [reader EXCEPT ![r] = Idle]
    /\ UNCHANGED <<entries, order, cacheWriter, committed, finished>>

\* ETagMiddleware runs inside: the handler's body has the tag of If-None-Match, so the
\* answer is a 304 without a body, which the cache does not keep.
NotModified(r) ==
    /\ reader[r].at = "miss"
    /\ reader' = [reader EXCEPT ![r] = Idle]
    /\ UNCHANGED <<entries, order, cacheWriter, committed, finished>>

\* Set, after the handler returned.
Set(r) ==
    LET k == reader[r].path
        gone == IF k \in Cached THEN {} ELSE OldestEntry
    IN  /\ reader[r].at = "read"
        /\ entries' = [x \in CachePaths |->
              IF x = k THEN Entry(reader[r].entry.body)
              ELSE IF x \in gone THEN NoEntry ELSE entries[x]]
        /\ order' = IF k \in Cached THEN Bump(k)
                    ELSE Append(SubSeq(order, Evicted + 1, Len(order)), k)
        /\ reader' = [reader EXCEPT ![r] = Idle]
        /\ UNCHANGED <<cacheWriter, committed, finished>>

Answered(r) ==
    /\ reader[r].at = "served"
    /\ reader' = [reader EXCEPT ![r] = Idle]
    /\ UNCHANGED <<entries, order, cacheWriter, committed, finished>>

\* Five minutes pass.  An expired entry stays in the map until it is overwritten.
CachedExpires(k) ==
    /\ entries[k] # NoEntry /\ ~entries[k].expired
    /\ entries' = [entries EXCEPT ![k].expired = TRUE]
    /\ UNCHANGED <<order, reader, cacheWriter, committed, finished>>

--------------------------------------------------------------------------------
(* Writes                                                                   *)

\* The handler of a POST, PUT, PATCH or DELETE commits and answers 2xx; a write
\* that failed removes nothing.
WriteCommits(w) ==
    /\ cacheWriter[w] = "new"
    /\ \/ cacheWriter' = [cacheWriter EXCEPT ![w] = "delete"] /\ committed' = committed \cup { w }
       \/ cacheWriter' = [cacheWriter EXCEPT ![w] = "failed"] /\ UNCHANGED committed
    /\ UNCHANGED <<entries, order, reader, finished>>

\* invalidateByMethod: the path and the path with its query, then everything below
\* the parent, then everything with the same first segment, a lock section each.
DeletePath(w) ==
    /\ cacheWriter[w] = "delete"
    /\ Delete(ParentPath)
    /\ cacheWriter' = [cacheWriter EXCEPT ![w] = "prefix"]
    /\ UNCHANGED <<reader, committed, finished>>

InvalidatePrefix(w) ==
    /\ cacheWriter[w] = "prefix"
    /\ DeleteAll
    /\ cacheWriter' = [cacheWriter EXCEPT ![w] = "done"]
    /\ finished' = finished \cup { w }
    /\ UNCHANGED <<reader, committed>>

ResponseCacheNext ==
    \/ \E r \in Readers :
          \/ \E k \in CachePaths : Lookup(r, k)
          \/ ServeHit(r) \/ HandlerReads(r) \/ NotModified(r) \/ Set(r) \/ Answered(r)
    \/ \E k \in CachePaths : CachedExpires(k)
    \/ \E w \in Writers : WriteCommits(w) \/ DeletePath(w) \/ InvalidatePrefix(w)

ResponseCacheSpec == ResponseCacheInit /\ [][ResponseCacheNext]_cacheVars

--------------------------------------------------------------------------------
(* Properties                                                               *)

\* ResponseCacheMiddleware, invalidateByMethod, Set and Get: a cached body that is
\* served without a write that had finished before the lookup began was being read by
\* its own handler while that write ran (it was stored after the write's
\* invalidation); and the list names every entry once, never more than MaxSize.
StaleOnlyByOverlap ==
    /\ \A r \in Readers : reader[r].at = "served" =>
          reader[r].begun \ reader[r].entry.body \subseteq reader[r].entry.behind
    /\ ToSet(order) = Cached /\ IsInjective(order) /\ Len(order) <= MaxSize

--------------------------------------------------------------------------------
(* Rate limits and quotas *)

(***************************************************************************)
(* What a protected request passes before its handler                      *)
(* (middleware/ratelimit.go, in the order of router/routes.go): the        *)
(* sliding window of its API key or user, a Lua script over a sorted set;  *)
(* the plan's requests per minute (INCR) and per day (a read and a Lua     *)
(* script); the monthly task quota; and after the handler the usage meter. *)
(* All counters are one organisation's, in Redis; whatever cannot reach    *)
(* Redis lets the request through.  The handlers here create tasks.        *)
(*                                                                         *)
(* Time counts seconds within a day; the clock reading of a request and    *)
(* its script fall into the same second.                                   *)
(***************************************************************************)

CONSTANTS
    LimitedRequests,
    KeyLimit, SlidingWindow,    \* requests per SlidingWindow seconds
    PerMinute, MinuteLength,
    PerDay,
    TasksPerMonth,
    RedisFails,     \* whether a call to Redis may fail
    LastSecond      \* bound on time

ASSUME RateLimitsAssumption ==
    /\ { KeyLimit, SlidingWindow, PerMinute, MinuteLength, PerDay } \subseteq Nat \ { 0 }
    /\ RedisFails \in BOOLEAN /\ TasksPerMonth \in Nat /\ LastSecond \in Nat

VARIABLES
    second,         \* the clock
    zset,           \* the sorted set: a member is its score and its request
    minuteCount,    \* [minute -> its counter]
    dayCount,
    usage,          \* [metric -> its counter of this month]
    progress,       \* [LimitedRequests -> the check it comes to next]
    passedKey,      \* history: requests the key's script allowed, with the second
    passedDay,      \* history: requests the day's script allowed
    tasksCreated,        \* history: tasks created
    refusedEarly    \* history: refused although its limit was not used up

rateVars == <<second, zset, minuteCount, dayCount, usage, progress, passedKey, passedDay,
              tasksCreated, refusedEarly>>

Seconds == 0 .. LastSecond
Minute == second \div MinuteLength

RateLimitsInit ==
    /\ second = 0 /\ zset = {} /\ passedKey = {}
    /\ minuteCount = [m \in Seconds |-> 0] /\ dayCount = 0
    /\ usage = [metric \in { "tasks", "api_requests" } |-> 0]
    /\ progress = [r \in LimitedRequests |-> "key"]
    /\ passedDay = 0 /\ tasksCreated = 0 /\ refusedEarly = FALSE

Comes(r, to) == progress' = [progress EXCEPT ![r] = to]

(* Mutants *)

\* Members exactly as old as the window stay.
PurgedExclusive == { x \in zset : x[1] >= second - SlidingWindow }

--------------------------------------------------------------------------------
(* RateLimiter.Middleware *)

\* ZREMRANGEBYSCORE key 0 now-window.
Purged == { x \in zset : x[1] > second - SlidingWindow }

Oldest(set) == Min({ x[1] : x \in set })

\* The answer's second part: positive exactly when the request is refused.
RetryAfter(set) ==
    IF Cardinality(set) < KeyLimit THEN 0 ELSE SlidingWindow - (second - Oldest(set))

\* Requests the script allowed in the window that ends now.
InWindow(passed) == { x \in passed : x[1] > second - SlidingWindow /\ x[1] <= second }

\* A random number makes the members of one second differ.
KeyScript(r) ==
    /\ progress[r] = "key"
    /\ LET room == Cardinality(Purged) < KeyLimit
           served == RetryAfter(Purged) <= 0
       IN  /\ zset' = IF room THEN Purged \cup { <<second, r>> } ELSE Purged
           /\ passedKey' = IF served THEN passedKey \cup { <<second, r>> } ELSE passedKey
           /\ Comes(r, IF served THEN "minute" ELSE "refused")
           /\ refusedEarly' = (refusedEarly \/ (~served /\ Cardinality(InWindow(passedKey)) < KeyLimit))
    /\ UNCHANGED <<second, minuteCount, dayCount, usage, passedDay, tasksCreated>>

--------------------------------------------------------------------------------
(* PlanAwareRateLimiter.Middleware *)

\* checkMinuteLimit: refused requests are counted too.
CheckMinute(r) ==
    /\ progress[r] = "minute"
    /\ minuteCount' = [minuteCount EXCEPT ![Minute] = @ + 1]
    /\ Comes(r, IF minuteCount[Minute] < PerMinute THEN "preread" ELSE "refused")
    /\ UNCHANGED <<second, zset, dayCount, usage, passedKey, passedDay, tasksCreated, refusedEarly>>

DayPreRead(r) ==
    /\ progress[r] = "preread"
    /\ Comes(r, IF dayCount >= PerDay THEN "refused" ELSE "day")
    /\ refusedEarly' = (refusedEarly \/ (dayCount >= PerDay /\ passedDay < PerDay))
    /\ UNCHANGED <<second, zset, minuteCount, dayCount, usage, passedKey, passedDay, tasksCreated>>

DayScript(r) ==
    /\ progress[r] = "day"
    /\ IF dayCount >= PerDay
       THEN /\ Comes(r, "refused")
            /\ refusedEarly' = (refusedEarly \/ passedDay < PerDay)
            /\ UNCHANGED <<dayCount, passedDay>>
       ELSE /\ Comes(r, "quota")
            /\ dayCount' = dayCount + 1 /\ passedDay' = passedDay + 1
            /\ UNCHANGED refusedEarly
    /\ UNCHANGED <<second, zset, minuteCount, usage, passedKey, tasksCreated>>

--------------------------------------------------------------------------------
(* QuotaEnforcer, the handler, UsageMeteringMiddleware *)

\* CheckQuota: no limit where it is not positive.
CheckQuota(metric, limit) == limit <= 0 \/ limit - usage[metric] > 0

CheckTasksQuota(r) ==
    /\ progress[r] = "quota"
    /\ Comes(r, IF CheckQuota("tasks", TasksPerMonth) THEN "handler" ELSE "refused")
    /\ UNCHANGED <<second, zset, minuteCount, dayCount, usage, passedKey, passedDay, tasksCreated,
                   refusedEarly>>

\* The meter counts a request that succeeded; nothing counts "tasks".
IncrementUsage == usage' = [usage EXCEPT !["api_requests"] = @ + 1]

ServeAndMeter(r) ==
    /\ progress[r] = "handler"
    /\ \/ tasksCreated' = tasksCreated + 1 /\ (IncrementUsage \/ UNCHANGED usage)
       \/ UNCHANGED <<tasksCreated, usage>>
    /\ Comes(r, "served")
    /\ UNCHANGED <<second, zset, minuteCount, dayCount, passedKey, passedDay, refusedEarly>>

\* Redis does not answer: the check is skipped.
FailOpen(r) ==
    /\ RedisFails
    /\ \E next \in { <<"key", "minute">>, <<"minute", "preread">>, <<"preread", "day">>,
                     <<"day", "quota">>, <<"quota", "handler">> } :
          progress[r] = next[1] /\ Comes(r, next[2])
    /\ UNCHANGED <<second, zset, minuteCount, dayCount, usage, passedKey, passedDay, tasksCreated,
                   refusedEarly>>

SecondPasses ==
    /\ second < LastSecond /\ second' = second + 1
    /\ UNCHANGED <<zset, minuteCount, dayCount, usage, progress, passedKey, passedDay, tasksCreated,
                   refusedEarly>>

RateLimitsNext ==
    \/ \E r \in LimitedRequests :
          \/ KeyScript(r) \/ CheckMinute(r) \/ DayPreRead(r) \/ DayScript(r)
          \/ CheckTasksQuota(r) \/ ServeAndMeter(r) \/ FailOpen(r)
    \/ SecondPasses

RateLimitsSpec == RateLimitsInit /\ [][RateLimitsNext]_rateVars

--------------------------------------------------------------------------------
(* Properties *)

(***************************************************************************)
(* ratelimit.go:24-45, 95-98, 982-1020.  The limits are exact while Redis  *)
(* answers: no window of SlidingWindow seconds and no day has more         *)
(* requests than allowed, the one at the limit included, however requests  *)
(* interleave between the day's read and its script; and nobody is refused *)
(* before the limit is used up.                                            *)
(***************************************************************************)
LimitsExact ==
    /\ Cardinality(InWindow(passedKey)) <= KeyLimit
    /\ passedDay <= PerDay
    /\ ~refusedEarly

================================================================================
