----------------------------- MODULE HotReload -----------------------------
(***************************************************************************)
(* Hot reload of the configuration file (internal/config/hotreload.go) and  *)
(* its shutdown.  viper's watcher reports changes, a debounce timer starts  *)
(* one reload goroutine per quiet period, and Stop cancels the context and  *)
(* waits for the goroutines counted in reloadWG.  A fired timer cannot be   *)
(* stopped: its goroutine may run at any later time, next to another one.   *)
(*   Below it, a feature flag (internal/featureflags/flags.go): the row in   *)
(* the database, the manager's cached copy, the requests that read and      *)
(* write it, the refresh loop, and the other instances of the server.       *)
(***************************************************************************)
EXTENDS Integers, FiniteSets

CONSTANTS
    Reloads,        \* reload goroutines
    MaxEdits,       \* edits of the file
    Broken,         \* the versions of the file that fail Validate
    FlagGets, FlagSets,     \* requests on the flag
    MaxFlagWrites

ASSUME ReloadAssumption == IsFiniteSet(Reloads) /\ MaxFlagWrites \in Nat /\ MaxEdits \in Nat /\ Broken \subseteq 1 .. MaxEdits

VARIABLES
    configFile,     \* version of the file on disk
    unseen,         \* the watcher has an event to deliver
    timer,          \* the debounce timer is running
    reload,         \* per goroutine: where it is and the version it read
    waitGroup,      \* reloadWG
    appliedVersion, \* version the callbacks last saw
    current,        \* hr.cfg
    starter,        \* the goroutine of Start
    stopper,        \* the caller of Stop
    cancelled,      \* Start's context is done
    slipped,        \* an edit before the watcher was there, or two reloads overlapped
    flagRow,        \* version of the flag in the table, 0 if there is none
    flagCache,      \* version in m.cache, 0 if there is none
    fetched,        \* lastFetch is within the ttl
    flagGet,        \* per request: where it is and the version it has read
    flagSet,        \* per request: where it is
    refresh,        \* the refresh loop: where it is and the version it has read
    flagWrites,     \* versions so far
    flagOverlap,    \* a version was written while an older one was on its way to the cache
    elsewhere       \* another instance has written, and no refresh has brought it here

flagVars == <<flagRow, flagCache, fetched, flagGet, flagSet, refresh, flagWrites, flagOverlap, elsewhere>>
reloadVars == <<configFile, unseen, timer, reload, waitGroup, appliedVersion, current, starter, stopper, cancelled, slipped>>

HotReloadInit ==
    /\ configFile = 0 /\ unseen = FALSE /\ timer = FALSE
    /\ reload = [r \in Reloads |-> [at |-> "unused", read |-> 0]]
    /\ waitGroup = 0
    /\ appliedVersion = 0 /\ current = 0
    /\ starter = "unstarted" /\ stopper = "serving"
    /\ cancelled = FALSE /\ slipped = FALSE
    /\ flagRow = 0 /\ flagCache = 0 /\ fetched = FALSE
    /\ flagGet = [g \in FlagGets |-> [at |-> "new", version |-> 0]]
    /\ flagSet = [w \in FlagSets |-> "new"] /\ refresh = [at |-> "idle", version |-> 0]
    /\ flagWrites = 0 /\ flagOverlap = FALSE /\ elsewhere = FALSE

ReloadAt(r, place) == reload' = [reload EXCEPT ![r].at = place]

----------------------------------------------------------------------------
\* Start: the context is made, then the watcher is installed, then it blocks.
StartWatching ==
    /\ starter = "unstarted"
    /\ starter' = "watching"
    /\ UNCHANGED <<configFile, unseen, timer, reload, waitGroup, appliedVersion, current, stopper, cancelled, slipped>>

EditFile ==
    /\ configFile < MaxEdits
    /\ configFile' = configFile + 1
    /\ unseen' = (starter # "unstarted")
    /\ slipped' = (slipped \/ starter = "unstarted")
    /\ UNCHANGED <<timer, reload, waitGroup, appliedVersion, current, starter, stopper, cancelled>>

\* OnConfigChange: nothing once cancelled, else the timer is started afresh.
FileChanged ==
    /\ unseen
    /\ unseen' = FALSE
    /\ timer' = (timer \/ ~cancelled)
    /\ UNCHANGED <<configFile, reload, waitGroup, appliedVersion, current, starter, stopper, cancelled, slipped>>

\* The debounce time is over: the timer's function runs as a goroutine.
DebounceOver(r) ==
    /\ timer /\ reload[r].at = "unused"
    /\ timer' = FALSE
    /\ ReloadAt(r, "fired")
    /\ UNCHANGED <<configFile, unseen, waitGroup, appliedVersion, current, starter, stopper, cancelled, slipped>>

\* Mutant: the context is checked before the goroutine counts itself.
ReloadAddsLate(r) ==
    /\ reload[r].at = "fired"
    /\ ReloadAt(r, IF cancelled THEN "over" ELSE "read")
    /\ UNCHANGED <<configFile, unseen, timer, waitGroup, appliedVersion, current, starter, stopper, cancelled, slipped>>

ReloadAdds(r) ==
    /\ reload[r].at = "fired"
    /\ waitGroup' = waitGroup + 1
    /\ ReloadAt(r, "check")
    /\ UNCHANGED <<configFile, unseen, timer, appliedVersion, current, starter, stopper, cancelled, slipped>>

ReloadChecks(r) ==
    /\ reload[r].at = "check"
    /\ ReloadAt(r, IF cancelled THEN "done" ELSE "read")
    /\ UNCHANGED <<configFile, unseen, timer, waitGroup, appliedVersion, current, starter, stopper, cancelled, slipped>>

\* ReadInConfig, readFromViper and Validate: a broken file changes nothing.
ReadFromViper(r) ==
    /\ reload[r].at = "read"
    /\ reload' = [reload EXCEPT ![r] =
         [at |-> IF configFile \in Broken THEN "done" ELSE "notify", read |-> configFile]]
    /\ slipped' = (slipped \/ \E s \in Reloads \ {r} : reload[s].at \in {"notify", "store"})
    /\ UNCHANGED <<configFile, unseen, timer, waitGroup, appliedVersion, current, starter, stopper, cancelled>>

Notify(r) ==
    /\ reload[r].at = "notify"
    /\ appliedVersion' = reload[r].read
    /\ ReloadAt(r, "store")
    /\ UNCHANGED <<configFile, unseen, timer, waitGroup, current, starter, stopper, cancelled, slipped>>

StoreConfig(r) ==
    /\ reload[r].at = "store"
    /\ current' = reload[r].read
    /\ ReloadAt(r, "done")
    /\ UNCHANGED <<configFile, unseen, timer, waitGroup, appliedVersion, starter, stopper, cancelled, slipped>>

ReloadDone(r) ==
    /\ reload[r].at = "done"
    /\ waitGroup' = waitGroup - 1
    /\ ReloadAt(r, "over")
    /\ UNCHANGED <<configFile, unseen, timer, appliedVersion, current, starter, stopper, cancelled, slipped>>

\* Start wakes on the cancelled context, waits for the group and closes done.
StartReturns ==
    /\ starter = "watching" /\ cancelled /\ waitGroup = 0
    /\ starter' = "closed"
    /\ UNCHANGED <<configFile, unseen, timer, reload, waitGroup, appliedVersion, current, stopper, cancelled, slipped>>

\* Stop: cancel, then wait for done.  Before Start has run there is nothing
\* to cancel, and the wait has no end.
Stop ==
    /\ stopper = "serving"
    /\ stopper' = "waiting"
    /\ cancelled' = (starter # "unstarted")
    /\ UNCHANGED <<configFile, unseen, timer, reload, waitGroup, appliedVersion, current, starter, slipped>>

StopReturns ==
    /\ stopper = "waiting" /\ starter = "closed"
    /\ stopper' = "stopped"
    /\ UNCHANGED <<configFile, unseen, timer, reload, waitGroup, appliedVersion, current, starter, cancelled, slipped>>

ReloadStep(r) ==
    \/ ReloadAdds(r) \/ ReloadChecks(r) \/ ReadFromViper(r)
    \/ Notify(r) \/ StoreConfig(r) \/ ReloadDone(r)

HotReloadNext ==
    \/ StartWatching \/ EditFile \/ FileChanged
    \/ \E r \in Reloads : DebounceOver(r) \/ ReloadStep(r)
    \/ StartReturns \/ Stop \/ StopReturns

----------------------------------------------------------------------------
(* Feature flags                                                            *)

\* Someone has read a version and not yet stored it.
Carried == refresh.at = "read" \/ \E g \in FlagGets : flagGet[g].at = "read"

\* INSERT ... ON CONFLICT DO UPDATE, or DELETE.
WriteRow(deletes) ==
    /\ flagWrites < MaxFlagWrites /\ flagWrites' = flagWrites + 1
    /\ flagRow' = IF deletes THEN 0 ELSE flagWrites + 1
    /\ flagOverlap' = (flagOverlap \/ Carried)

\* Get: a fresh copy is answered; a row that is missing leaves the cache as it is.
GetFlag(g) ==
    /\ flagGet[g].at = "new"
    /\ flagGet' = [flagGet EXCEPT ![g] =
          IF flagCache # 0 /\ fetched THEN [at |-> "answered", version |-> flagCache]
          ELSE [at |-> IF flagRow = 0 THEN "answered" ELSE "read", version |-> flagRow]]
    /\ UNCHANGED <<flagRow, flagCache, fetched, flagSet, refresh, flagWrites, flagOverlap, elsewhere>>

\* What was read is stored under the lock, whatever has happened to the row since.
StoreFlag(g) ==
    /\ flagGet[g].at = "read"
    /\ flagCache' = flagGet[g].version
    /\ flagGet' = [flagGet EXCEPT ![g].at = "answered"]
    /\ UNCHANGED <<flagRow, fetched, flagSet, refresh, flagWrites, flagOverlap, elsewhere>>

\* updateFeatureFlagHandler, deleteFeatureFlagHandler: for the role "admin" alone.
UpdateFlag(w) ==
    /\ flagSet[w] = "new"
    /\ \/ flagSet' = [flagSet EXCEPT ![w] = "refused"]
          /\ UNCHANGED <<flagRow, flagWrites, flagOverlap>>
       \/ flagSet' = [flagSet EXCEPT ![w] = "written"] /\ WriteRow(FALSE)
    /\ UNCHANGED <<flagCache, fetched, flagGet, refresh, elsewhere>>

DeleteFlag(w) ==
    /\ flagSet[w] = "new"
    /\ flagSet' = [flagSet EXCEPT ![w] = "written"] /\ WriteRow(TRUE)
    /\ UNCHANGED <<flagCache, fetched, flagGet, refresh, elsewhere>>

\* The end of Set and of Delete.
InvalidateFlag(w) ==
    /\ flagSet[w] = "written"
    /\ flagSet' = [flagSet EXCEPT ![w] = "done"]
    /\ flagCache' = 0
    /\ UNCHANGED <<flagRow, fetched, flagGet, refresh, flagWrites, flagOverlap, elsewhere>>

WriteElsewhere ==
    /\ \E deletes \in BOOLEAN : WriteRow(deletes)
    /\ elsewhere' = TRUE
    /\ UNCHANGED <<flagCache, fetched, flagGet, flagSet, refresh>>

\* The loop of StartRefresh: GetAll, or nothing when it fails.
RefreshReads ==
    /\ refresh.at = "idle"
    /\ refresh' = [at |-> "read", version |-> flagRow]
    /\ elsewhere' = (elsewhere /\ flagRow = 0)
    /\ UNCHANGED <<flagRow, flagCache, fetched, flagGet, flagSet, flagWrites, flagOverlap>>

\* A flag that is there is stored; one that has gone is not removed.
RefreshStores ==
    /\ refresh.at = "read"
    /\ flagCache' = IF refresh.version = 0 THEN flagCache ELSE refresh.version
    /\ fetched' = TRUE
    /\ refresh' = [refresh EXCEPT !.at = "idle"]
    /\ UNCHANGED <<flagRow, flagGet, flagSet, flagWrites, flagOverlap, elsewhere>>

\* The ttl is the interval of the loop: a slow or failed refresh lets it run out.
FlagsExpire ==
    /\ fetched /\ fetched' = FALSE
    /\ UNCHANGED <<flagRow, flagCache, flagGet, flagSet, refresh, flagWrites, flagOverlap, elsewhere>>

FlagsNext ==
    \/ \E g \in FlagGets : GetFlag(g) \/ StoreFlag(g)
    \/ \E w \in FlagSets : UpdateFlag(w) \/ DeleteFlag(w) \/ InvalidateFlag(w)
    \/ WriteElsewhere \/ RefreshReads \/ RefreshStores \/ FlagsExpire

\* The two share no variable and go on independently.
ReloadSpec == HotReloadInit /\ [][HotReloadNext]_reloadVars /\ [][FlagsNext]_flagVars

----------------------------------------------------------------------------
\* No event, timer or goroutine is left that could still change anything.
Settled == ~unseen /\ ~timer /\ \A r \in Reloads : reload[r].at \in {"unused", "over"}

\* featureflags.Manager: once the write requests are through, what the cache answers is
\* the row, unless a reader or the refresh carried an older version past the write,
\* or another instance wrote and the loop has not brought it (a deletion, never).
FlagsCurrent ==
    (/\ fetched /\ flagCache # 0 /\ \A w \in FlagSets : flagSet[w] # "written"
     /\ ~flagOverlap /\ ~elsewhere /\ ~Carried)
    => flagCache = flagRow

\* After Stop has returned no reload is left that reads viper, calls a
\* callback or stores a configuration, whatever the timers and goroutines
\* were doing when it was called; a file that fails validation is never
\* applied; and when all is quiet the callbacks and the stored configuration
\* have the file's version, unless an edit came before the watcher or two
\* reloads overlapped (the older of the two may store last).  A feature flag
\* is current as FlagsCurrent says.
ReloadsQuiesce ==
    /\ stopper = "stopped" => \A r \in Reloads : reload[r].at \notin {"read", "notify", "store"}
    /\ {appliedVersion, current} \cap Broken = {}
    /\ FlagsCurrent
    /\ Settled /\ ~slipped /\ ~cancelled /\ configFile \notin Broken => appliedVersion = configFile /\ current = configFile
=============================================================================
