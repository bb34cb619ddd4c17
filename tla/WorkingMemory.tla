----------------------------- MODULE WorkingMemory -----------------------------
(***************************************************************************)
(* The memory manager (internal/memory/manager.go) behind POST /v1/memory  *)
(* and /v1/memory/search.  One working memory, "global", is shared by all  *)
(* users of a server and saved whole in Redis after every message, outside *)
(* the lock; episodes and patterns are rows.  Recall asks working memory,  *)
(* then episodes, then patterns.                                           *)
(***************************************************************************)
EXTENDS Integers, FiniteSets, SequencesExt

CONSTANTS
    Memories,       \* contents to remember; each is stored once
    Owner,          \* [Memories -> Rememberers \cup { SystemUser }]
    Rememberers,    \* users
    SystemUser,     \* the empty user id
    RecallLimit,    \* the limit of a recall
    RedisDown       \* whether a write to Redis may fail

ASSUME WorkingMemoryAssumption ==
    /\ SystemUser \notin Rememberers /\ Owner \in [Memories -> Rememberers \cup { SystemUser }]
    /\ RecallLimit \in Nat \ { 0 } /\ RedisDown \in BOOLEAN

VARIABLES
    working,        \* WorkingMemory.messages
    saved,          \* the messages under the Redis key
    adding,         \* [Memories -> how far its Add, or its INSERT, is]
    snapshot,       \* [Memories -> the messages its persistToRedis copied]
    episodes, patterns,
    misshown,       \* history: a recall showed another user's memory, or too many
    overlapped      \* pairs of messages whose Adds were in progress together

memoryVars == <<working, saved, adding, snapshot, episodes, patterns, misshown, overlapped>>

WorkingMemoryInit ==
    /\ working = <<>> /\ saved = <<>>
    /\ adding = [m \in Memories |-> "new"] /\ snapshot = [m \in Memories |-> <<>>]
    /\ episodes = {} /\ patterns = {}
    /\ misshown = FALSE /\ overlapped = {}

InProgress == { m \in Memories : adding[m] \in { "added", "copied" } }

\* Working memory shows a message to its owner, a system message to everyone, and
\* everything to a caller without a user id.
Visible(u, m) == u = SystemUser \/ Owner[m] \in { SystemUser, u }

(* Mutants *)

\* A server that starts does not read the key.
RestartEmpty ==
    /\ working' = <<>>
    /\ adding' = [m \in Memories |-> IF m \in InProgress THEN "lost" ELSE adding[m]]
    /\ snapshot' = [m \in Memories |-> <<>>]
    /\ UNCHANGED <<saved, episodes, patterns, misshown, overlapped>>

--------------------------------------------------------------------------------
(* Storing *)

\* Add, under the lock.
Add(m) ==
    /\ adding[m] = "new"
    /\ working' = Append(working, m)
    /\ adding' = [adding EXCEPT ![m] = "added"]
    /\ overlapped' = overlapped \cup { { m, x } : x \in InProgress }
    /\ UNCHANGED <<saved, snapshot, episodes, patterns, misshown>>

\* persistToRedis copies the messages under the read lock ...
CopyMessages(m) ==
    /\ adding[m] = "added"
    /\ snapshot' = [snapshot EXCEPT ![m] = working]
    /\ adding' = [adding EXCEPT ![m] = "copied"]
    /\ UNCHANGED <<working, saved, episodes, patterns, misshown, overlapped>>

\* ... and writes them with no lock; an error is logged.
PersistToRedis(m) ==
    /\ adding[m] = "copied"
    /\ \/ saved' = snapshot[m] /\ adding' = [adding EXCEPT ![m] = "done"]
       \/ RedisDown /\ adding' = [adding EXCEPT ![m] = "unsaved"] /\ UNCHANGED saved
    /\ snapshot' = [snapshot EXCEPT ![m] = <<>>]
    /\ UNCHANGED <<working, episodes, patterns, misshown, overlapped>>

\* A row is inserted, with a zero vector where the embedding failed.
StoreEpisode(m) ==
    /\ adding[m] = "new"
    /\ adding' = [adding EXCEPT ![m] = "stored"]
    /\ episodes' = episodes \cup { m }
    /\ UNCHANGED <<working, saved, snapshot, patterns, misshown, overlapped>>

StorePattern(m) ==
    /\ adding[m] = "new"
    /\ adding' = [adding EXCEPT ![m] = "stored"]
    /\ patterns' = patterns \cup { m }
    /\ UNCHANGED <<working, saved, snapshot, episodes, misshown, overlapped>>

--------------------------------------------------------------------------------
(* Recalling *)

\* Search scans the messages in order, up to the limit; a query matches any subset.
Hits(u, matching) ==
    { i \in 1 .. Len(working) : working[i] \in matching /\ Visible(u, working[i]) }

SearchWorking(u, matching) ==
    { working[i] : i \in { i \in Hits(u, matching) :
          Cardinality(Hits(u, matching) \cap 1 .. i) <= RecallLimit } }

\* The rows of a user nearest to the query, n at most.
SearchEpisodes(u, n) ==
    { R \in SUBSET { m \in episodes : u = SystemUser \/ Owner[m] = u } : Cardinality(R) <= n }

\* The query of SemanticStore.Search returns eleven columns and its rows are
\* scanned into ten variables: every row is skipped and the search ends in an
\* error, which Recall ignores.
SearchPatterns(u, n) == { {} }

Shows(u, answer) ==
    misshown' = (misshown \/ Cardinality(answer) > RecallLimit
                          \/ \E m \in answer : Owner[m] \notin { u, SystemUser })

Recall(u) ==
    /\ \E matching \in SUBSET ToSet(working) :
          LET first == SearchWorking(u, matching)
              left == RecallLimit - Cardinality(first)
          IN  \/ Shows(u, first)
              \/ /\ left > 0
                 /\ \E E \in SearchEpisodes(u, left) :
                    \E P \in SearchPatterns(u, left - Cardinality(E)) :
                       Shows(u, first \cup E \cup P)
    /\ UNCHANGED <<working, saved, adding, snapshot, episodes, patterns, overlapped>>

\* The server stops and starts: EnableRedisBacking reads the key, and Adds that
\* were in progress are lost.
Restart ==
    /\ working' = saved
    /\ adding' = [m \in Memories |-> IF m \in InProgress THEN "lost" ELSE adding[m]]
    /\ snapshot' = [m \in Memories |-> <<>>]
    /\ UNCHANGED <<saved, episodes, patterns, misshown, overlapped>>

WorkingMemoryNext ==
    \/ \E m \in Memories :
          Add(m) \/ CopyMessages(m) \/ PersistToRedis(m) \/ StoreEpisode(m) \/ StorePattern(m)
    \/ \E u \in Rememberers : Recall(u)
    \/ Restart

WorkingMemorySpec == WorkingMemoryInit /\ [][WorkingMemoryNext]_memoryVars

--------------------------------------------------------------------------------
(* Properties *)

\* Add, persistToRedis, Recall: a message whose Add has been saved is in Redis, through
\* every restart, unless another Add was in progress at the same time; and whatever was
\* added, saved and loaded before, a user is shown no other user's memory, and no more
\* than the limit.
LostOnlyByOverlap ==
    /\ \A m \in Memories : adding[m] = "done" =>
          \/ Contains(saved, m)
          \/ \E x \in Memories \ { m } : { m, x } \in overlapped
    /\ ~misshown
================================================================================
