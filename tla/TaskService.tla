------------------------------ MODULE TaskService ------------------------------
(***************************************************************************)
(* The life of a task around the agent: createTaskHandler and its          *)
(* background goroutine (router/tasks.go), the cancel and the HITL         *)
(* handlers that write the same database row (router/tasks.go,             *)
(* router/hitl_handlers.go), the row itself (repository/task.go, whose     *)
(* updates are all unconditional), and crash recovery (server.go).         *)
(*                                                                         *)
(* The agent's steps are AgentLoop's; every nonterminal state it notifies  *)
(* is written to the row.  The queue's answer is any of QueueAnswers,      *)
(* which module GatedAgent justifies.                                      *)
(***************************************************************************)
EXTENDS AgentLoop

CONSTANTS
    MaxConcurrent,  \* capacity of taskSemaphore
    Humans,         \* concurrent cancel and HITL requests
    HumanActions,   \* which of "cancel", "approve", "reject" they may be
    QueueAnswers,   \* what HITLQueue.Submit may answer
    DBFails,        \* whether a statement may fail
    ColumnsFilled,  \* whether a row's text columns all hold values.  Create leaves five
                    \* of them NULL and nothing writes complexity, so in the code as it
                    \* stands they do not; TRUE is a table whose columns have defaults
    MaxCrashes      \* bound on crashes

ASSUME ServiceAssumption ==
    /\ MaxConcurrent \in Nat \ { 0 }
    /\ HumanActions \subseteq { "cancel", "approve", "reject" }
    /\ QueueAnswers \subseteq Answers
    /\ DBFails \in BOOLEAN
    /\ ColumnsFilled \in BOOLEAN
    /\ MaxCrashes \in Nat

VARIABLES
    row,        \* tasks.status, or "absent"
    stale,      \* updated_at is more than 5 minutes old
    job,        \* the create request and its goroutine
    slots,      \* len(taskSemaphore)
    human,      \* the human requests
    server,     \* "up" or "down"
    crashes,    \* how often it went down
    unsaved     \* history: the tasks whose last write, the outcome, failed

rowVars == <<row, stale>>
serviceVars == <<agentVars, row, stale, job, slots, human, server, crashes, unsaved>>

JobSteps ==
    { "none", "admitted", "running", "closing", "gone", "refused", "batch", "lost" }

HumanRequests ==
    [at : { "idle", "missing", "checked", "ok", "conflict", "error", "lost" },
     task : Tasks, action : { "cancel", "approve", "reject" }]

ServiceTypeOK ==
    /\ AgentTypeOK
    /\ row \in [Tasks -> TaskStates \cup { "absent" }]
    /\ stale \in [Tasks -> BOOLEAN]
    /\ job \in [Tasks -> JobSteps]
    /\ slots \in Nat
    /\ human \in [Humans -> HumanRequests]
    /\ server \in { "up", "down" }
    /\ crashes \in 0 .. MaxCrashes
    /\ unsaved \subseteq Tasks

ServiceInit ==
    /\ AgentInit("idle")
    /\ row = [t \in Tasks |-> "absent"]
    /\ stale = [t \in Tasks |-> FALSE]
    /\ job = [t \in Tasks |-> "none"]
    /\ slots = 0
    /\ human \in [Humans -> [at : { "idle" }, task : Tasks, action : HumanActions]]
    /\ server = "up"
    /\ crashes = 0
    /\ unsaved = {}

\* UPDATE tasks SET status = s, updated_at = NOW() WHERE id = t: no condition on
\* the status the row has by now.
Write(t, s) ==
    /\ row' = [row EXCEPT ![t] = s]
    /\ stale' = [stale EXCEPT ![t] = FALSE]

\* The same where the caller only logs a failure.
WriteOrLog(t, s) == Write(t, s) \/ (DBFails /\ UNCHANGED rowVars)

--------------------------------------------------------------------------------
(* createTaskHandler *)

\* The semaphore is taken before the row is created; a full one answers 429.
Admit(t) ==
    /\ server = "up" /\ job[t] = "none"
    /\ \/ /\ slots < MaxConcurrent
          /\ slots' = slots + 1
          /\ job' = [job EXCEPT ![t] = "admitted"]
       \/ /\ slots >= MaxConcurrent
          /\ job' = [job EXCEPT ![t] = "refused"]
          /\ UNCHANGED slots
    /\ UNCHANGED <<agentVars, row, stale, human, server, crashes, unsaved>>

\* Mutant of CreateRow: the failed INSERT keeps the slot.
CreateRowLeaks(t) ==
    /\ job[t] = "admitted"
    /\ \/ /\ Write(t, "pending")
          /\ job' = [job EXCEPT ![t] = "running"]
          /\ pc' = [pc EXCEPT ![t] = "start"]
       \/ /\ DBFails
          /\ job' = [job EXCEPT ![t] = "refused"]
          /\ UNCHANGED <<pc, row, stale>>
    /\ UNCHANGED <<machine, plan, index, tokens, steps, approved, overrun, notified,
                   slots, human, server, crashes, unsaved>>

\* tasks.Create, then the goroutine; a failed INSERT gives the slot back.
CreateRow(t) ==
    /\ job[t] = "admitted"
    /\ \/ /\ Write(t, "pending")
          /\ job' = [job EXCEPT ![t] = "running"]
          /\ pc' = [pc EXCEPT ![t] = "start"]
          /\ UNCHANGED slots
       \/ /\ DBFails
          /\ job' = [job EXCEPT ![t] = "refused"]
          /\ slots' = slots - 1
          /\ UNCHANGED <<pc, row, stale>>
    /\ UNCHANGED <<machine, plan, index, tokens, steps, approved, overrun, notified,
                   human, server, crashes, unsaved>>

\* batchTaskHandler: a pending row and nothing that will ever run it.
CreateBatchRow(t) ==
    /\ server = "up" /\ job[t] = "none"
    /\ Write(t, "pending")
    /\ job' = [job EXCEPT ![t] = "batch"]
    /\ UNCHANGED <<agentVars, slots, human, server, crashes, unsaved>>

--------------------------------------------------------------------------------
(* The background goroutine *)

\* What OnStateChange does to the row after an agent step that notified s.
OnStateChange(t, s) ==
    IF s = "none" \/ IsTerminal(s) THEN UNCHANGED rowVars ELSE WriteOrLog(t, s)

RunAgent(t) ==
    /\ job[t] = "running"
    /\ AgentStep(t) \/ \E a \in QueueAnswers : HITLAnswer(t, a)
    /\ OnStateChange(t, notified'[t])
    /\ UNCHANGED <<job, slots, human, server, crashes, unsaved>>

\* ExecuteTask returned: Complete on a nil error, UpdateStatus(failed) otherwise.
FinalState(t) == IF pc[t] = "returned" THEN "completed" ELSE "failed"

\* The goroutine's last write; a failure is logged.
SaveOutcome(t, s) ==
    \/ Write(t, s) /\ UNCHANGED unsaved
    \/ DBFails /\ UNCHANGED rowVars /\ unsaved' = unsaved \cup { t }

\* Mutant of Finish: only success is written.
FinishKeepsRow(t) ==
    /\ job[t] = "running" /\ pc[t] \in { "returned", "errored" }
    /\ IF pc[t] = "returned" THEN SaveOutcome(t, "completed") ELSE UNCHANGED <<rowVars, unsaved>>
    /\ job' = [job EXCEPT ![t] = "closing"]
    /\ UNCHANGED <<agentVars, slots, human, server, crashes>>

Finish(t) ==
    /\ job[t] = "running" /\ pc[t] \in { "returned", "errored" }
    /\ SaveOutcome(t, FinalState(t))
    /\ job' = [job EXCEPT ![t] = "closing"]
    /\ UNCHANGED <<agentVars, slots, human, server, crashes>>

\* A panic anywhere under ExecuteTask is recovered and marks the row failed.
Panic(t) ==
    /\ job[t] = "running"
    /\ SaveOutcome(t, "failed")
    /\ job' = [job EXCEPT ![t] = "closing"]
    /\ UNCHANGED <<agentVars, slots, human, server, crashes>>

\* The outermost defer gives the slot back.
Release(t) ==
    /\ job[t] = "closing"
    /\ slots' = slots - 1
    /\ job' = [job EXCEPT ![t] = "gone"]
    /\ UNCHANGED <<agentVars, row, stale, human, server, crashes, unsaved>>

--------------------------------------------------------------------------------
(* cancelTaskHandler and approveHITLHandler: read the row, test it, write it *)

Cancellable(s) == s # "absent" /\ ~IsTerminal(s)
AwaitsHuman(s) == s \in { "waiting_hitl", "pending" }

\* Whether FindByID finds the row: it scans every text column into a Go string, which
\* holds no NULL.
FindByID == { found \in BOOLEAN : IF found THEN ColumnsFilled ELSE DBFails \/ ~ColumnsFilled }

\* Any error of FindByID is answered as if there were no such task (404 from
\* approveHITLHandler, 403 from cancelTaskHandler).
HumanReads(h) ==
    LET s == row[human[h].task]
        allowed == IF human[h].action = "cancel" THEN Cancellable(s) ELSE AwaitsHuman(s)
    IN
    /\ server = "up" /\ human[h].at = "idle" /\ s # "absent"
    /\ \E found \in FindByID :
          human' = [human EXCEPT ![h].at =
              CASE ~found -> "missing"
                [] found /\ allowed -> "checked"
                [] found /\ ~allowed -> "conflict"]
    /\ UNCHANGED <<agentVars, row, stale, job, slots, server, crashes, unsaved>>

HumanStatus(action) ==
    CASE action = "cancel"  -> "cancelled"
      [] action = "approve" -> "executing"
      [] action = "reject"  -> "failed"

HumanWrites(h) ==
    /\ human[h].at = "checked"
    /\ \/ /\ Write(human[h].task, HumanStatus(human[h].action))
          /\ human' = [human EXCEPT ![h].at = "ok"]
       \/ /\ DBFails
          /\ human' = [human EXCEPT ![h].at = "error"]
          /\ UNCHANGED rowVars
    /\ UNCHANGED <<agentVars, job, slots, server, crashes, unsaved>>

--------------------------------------------------------------------------------
(* Crash, restart, time *)

HoldsSlot(t) == job[t] \in { "admitted", "running", "closing" }

\* What is left of a variable in memory whose initial value is v.
Forget(f, v) == [t \in Tasks |-> IF HoldsSlot(t) THEN v ELSE f[t]]

\* Everything in memory is lost; the rows stay.  (pc remembers a return.)
Crash ==
    /\ server = "up" /\ crashes < MaxCrashes
    /\ server' = "down"
    /\ crashes' = crashes + 1
    /\ job' = Forget(job, "lost")
    /\ pc' = [t \in Tasks |-> IF HoldsSlot(t) /\ pc[t] # "returned" THEN "idle" ELSE pc[t]]
    /\ machine' = Forget(machine, NewTask)
    /\ plan' = Forget(plan, <<>>)
    /\ index' = Forget(index, 0)
    /\ tokens' = Forget(tokens, 0)
    /\ steps' = Forget(steps, <<>>)
    /\ approved' = Forget(approved, {})
    /\ overrun' = Forget(overrun, 0)
    /\ notified' = Forget(notified, "none")
    /\ human' = [h \in Humans |->
                  IF human[h].at = "checked" THEN [human[h] EXCEPT !.at = "lost"] ELSE human[h]]
    /\ slots' = 0
    /\ UNCHANGED <<row, stale, unsaved>>

\* recoverStuckTasks' WHERE clause.
Recovered(t) ==
    row[t] \in { "executing", "planning", "waiting_hitl", "pending" } /\ stale[t]

RecoverStuckTasks ==
    /\ row' = [t \in Tasks |-> IF Recovered(t) THEN "failed" ELSE row[t]]
    /\ stale' = [t \in Tasks |-> IF Recovered(t) THEN FALSE ELSE stale[t]]

Restart ==
    /\ server = "down"
    /\ server' = "up"
    /\ RecoverStuckTasks
    /\ UNCHANGED <<agentVars, job, slots, human, crashes, unsaved>>

\* Another replica of the deployment starts and runs the same recovery.
ReplicaStarts ==
    /\ server = "up"
    /\ \E t \in Tasks : Recovered(t)
    /\ RecoverStuckTasks
    /\ UNCHANGED <<agentVars, job, slots, human, server, crashes, unsaved>>

\* Five minutes pass without an update of the row.
GoStale(t) ==
    /\ ~stale[t] /\ row[t] # "absent" /\ ~IsTerminal(row[t])
    /\ stale' = [stale EXCEPT ![t] = TRUE]
    /\ UNCHANGED <<agentVars, row, job, slots, human, server, crashes, unsaved>>

--------------------------------------------------------------------------------

Goroutine(t) == CreateRow(t) \/ RunAgent(t) \/ Finish(t) \/ Release(t)

ServiceNext ==
    \/ \E t \in Tasks :
          Admit(t) \/ CreateBatchRow(t) \/ Goroutine(t) \/ Panic(t) \/ GoStale(t)
    \/ \E h \in Humans : HumanReads(h) \/ HumanWrites(h)
    \/ Crash \/ Restart \/ ReplicaStarts

ServiceSpec == ServiceInit /\ [][ServiceNext]_serviceVars

\* Goroutines and handlers that started run on; nothing makes a human or a
\* crash happen.
ServiceLiveSpec ==
    /\ ServiceSpec
    /\ \A t \in Tasks : WF_serviceVars(Goroutine(t))
    /\ \A h \in Humans : WF_serviceVars(HumanWrites(h))

--------------------------------------------------------------------------------
(* Properties *)

(***************************************************************************)
(* tasks.go:78-101, 113-116.  The semaphore counts exactly the goroutines  *)
(* and half-created tasks, through failed inserts, panics and crashes, and *)
(* never more than its capacity; and no row exists that was not paid for   *)
(* with a slot ("so we never orphan a task"), unless it came as a batch.   *)
(***************************************************************************)
SlotAccounting ==
    /\ slots = Cardinality({ t \in Tasks : HoldsSlot(t) })
    /\ slots <= MaxConcurrent
    /\ \A t \in Tasks : row[t] # "absent" => job[t] \notin { "none", "admitted", "refused" }

(***************************************************************************)
(* tasks.go:150-158.  "completed" appears in the row only after            *)
(* ExecuteTask has returned without an error: no intermediate write,       *)
(* panic, human or recovery produces it, so its result and cost are there. *)
(***************************************************************************)
CompletedAfterReturn ==
    \A t \in Tasks : row[t] = "completed" => pc[t] = "returned" /\ job[t] # "running"

(***************************************************************************)
(* tasks.go:113-250.  A goroutine that ended leaves a terminal row behind, *)
(* whatever cancels, rejections, panics and recoveries by other replicas   *)
(* came in between: the only way out is the outcome's own failed UPDATE,   *)
(* and, where rows can be read at all, an approval through                 *)
(* POST /tasks/{id}/hitl whose test and write are two statements.          *)
(***************************************************************************)
FinishedIsTerminal ==
    \A t \in Tasks \ unsaved :
        job[t] \in { "closing", "gone" } =>
            \/ IsTerminal(row[t])
            \/ ColumnsFilled /\ \E h \in Humans :
                  human[h].task = t /\ human[h].action = "approve" /\ human[h].at = "ok"

(***************************************************************************)
(* tasks.go:78-158.  Semaphore, goroutines and rows agree: no slot is      *)
(* leaked or oversold and no row completed early.                          *)
(***************************************************************************)
ServiceConsistent == ServiceTypeOK /\ SlotAccounting /\ CompletedAfterReturn

--------------------------------------------------------------------------------
(* What comments and documents say and the code does not do *)

(***************************************************************************)
(* router/hitl_handlers.go:43-46, router/tasks.go:382-396.  The handlers   *)
(* answer "task not found" where the task does not exist: a request about  *)
(* a row that was created gets past FindByID.                              *)
(***************************************************************************)
RowsAreFound ==
    \A h \in Humans : human[h].at = "missing" => row[human[h].task] = "absent"

(***************************************************************************)
(* server.go:617-618: recovery "marks tasks stuck in non-terminal states   *)
(* for > 5 minutes as failed", the "tasks that were interrupted by a       *)
(* server crash": the server comes up again with none of them left.        *)
(***************************************************************************)
RecoversStuckTasks ==
    [][server = "down" /\ server' = "up" =>
          \A t \in Tasks : job[t] = "lost" /\ stale[t] => IsTerminal(row'[t])]_serviceVars

================================================================================
