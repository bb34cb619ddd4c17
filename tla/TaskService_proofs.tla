--------------------------- MODULE TaskService_proofs ---------------------------
(***************************************************************************)
(* The task service for any number of tasks, slots, requests and crashes.  *)
(* The agent's own invariant is reused: the service runs it unchanged,     *)
(* starts it on a fresh record and wipes it in a crash.                    *)
(***************************************************************************)
EXTENDS TaskService, AgentLoop_proofs

Holders == { t \in Tasks : HoldsSlot(t) }

(***************************************************************************)
(* The semaphore's count is inductive only with the finiteness of its      *)
(* holders, and the agent's types only when a goroutine starts on a record *)
(* in which no step has run.                                               *)
(***************************************************************************)
ServiceInv ==
    /\ AgentInv
    /\ ServiceTypeOK
    /\ IsFiniteSet(Holders)
    /\ slots = Cardinality(Holders) /\ slots <= MaxConcurrent
    /\ \A t \in Tasks : row[t] # "absent" => job[t] \notin { "none", "admitted", "refused" }
    /\ \A t \in Tasks : job[t] \in { "none", "admitted" } => steps[t] = <<>>
    /\ CompletedAfterReturn

\* A handler that passed its test could read a row, and rows are never deleted.
CheckedRows ==
    \A h \in Humans :
        /\ human[h].at = "checked" => row[human[h].task] # "absent"
        /\ human[h].at \in { "checked", "ok" } => ColumnsFilled

--------------------------------------------------------------------------------
(* The semaphore *)

\* A task that enters or leaves moves the count by one; nobody else matters.
LEMMA HoldersChange ==
    ASSUME ServiceInv, NEW t \in Tasks, NEW j \in JobSteps, job' = [job EXCEPT ![t] = j]
    PROVE  LET after == j \in { "admitted", "running", "closing" } IN
           /\ IsFiniteSet(Holders')
           /\ HoldsSlot(t) /\ after => Cardinality(Holders') = slots
           /\ ~HoldsSlot(t) /\ ~after => Cardinality(Holders') = slots
           /\ ~HoldsSlot(t) /\ after => Cardinality(Holders') = slots + 1
           /\ HoldsSlot(t) /\ ~after => slots > 0 /\ Cardinality(Holders') = slots - 1
  <1> DEFINE after == j \in { "admitted", "running", "closing" }
  <1>1. job \in [Tasks -> JobSteps] /\ IsFiniteSet(Holders) /\ slots = Cardinality(Holders)
        /\ slots \in Nat
    BY DEF ServiceInv, ServiceTypeOK
  <1>2. /\ job'[t] = j
        /\ \A u \in Tasks : u # t => job'[u] = job[u]
    BY <1>1
  <1>3. Holders' = IF after THEN Holders \cup { t } ELSE Holders \ { t }
    BY <1>2 DEF Holders, HoldsSlot
  <1>4. t \in Holders <=> HoldsSlot(t)
    BY DEF Holders
  <1>5. CASE after
    <2>1. /\ IsFiniteSet(Holders \cup { t })
          /\ Cardinality(Holders \cup { t }) = IF t \in Holders THEN slots ELSE slots + 1
      BY <1>1, FS_AddElement
    <2> QED
      BY <1>3, <1>4, <1>5, <2>1
  <1>6. CASE ~after
    <2>1. /\ IsFiniteSet(Holders \ { t })
          /\ Cardinality(Holders \ { t }) = IF t \in Holders THEN slots - 1 ELSE slots
      BY <1>1, FS_RemoveElement
    <2>2. HoldsSlot(t) => slots > 0
      BY <1>1, <1>4, FS_EmptySet
    <2> QED
      BY <1>3, <1>4, <1>6, <2>1, <2>2
  <1> QED
    BY <1>5, <1>6

\* The count stands when no job changes.
LEMMA HoldersStay ==
    ASSUME ServiceInv, job' = job
    PROVE  IsFiniteSet(Holders') /\ Cardinality(Holders') = slots
  <1>1. Holders' = Holders
    BY DEF Holders, HoldsSlot
  <1> QED
    BY <1>1 DEF ServiceInv

--------------------------------------------------------------------------------
(* Initial states *)

\* An empty service (tasks.go:78-101).
LEMMA ServiceInitInv == ServiceInit => ServiceInv
  <1> SUFFICES ASSUME ServiceInit PROVE ServiceInv
    OBVIOUS
  <1>1. NewTask \in MachineTask
    BY DEF NewTask, MachineTask, TaskStates
  <1>2. AgentTypeOK
    BY <1>1 DEF ServiceInit, AgentInit, AgentTypeOK, Locations
  <1>3. ASSUME NEW t \in Tasks PROVE GateInv(t)
    BY DEF ServiceInit, AgentInit, GateInv
  <1>4. human \in [Humans -> HumanRequests]
    BY ServiceAssumption DEF ServiceInit, HumanRequests
  <1>5. ServiceTypeOK
    BY <1>2, <1>4, ServiceAssumption DEF ServiceInit, ServiceTypeOK, JobSteps
  <1>6. Holders = {}
    BY DEF ServiceInit, Holders, HoldsSlot
  <1>7. IsFiniteSet(Holders) /\ Cardinality(Holders) = 0
    BY <1>6, FS_EmptySet
  <1>8. slots = 0 /\ slots <= MaxConcurrent
    BY ServiceAssumption DEF ServiceInit
  <1>9. \A t \in Tasks : row[t] = "absent" /\ steps[t] = <<>>
    BY DEF ServiceInit, AgentInit
  <1> QED
    BY <1>2, <1>3, <1>5, <1>7, <1>8, <1>9 DEF ServiceInv, AgentInv, CompletedAfterReturn

--------------------------------------------------------------------------------
(* Steps *)

\* What the agent owns stays good when the service touches nothing of it.
LEMMA AgentStays ==
    ASSUME ServiceInv, UNCHANGED agentVars
    PROVE  AgentInv' /\ pc' = pc /\ steps' = steps
  <1>1. AgentInv /\ AgentTypeOK
    BY DEF ServiceInv, AgentInv
  <1> QED
    BY <1>1, AgentNextTyping, AgentNextGate DEF AgentInv, agentVars

\* An UPDATE of the row, or none (repository/task.go:208-250).
LEMMA WriteTyping ==
    ASSUME ServiceTypeOK, NEW t \in Tasks, NEW s \in TaskStates,
           Write(t, s) \/ UNCHANGED rowVars
    PROVE  /\ row' \in [Tasks -> TaskStates \cup { "absent" }]
           /\ stale' \in [Tasks -> BOOLEAN]
           /\ \A u \in Tasks : row'[u] = row[u] \/ (u = t /\ row'[u] = s)
           /\ Write(t, s) => row'[t] = s
  BY DEF ServiceTypeOK, Write, rowVars

\* The handler: admission, INSERT and batch rows (tasks.go:78-116,
\* batch.go:197-264).
LEMMA CreateStep ==
    ASSUME ServiceInv, NEW t \in Tasks, Admit(t) \/ CreateRow(t) \/ CreateBatchRow(t)
    PROVE  ServiceInv'
  <1>t. /\ ServiceTypeOK /\ AgentInv /\ AgentTypeOK /\ job \in [Tasks -> JobSteps]
        /\ slots \in Nat /\ slots <= MaxConcurrent /\ MaxConcurrent \in Nat
    BY ServiceAssumption DEF ServiceInv, ServiceTypeOK, AgentInv
  <1>1. CASE Admit(t)
    <2>1. /\ job[t] = "none" /\ ~HoldsSlot(t)
          /\ UNCHANGED <<row, stale, human, server, crashes, unsaved>> /\ UNCHANGED agentVars
      BY <1>1 DEF Admit, HoldsSlot
    <2>2. /\ AgentInv' /\ pc' = pc /\ steps' = steps
      BY <2>1, AgentStays
    <2>3. PICK j \in { "admitted", "refused" } :
              /\ job' = [job EXCEPT ![t] = j]
              /\ j = "admitted" => slots < MaxConcurrent /\ slots' = slots + 1
              /\ j = "refused" => slots' = slots
      BY <1>1 DEF Admit
    <2>4. job' \in [Tasks -> JobSteps] /\ job'[t] = j /\ \A u \in Tasks : u # t => job'[u] = job[u]
      BY <1>t, <2>3 DEF JobSteps
    <2>5. IsFiniteSet(Holders') /\ slots' = Cardinality(Holders')
      BY <2>1, <2>3, HoldersChange DEF JobSteps
    <2>6. slots' \in Nat /\ slots' <= MaxConcurrent
      BY <1>t, <2>3
    <2>7. ServiceTypeOK'
      BY <1>t, <2>1, <2>2, <2>4, <2>6 DEF ServiceTypeOK, AgentInv
    <2>8. row[t] = "absent" /\ steps[t] = <<>>
      BY <2>1 DEF ServiceInv
    <2> QED
      BY <2>1, <2>2, <2>4, <2>5, <2>6, <2>7, <2>8 DEF ServiceInv, CompletedAfterReturn
  <1>2. CASE CreateRow(t)
    <2>1. /\ job[t] = "admitted" /\ HoldsSlot(t) /\ row[t] = "absent" /\ steps[t] = <<>>
          /\ UNCHANGED <<machine, plan, index, tokens, steps, approved, overrun, notified,
                         human, server, crashes, unsaved>>
      BY <1>2 DEF CreateRow, HoldsSlot, ServiceInv
    <2>2. CASE /\ Write(t, "pending") /\ job' = [job EXCEPT ![t] = "running"]
               /\ pc' = [pc EXCEPT ![t] = "start"] /\ slots' = slots
      <3>1. /\ job' \in [Tasks -> JobSteps] /\ job'[t] = "running"
            /\ \A u \in Tasks : u # t => job'[u] = job[u]
        BY <1>t, <2>2 DEF JobSteps
      <3>2. pc' \in [Tasks -> Locations] /\ pc'[t] = "start" /\ \A u \in Tasks : u # t => pc'[u] = pc[u]
        BY <1>t, <2>2 DEF AgentTypeOK, Locations
      <3>3. AgentTypeOK'
        BY <1>t, <2>1, <3>2 DEF AgentTypeOK
      <3>4. ASSUME NEW u \in Tasks PROVE GateInv(u)'
        <4>1. GateInv(u)
          BY <1>t DEF AgentInv
        <4>2. CASE u = t
          BY <2>1, <3>2, <4>2 DEF GateInv
        <4>3. CASE u # t
          BY <2>1, <3>2, <4>1, <4>3, GateFrame
        <4> QED
          BY <4>2, <4>3
      <3>5. /\ row' \in [Tasks -> TaskStates \cup { "absent" }] /\ stale' \in [Tasks -> BOOLEAN]
            /\ row'[t] = "pending" /\ \A u \in Tasks : u # t => row'[u] = row[u]
        BY <1>t, <2>2, WriteTyping DEF TaskStates
      <3>6. IsFiniteSet(Holders') /\ slots' = Cardinality(Holders')
        BY <2>1, <2>2, HoldersChange DEF JobSteps
      <3>7. ServiceTypeOK'
        BY <1>t, <2>1, <2>2, <3>1, <3>3, <3>5 DEF ServiceTypeOK
      <3> QED
        BY <1>t, <2>1, <2>2, <3>1, <3>2, <3>3, <3>4, <3>5, <3>6, <3>7
        DEF ServiceInv, AgentInv, CompletedAfterReturn
    <2>3. CASE /\ job' = [job EXCEPT ![t] = "refused"] /\ slots' = slots - 1
               /\ UNCHANGED <<pc, row, stale>>
      <3>1. /\ job' \in [Tasks -> JobSteps] /\ job'[t] = "refused"
            /\ \A u \in Tasks : u # t => job'[u] = job[u]
        BY <1>t, <2>3 DEF JobSteps
      <3>2. /\ AgentInv' /\ pc' = pc /\ steps' = steps
        BY <2>1, <2>3, AgentStays DEF agentVars
      <3>3. IsFiniteSet(Holders') /\ slots' = Cardinality(Holders') /\ slots > 0
        BY <2>1, <2>3, HoldersChange DEF JobSteps
      <3>4. slots' \in Nat /\ slots' <= MaxConcurrent
        BY <1>t, <2>3, <3>3
      <3>5. ServiceTypeOK'
        BY <1>t, <2>1, <2>3, <3>1, <3>2, <3>4 DEF ServiceTypeOK, AgentInv
      <3> QED
        BY <2>1, <2>3, <3>1, <3>2, <3>3, <3>4, <3>5 DEF ServiceInv, CompletedAfterReturn
    <2> QED
      BY <1>2, <2>2, <2>3 DEF CreateRow
  <1>3. CASE CreateBatchRow(t)
    <2>1. /\ job[t] = "none" /\ ~HoldsSlot(t) /\ job' = [job EXCEPT ![t] = "batch"]
          /\ Write(t, "pending")
          /\ UNCHANGED <<slots, human, server, crashes, unsaved>> /\ UNCHANGED agentVars
      BY <1>3 DEF CreateBatchRow, HoldsSlot
    <2>2. /\ AgentInv' /\ pc' = pc /\ steps' = steps
      BY <2>1, AgentStays
    <2>3. /\ job' \in [Tasks -> JobSteps] /\ job'[t] = "batch"
          /\ \A u \in Tasks : u # t => job'[u] = job[u]
      BY <1>t, <2>1 DEF JobSteps
    <2>4. IsFiniteSet(Holders') /\ slots' = Cardinality(Holders')
      BY <2>1, HoldersChange DEF JobSteps
    <2>5. /\ row' \in [Tasks -> TaskStates \cup { "absent" }] /\ stale' \in [Tasks -> BOOLEAN]
          /\ row'[t] = "pending" /\ \A u \in Tasks : u # t => row'[u] = row[u]
      BY <1>t, <2>1, WriteTyping DEF TaskStates
    <2>6. ServiceTypeOK'
      BY <1>t, <2>1, <2>2, <2>3, <2>5 DEF ServiceTypeOK, AgentInv
    <2> QED
      BY <1>t, <2>1, <2>2, <2>3, <2>4, <2>5, <2>6 DEF ServiceInv, CompletedAfterReturn
  <1> QED
    BY <1>1, <1>2, <1>3

\* The goroutine runs the agent and writes what it notifies (tasks.go:127-214).
LEMMA RunAgentStep ==
    ASSUME ServiceInv, NEW t \in Tasks, RunAgent(t)
    PROVE  ServiceInv'
  <1>t. ServiceTypeOK /\ AgentInv /\ AgentTypeOK
    BY DEF ServiceInv, AgentInv
  <1>1. /\ job[t] = "running" /\ OnStateChange(t, notified'[t])
        /\ UNCHANGED <<job, slots, human, server, crashes, unsaved>>
        /\ AgentStep(t) \/ \E a \in QueueAnswers : HITLAnswer(t, a)
    BY DEF RunAgent
  <1>2. AgentNext
    BY <1>1, ServiceAssumption DEF AgentNext
  <1>3. AgentInv' /\ AgentTypeOK'
    BY <1>t, <1>2, AgentNextTyping, AgentNextGate DEF AgentInv
  <1>4. ASSUME NEW u \in Tasks, u # t PROVE pc'[u] = pc[u] /\ steps'[u] = steps[u]
    <2>f. pc \in [Tasks -> Locations] /\ steps \in [Tasks -> Seq(StepResults)]
      BY <1>t DEF AgentTypeOK
    <2>1. CASE Start(t) \/ LeaveLoop(t) \/ Review(t) \/ EnterStep(t) \/ PlanTask(t) \/ Reflect(t)
      BY <1>4, <2>f, <2>1 DEF Start, LeaveLoop, Review, EnterStep, PlanTask, Reflect, Goto
    <2>2. CASE RequireHITL(t)
      BY <1>4, <2>f, <2>2 DEF RequireHITL, Goto
    <2>3. CASE HITLApproved(t) \/ HITLRefused(t)
      BY <1>4, <2>f, <2>3 DEF HITLApproved, HITLRefused, Goto
    <2>4. CASE ExecuteStep(t)
      BY <1>4, <2>f, <2>4 DEF ExecuteStep, Goto
    <2> QED
      BY <1>1, <2>1, <2>2, <2>3, <2>4 DEF AgentStep, HITLAnswer
  <1>5. PICK s \in TaskStates :
            /\ ~IsTerminal(s)
            /\ Write(t, s) \/ UNCHANGED rowVars
    <2>1. notified'[t] \in TaskStates \cup { "none" } /\ "pending" \in TaskStates
          /\ ~IsTerminal("pending")
      BY <1>3 DEF AgentTypeOK, TaskStates, IsTerminal, TerminalStates
    <2> QED
      BY <1>1, <2>1 DEF OnStateChange, WriteOrLog
  <1>6. /\ row' \in [Tasks -> TaskStates \cup { "absent" }] /\ stale' \in [Tasks -> BOOLEAN]
        /\ \A u \in Tasks : row'[u] = row[u] \/ (u = t /\ row'[u] = s)
    BY <1>t, <1>5, WriteTyping
  <1>7. s # "completed" /\ row[t] # "completed"
    BY <1>1, <1>5 DEF IsTerminal, TerminalStates, ServiceInv, CompletedAfterReturn
  <1>8. ServiceTypeOK'
    BY <1>t, <1>1, <1>3, <1>6 DEF ServiceTypeOK
  <1>9. IsFiniteSet(Holders') /\ slots' = Cardinality(Holders') /\ slots' <= MaxConcurrent
    BY <1>1, HoldersStay DEF ServiceInv
  <1> QED
    BY <1>1, <1>3, <1>4, <1>6, <1>7, <1>8, <1>9 DEF ServiceInv, CompletedAfterReturn

\* The goroutine's end: the outcome's write, and the slot (tasks.go:113-126, 215-250).
LEMMA EndStep ==
    ASSUME ServiceInv, NEW t \in Tasks, Finish(t) \/ Panic(t) \/ Release(t)
    PROVE  ServiceInv'
  <1>t. /\ ServiceTypeOK /\ AgentInv /\ job \in [Tasks -> JobSteps]
        /\ slots \in Nat /\ slots <= MaxConcurrent /\ MaxConcurrent \in Nat
    BY ServiceAssumption DEF ServiceInv, ServiceTypeOK
  <1>a. HoldsSlot(t) /\ UNCHANGED <<human, server, crashes>> /\ UNCHANGED agentVars
    BY DEF Finish, Panic, Release, HoldsSlot
  <1>b. AgentInv' /\ pc' = pc /\ steps' = steps
    BY <1>a, AgentStays
  <1>1. CASE Finish(t) \/ Panic(t)
    <2>1. PICK s \in { "completed", "failed" } :
              /\ job[t] = "running" /\ SaveOutcome(t, s)
              /\ s = "completed" => pc[t] = "returned"
              /\ job' = [job EXCEPT ![t] = "closing"] /\ slots' = slots
      BY <1>1 DEF Finish, Panic, FinalState
    <2>2. /\ job' \in [Tasks -> JobSteps] /\ job'[t] = "closing"
          /\ \A u \in Tasks : u # t => job'[u] = job[u]
      BY <1>t, <2>1 DEF JobSteps
    <2>3. unsaved' \subseteq Tasks
      BY <1>t, <2>1 DEF SaveOutcome, ServiceTypeOK
    <2>4. Write(t, s) \/ UNCHANGED rowVars
      BY <2>1 DEF SaveOutcome
    <2>5. /\ row' \in [Tasks -> TaskStates \cup { "absent" }] /\ stale' \in [Tasks -> BOOLEAN]
          /\ \A u \in Tasks : row'[u] = row[u] \/ (u = t /\ row'[u] = s)
      BY <1>t, <2>4, WriteTyping DEF TaskStates
    <2>6. IsFiniteSet(Holders') /\ slots' = Cardinality(Holders')
      BY <1>a, <2>1, HoldersChange DEF JobSteps
    <2>7. ServiceTypeOK'
      BY <1>t, <1>a, <1>b, <2>1, <2>2, <2>3, <2>5 DEF ServiceTypeOK, AgentInv
    <2> QED
      BY <1>t, <1>b, <2>1, <2>2, <2>5, <2>6, <2>7 DEF ServiceInv, CompletedAfterReturn
  <1>2. CASE Release(t)
    <2>1. /\ job[t] = "closing" /\ job' = [job EXCEPT ![t] = "gone"] /\ slots' = slots - 1
          /\ UNCHANGED <<row, stale, unsaved>>
      BY <1>2 DEF Release
    <2>2. /\ job' \in [Tasks -> JobSteps] /\ job'[t] = "gone"
          /\ \A u \in Tasks : u # t => job'[u] = job[u]
      BY <1>t, <2>1 DEF JobSteps
    <2>3. IsFiniteSet(Holders') /\ slots' = Cardinality(Holders') /\ slots > 0
      BY <1>a, <2>1, HoldersChange DEF JobSteps
    <2>4. slots' \in Nat /\ slots' <= MaxConcurrent
      BY <1>t, <2>1, <2>3
    <2>5. ServiceTypeOK'
      BY <1>t, <1>a, <1>b, <2>1, <2>2, <2>4 DEF ServiceTypeOK, AgentInv
    <2> QED
      BY <1>b, <2>1, <2>2, <2>3, <2>4, <2>5 DEF ServiceInv, CompletedAfterReturn
  <1> QED
    BY <1>1, <1>2

\* A human's write never says "completed" (tasks.go:382-418,
\* hitl_handlers.go:87-98).
LEMMA HumanStatusTyping ==
    ASSUME NEW a \in { "cancel", "approve", "reject" }
    PROVE  /\ HumanStatus(a) \in TaskStates \ { "completed" }
           /\ a # "approve" => IsTerminal(HumanStatus(a))
  BY DEF HumanStatus, TaskStates, IsTerminal, TerminalStates

\* The rest of the service: requests by humans, recovery by any replica, and time.
LEMMA OutsideStep ==
    ASSUME ServiceInv, CheckedRows,
           \/ \E t \in Tasks : GoStale(t)
           \/ \E h \in Humans : HumanReads(h) \/ HumanWrites(h)
           \/ Restart \/ ReplicaStarts
           \/ UNCHANGED serviceVars
    PROVE  ServiceInv'
  <1>t. ServiceTypeOK /\ AgentInv
    BY DEF ServiceInv
  <1>a. UNCHANGED <<job, slots, crashes, unsaved>> /\ UNCHANGED agentVars
    BY DEF GoStale, HumanReads, HumanWrites, Restart, ReplicaStarts, serviceVars
  <1>b. AgentInv' /\ pc' = pc /\ steps' = steps
    BY <1>a, AgentStays
  <1>h. IsFiniteSet(Holders') /\ slots' = Cardinality(Holders')
    BY <1>a, HoldersStay
  <1> DEFINE Good ==
        /\ row' \in [Tasks -> TaskStates \cup { "absent" }] /\ stale' \in [Tasks -> BOOLEAN]
        /\ human' \in [Humans -> HumanRequests] /\ server' \in { "up", "down" }
        /\ \A u \in Tasks : row'[u] = "completed" => row[u] = "completed"
        /\ \A u \in Tasks : row'[u] # "absent" => row[u] # "absent"
  <1>1. ASSUME NEW t \in Tasks, GoStale(t) PROVE Good
    BY <1>t, <1>1 DEF GoStale, ServiceTypeOK
  <1>2. ASSUME NEW h \in Humans, HumanReads(h) PROVE Good
    <2>1. human' \in [Humans -> HumanRequests]
      BY <1>t, <1>2 DEF HumanReads, ServiceTypeOK, HumanRequests
    <2> QED
      BY <1>t, <1>2, <2>1 DEF HumanReads, ServiceTypeOK
  <1>3. ASSUME NEW h \in Humans, HumanWrites(h) PROVE Good
    <2>1. /\ human[h].task \in Tasks /\ human[h].action \in { "cancel", "approve", "reject" }
          /\ row[human[h].task] # "absent"
      BY <1>t, <1>3 DEF ServiceTypeOK, HumanRequests, HumanWrites, CheckedRows
    <2>2. human' \in [Humans -> HumanRequests] /\ server' = server
      BY <1>t, <1>3 DEF HumanWrites, ServiceTypeOK, HumanRequests
    <2> DEFINE s == HumanStatus(human[h].action)
    <2>3. s \in TaskStates /\ s # "completed"
      BY <2>1, HumanStatusTyping
    <2>4. Write(human[h].task, s) \/ UNCHANGED rowVars
      BY <1>3 DEF HumanWrites
    <2> HIDE DEF s
    <2>5. /\ row' \in [Tasks -> TaskStates \cup { "absent" }] /\ stale' \in [Tasks -> BOOLEAN]
          /\ \A u \in Tasks : row'[u] = row[u] \/ (u = human[h].task /\ row'[u] = s)
      BY <1>t, <2>1, <2>3, <2>4, WriteTyping
    <2> QED
      BY <1>t, <2>1, <2>2, <2>3, <2>5 DEF ServiceTypeOK
  <1>4. ASSUME Restart \/ ReplicaStarts PROVE Good
    BY <1>t, <1>4
    DEF Restart, ReplicaStarts, RecoverStuckTasks, Recovered, ServiceTypeOK, TaskStates
  <1>5. ASSUME UNCHANGED serviceVars PROVE Good
    BY <1>t, <1>5 DEF serviceVars, ServiceTypeOK
  <1>6. Good
    BY <1>1, <1>2, <1>3, <1>4, <1>5
  <1> QED
    BY <1>t, <1>a, <1>b, <1>h, <1>6 DEF ServiceInv, CompletedAfterReturn, ServiceTypeOK, AgentInv

\* Memory is lost, the rows are not (server.go:617-639 recovers from them).
LEMMA CrashStep ==
    ASSUME ServiceInv, Crash
    PROVE  ServiceInv'
  <1>t. /\ ServiceTypeOK /\ AgentInv /\ AgentTypeOK /\ NewTask \in MachineTask
    BY DEF ServiceInv, AgentInv, NewTask, MachineTask, TaskStates
  <1>1. AgentTypeOK'
    BY <1>t DEF Crash, Forget, AgentTypeOK, Locations
  <1>2. ASSUME NEW u \in Tasks PROVE GateInv(u)'
    <2>1. GateInv(u)
      BY <1>t DEF AgentInv
    <2>2. CASE HoldsSlot(u)
      <3>1. steps'[u] = <<>> /\ pc'[u] \in { "idle", "returned" }
        BY <2>2 DEF Crash, Forget
      <3> QED
        BY <3>1 DEF GateInv
    <2>3. CASE ~HoldsSlot(u)
      <3>1. /\ pc'[u] = pc[u] /\ plan'[u] = plan[u] /\ index'[u] = index[u]
            /\ steps'[u] = steps[u] /\ approved'[u] = approved[u]
        BY <2>3 DEF Crash, Forget
      <3> QED
        BY <2>1, <3>1, GateFrame
    <2> QED
      BY <2>2, <2>3
  <1>3. /\ job' = [t \in Tasks |-> IF HoldsSlot(t) THEN "lost" ELSE job[t]]
        /\ slots' = 0 /\ UNCHANGED <<row, stale, unsaved>> /\ server' = "down"
        /\ crashes' = crashes + 1 /\ crashes < MaxCrashes
    BY DEF Crash, Forget
  <1>4. Holders' = {}
    BY <1>3 DEF Holders, HoldsSlot
  <1>5. IsFiniteSet(Holders') /\ Cardinality(Holders') = 0
    BY <1>4, FS_EmptySet
  <1>6. human' \in [Humans -> HumanRequests]
    BY <1>t DEF Crash, ServiceTypeOK, HumanRequests
  <1>7. crashes' \in 0 .. MaxCrashes /\ slots' \in Nat /\ slots' <= MaxConcurrent
    BY <1>t, <1>3, ServiceAssumption DEF ServiceTypeOK
  <1>8. job' \in [Tasks -> JobSteps]
    BY <1>t, <1>3 DEF ServiceTypeOK, JobSteps
  <1>9. ServiceTypeOK'
    BY <1>t, <1>1, <1>3, <1>6, <1>7, <1>8 DEF ServiceTypeOK
  <1>10. CompletedAfterReturn'
    BY <1>3 DEF ServiceInv, CompletedAfterReturn, Crash
  <1>11. ASSUME NEW u \in Tasks
         PROVE  /\ row'[u] # "absent" => job'[u] \notin { "none", "admitted", "refused" }
                /\ job'[u] \in { "none", "admitted" } => steps'[u] = <<>>
    BY <1>3 DEF ServiceInv, Crash, Forget
  <1> QED
    BY <1>1, <1>2, <1>3, <1>5, <1>7, <1>9, <1>10, <1>11 DEF ServiceInv, AgentInv

\* Every step of the service keeps the invariant.
LEMMA ServiceNextInv == ServiceInv /\ CheckedRows /\ [ServiceNext]_serviceVars => ServiceInv'
  <1> SUFFICES ASSUME ServiceInv, CheckedRows, [ServiceNext]_serviceVars PROVE ServiceInv'
    OBVIOUS
  <1>1. ASSUME NEW t \in Tasks,
               Admit(t) \/ CreateBatchRow(t) \/ Goroutine(t) \/ Panic(t) \/ GoStale(t)
        PROVE  ServiceInv'
    BY <1>1, CreateStep, RunAgentStep, EndStep, OutsideStep DEF Goroutine
  <1> QED
    BY <1>1, OutsideStep, CrashStep DEF ServiceNext

\* Rows, once created, are only ever updated (repository/task.go:208-250).
LEMMA RowsStay ==
    ASSUME ServiceInv, CheckedRows, [ServiceNext]_serviceVars, NEW t \in Tasks,
           row[t] # "absent"
    PROVE  row'[t] # "absent"
  <1>t. ServiceTypeOK /\ AgentTypeOK
    BY DEF ServiceInv, ServiceTypeOK
  <1>w. ASSUME NEW u \in Tasks, NEW s \in TaskStates, Write(u, s) \/ UNCHANGED rowVars
        PROVE  row'[t] # "absent"
    <2>1. row'[t] = row[t] \/ row'[t] = s
      BY <1>t, <1>w, WriteTyping
    <2> QED
      BY <2>1 DEF TaskStates
  <1>1. ASSUME NEW u \in Tasks, Admit(u) \/ Release(u) \/ GoStale(u) PROVE row'[t] # "absent"
    BY <1>1 DEF Admit, Release, GoStale
  <1>2. ASSUME NEW u \in Tasks, CreateRow(u) \/ CreateBatchRow(u) PROVE row'[t] # "absent"
    BY <1>2, <1>w DEF CreateRow, CreateBatchRow, TaskStates, rowVars
  <1>3. ASSUME NEW u \in Tasks, RunAgent(u) PROVE row'[t] # "absent"
    <2>1. AgentTypeOK'
      BY <1>3, RunAgentStep DEF ServiceInv, AgentInv
    <2>2. notified'[u] \in TaskStates \cup { "none" } /\ "pending" \in TaskStates
      BY <2>1 DEF AgentTypeOK, TaskStates
    <2> QED
      BY <1>3, <1>w, <2>2 DEF RunAgent, OnStateChange, WriteOrLog
  <1>4. ASSUME NEW u \in Tasks, Finish(u) \/ Panic(u) PROVE row'[t] # "absent"
    BY <1>4, <1>w DEF Finish, Panic, SaveOutcome, FinalState, TaskStates
  <1>5. ASSUME NEW h \in Humans, HumanReads(h) \/ HumanWrites(h) PROVE row'[t] # "absent"
    <2>1. human[h].task \in Tasks /\ human[h].action \in { "cancel", "approve", "reject" }
      BY <1>t DEF ServiceTypeOK, HumanRequests
    <2> QED
      BY <1>5, <1>w, <2>1, HumanStatusTyping DEF HumanReads, HumanWrites
  <1>6. CASE Crash \/ Restart \/ ReplicaStarts \/ UNCHANGED serviceVars
    BY <1>6 DEF Crash, Restart, ReplicaStarts, RecoverStuckTasks, Recovered, serviceVars
  <1> QED
    BY <1>1, <1>2, <1>3, <1>4, <1>5, <1>6 DEF ServiceNext, Goroutine

\* A request's task and action never change, and only reading a row arms it.
LEMMA RequestsKept ==
    ASSUME ServiceTypeOK, [ServiceNext]_serviceVars, NEW h \in Humans
    PROVE  /\ human'[h].task = human[h].task /\ human'[h].action = human[h].action
           /\ human[h].at = "ok" => human'[h].at = "ok"
           /\ human'[h].at = "checked" =>
                 human[h].at = "checked" \/ (HumanReads(h) /\ ColumnsFilled)
           /\ human'[h].at = "ok" => human[h].at \in { "checked", "ok" }
  <1>1. human \in [Humans -> HumanRequests] /\ human[h] \in HumanRequests
    BY DEF ServiceTypeOK
  <1>2. CASE \E g \in Humans : HumanReads(g) \/ HumanWrites(g)
    BY <1>1, <1>2 DEF HumanReads, HumanWrites, FindByID, HumanRequests
  <1>3. CASE Crash
    BY <1>1, <1>3 DEF Crash, HumanRequests
  <1>4. CASE \/ \E t \in Tasks :
                   Admit(t) \/ CreateBatchRow(t) \/ Goroutine(t) \/ Panic(t) \/ GoStale(t)
             \/ Restart \/ ReplicaStarts \/ UNCHANGED serviceVars
    <2>1. human' = human
      BY <1>4
      DEF Admit, CreateBatchRow, Goroutine, CreateRow, RunAgent, Finish, Release, Panic,
          GoStale, Restart, ReplicaStarts, serviceVars
    <2> QED
      BY <2>1
  <1> QED
    BY <1>2, <1>3, <1>4 DEF ServiceNext

\* A handler that passed its test could read its row, which is still there.
LEMMA CheckedRowsStay == ServiceInv /\ CheckedRows /\ [ServiceNext]_serviceVars => CheckedRows'
  <1> SUFFICES ASSUME ServiceInv, CheckedRows, [ServiceNext]_serviceVars,
                      NEW h \in Humans
               PROVE  /\ human'[h].at = "checked" => row'[human'[h].task] # "absent"
                      /\ human'[h].at \in { "checked", "ok" } => ColumnsFilled
    BY DEF CheckedRows
  <1>1. ServiceTypeOK /\ human[h].task \in Tasks
    BY DEF ServiceInv, ServiceTypeOK, HumanRequests
  <1>2. human'[h].task = human[h].task
    BY <1>1, RequestsKept
  <1>3. ASSUME human'[h].at = "checked" PROVE row[human[h].task] # "absent"
    <2>1. human[h].at = "checked" \/ HumanReads(h)
      BY <1>1, <1>3, RequestsKept
    <2> QED
      BY <2>1 DEF CheckedRows, HumanReads
  <1>4. ASSUME human'[h].at \in { "checked", "ok" } PROVE ColumnsFilled
    <2>1. human[h].at \in { "checked", "ok" } \/ ColumnsFilled
      BY <1>1, <1>4, RequestsKept
    <2> QED
      BY <2>1 DEF CheckedRows
  <1> QED
    BY <1>1, <1>2, <1>3, <1>4, RowsStay

--------------------------------------------------------------------------------

\* The invariant holds throughout (tasks.go:78-250, server.go:617-639).
THEOREM ServiceInvariant == ServiceSpec => [](ServiceInv /\ CheckedRows)
  <1>1. ServiceInit => CheckedRows
    BY DEF ServiceInit, CheckedRows
  <1> QED
    BY ServiceInitInv, <1>1, ServiceNextInv, CheckedRowsStay, PTL DEF ServiceSpec

(***************************************************************************)
(* tasks.go:78-158.  With any number of tasks, slots and crashes, through  *)
(* failed inserts, panics and lost writes: the semaphore counts exactly    *)
(* the goroutines and half-created tasks and never exceeds its capacity,   *)
(* no row exists without a slot paid for it, and a row says "completed"    *)
(* only once ExecuteTask has returned without an error.                    *)
(***************************************************************************)
THEOREM ServiceAlwaysConsistent == ServiceSpec => []ServiceConsistent
  <1>1. ServiceInv => ServiceConsistent
    BY DEF ServiceInv, ServiceConsistent, SlotAccounting, Holders
  <1> QED
    BY ServiceInvariant, <1>1, PTL

--------------------------------------------------------------------------------
(* The row a goroutine leaves behind *)

\* The row of task t is closed, or an approval through the API reopened it.
Closed(t) ==
    \/ IsTerminal(row[t])
    \/ ColumnsFilled /\ \E h \in Humans :
          human[h].task = t /\ human[h].action = "approve" /\ human[h].at = "ok"

\* Whatever is written to a closed row other than by its goroutine, it stays so.
LEMMA ClosedStays ==
    ASSUME ServiceInv, CheckedRows, [ServiceNext]_serviceVars, NEW t \in Tasks,
           job[t] \in { "closing", "gone" }, Closed(t)
    PROVE  Closed(t)'
  <1>t. ServiceTypeOK /\ human \in [Humans -> HumanRequests]
    BY DEF ServiceInv, ServiceTypeOK
  <1>1. CASE ColumnsFilled /\ \E h \in Humans :
                human[h].task = t /\ human[h].action = "approve" /\ human[h].at = "ok"
    BY <1>t, <1>1, RequestsKept DEF Closed
  <1>2. CASE IsTerminal(row[t])
    <2>w. ASSUME NEW u \in Tasks, u # t, NEW s \in TaskStates, Write(u, s) \/ UNCHANGED rowVars
          PROVE  row'[t] = row[t]
      BY <1>t, <2>w, WriteTyping
    <2>1. ASSUME NEW u \in Tasks, Admit(u) \/ Release(u) \/ GoStale(u) PROVE row'[t] = row[t]
      BY <2>1 DEF Admit, Release, GoStale
    <2>2. ASSUME NEW u \in Tasks, CreateRow(u) \/ CreateBatchRow(u) PROVE row'[t] = row[t]
      BY <2>2, <2>w DEF CreateRow, CreateBatchRow, TaskStates, rowVars
    <2>3. ASSUME NEW u \in Tasks, RunAgent(u) PROVE row'[t] = row[t]
      <3>1. AgentTypeOK'
        BY <2>3, RunAgentStep DEF ServiceInv, AgentInv
      <3>2. /\ notified'[u] \in TaskStates \cup { "none" } /\ "pending" \in TaskStates
            /\ u # t
        BY <2>3, <3>1 DEF AgentTypeOK, TaskStates, RunAgent
      <3> QED
        BY <2>3, <2>w, <3>2 DEF RunAgent, OnStateChange, WriteOrLog
    <2>4. ASSUME NEW u \in Tasks, Finish(u) \/ Panic(u) PROVE row'[t] = row[t]
      BY <2>4, <2>w DEF Finish, Panic, SaveOutcome, FinalState, TaskStates
    <2>5. ASSUME NEW h \in Humans, HumanReads(h) \/ HumanWrites(h) PROVE Closed(t)'
      <3>1. /\ human[h].task \in Tasks /\ human[h].action \in { "cancel", "approve", "reject" }
            /\ human'[h].task = human[h].task /\ human'[h].action = human[h].action
        BY <1>t, RequestsKept DEF HumanRequests
      <3>2. CASE row'[t] = row[t]
        BY <1>2, <3>2 DEF Closed
      <3>3. CASE row'[t] # row[t]
        <4> DEFINE s == HumanStatus(human[h].action)
        <4>1. Write(human[h].task, s) /\ human'[h].at = "ok"
          BY <1>t, <2>5, <3>3 DEF HumanReads, HumanWrites, rowVars, HumanRequests
        <4>2. s \in TaskStates /\ (human[h].action # "approve" => IsTerminal(s))
          BY <3>1, HumanStatusTyping
        <4> HIDE DEF s
        <4>3. human[h].task = t /\ row'[t] = s
          BY <1>t, <3>1, <3>3, <4>1, <4>2, WriteTyping
        <4>4. ColumnsFilled
          BY <4>1, CheckedRowsStay DEF CheckedRows
        <4> QED
          BY <3>1, <4>1, <4>2, <4>3, <4>4 DEF Closed
      <3> QED
        BY <3>2, <3>3
    <2>6. CASE Crash \/ Restart \/ ReplicaStarts \/ UNCHANGED serviceVars
      <3>1. row'[t] = row[t]
        BY <1>2, <2>6
        DEF Crash, Restart, ReplicaStarts, RecoverStuckTasks, Recovered, serviceVars,
            IsTerminal, TerminalStates
      <3> QED
        BY <1>2, <3>1 DEF Closed
    <2>7. row'[t] = row[t] => Closed(t)'
      BY <1>2 DEF Closed
    <2> QED
      BY <2>1, <2>2, <2>3, <2>4, <2>5, <2>6, <2>7 DEF ServiceNext, Goroutine
  <1> QED
    BY <1>1, <1>2 DEF Closed

\* Only the goroutine's last write takes a task to "closing", and what failed stays
\* on the list of failed writes.
LEMMA ClosingWrites ==
    ASSUME ServiceInv, [ServiceNext]_serviceVars, NEW t \in Tasks,
           job'[t] \in { "closing", "gone" }
    PROVE  /\ unsaved \subseteq unsaved'
           /\ \/ job[t] \in { "closing", "gone" }
              \/ t \in unsaved'
              \/ IsTerminal(row'[t])
  <1>t. ServiceTypeOK /\ job \in [Tasks -> JobSteps]
    BY DEF ServiceInv, ServiceTypeOK
  <1>1. ASSUME NEW u \in Tasks, Finish(u) \/ Panic(u)
        PROVE  /\ unsaved \subseteq unsaved'
               /\ job[t] \in { "closing", "gone" } \/ t \in unsaved' \/ IsTerminal(row'[t])
    <2>1. PICK s \in { "completed", "failed" } :
              SaveOutcome(u, s) /\ job' = [job EXCEPT ![u] = "closing"]
      BY <1>1 DEF Finish, Panic, FinalState
    <2>2. Write(u, s) => row'[u] = s
      BY <1>t DEF ServiceTypeOK, Write
    <2>3. unsaved \subseteq unsaved' /\ (u \in unsaved' \/ row'[u] = s)
      BY <2>1, <2>2 DEF SaveOutcome
    <2>4. u # t => job[t] \in { "closing", "gone" }
      BY <1>t, <2>1
    <2> QED
      BY <2>3, <2>4 DEF IsTerminal, TerminalStates
  <1>2. ASSUME NEW u \in Tasks,
               \/ Admit(u) \/ CreateBatchRow(u) \/ CreateRow(u) \/ RunAgent(u)
               \/ Release(u) \/ GoStale(u)
        PROVE  unsaved' = unsaved /\ job[t] \in { "closing", "gone" }
    BY <1>t, <1>2 DEF Admit, CreateBatchRow, CreateRow, RunAgent, Release, GoStale
  <1>3. CASE \/ \E h \in Humans : HumanReads(h) \/ HumanWrites(h)
             \/ Crash \/ Restart \/ ReplicaStarts \/ UNCHANGED serviceVars
    BY <1>t, <1>3
    DEF HumanReads, HumanWrites, Crash, Forget, Restart, ReplicaStarts, serviceVars
  <1> QED
    BY <1>1, <1>2, <1>3 DEF ServiceNext, Goroutine

(***************************************************************************)
(* tasks.go:113-250.  However many cancels, rejections, panics, crashes    *)
(* and recoveries by other replicas come in between, a goroutine that      *)
(* ended leaves a terminal row, unless its own last UPDATE failed or,      *)
(* where rows can be read, an approval through POST /tasks/{id}/hitl was   *)
(* written over it.                                                        *)
(***************************************************************************)
THEOREM FinishedAlwaysTerminal == ServiceSpec => []FinishedIsTerminal
  <1>1. ServiceInit => FinishedIsTerminal
    BY DEF ServiceInit, FinishedIsTerminal
  <1>2. ServiceInv /\ CheckedRows /\ FinishedIsTerminal /\ [ServiceNext]_serviceVars
        => FinishedIsTerminal'
    <2> SUFFICES ASSUME ServiceInv, CheckedRows, FinishedIsTerminal, [ServiceNext]_serviceVars,
                        NEW t \in Tasks, t \notin unsaved', job'[t] \in { "closing", "gone" }
                 PROVE  Closed(t)'
      BY DEF FinishedIsTerminal, Closed
    <2>1. /\ t \notin unsaved
          /\ job[t] \in { "closing", "gone" } \/ IsTerminal(row'[t])
      BY ClosingWrites
    <2>2. CASE job[t] \in { "closing", "gone" }
      BY <2>1, <2>2, ClosedStays DEF FinishedIsTerminal, Closed
    <2>3. CASE IsTerminal(row'[t])
      BY <2>3 DEF Closed
    <2> QED
      BY <2>1, <2>2, <2>3
  <1> QED
    BY ServiceInvariant, <1>1, <1>2, PTL DEF ServiceSpec

\* agent.go:180-219 under tasks.go:113-250.  Run by the service, through panics,
\* crashes and restarts, the agent still runs a guarded tool only in a step that was
\* approved, and no step twice.
THEOREM ServiceGated == ServiceSpec => []HITLGated
  <1>1. ServiceInv => HITLGated
    BY DEF ServiceInv, AgentInv, GateInv, HITLGated
  <1> QED
    BY ServiceInvariant, <1>1, PTL
================================================================================
