---------------------------- MODULE GatedAgent_proofs ----------------------------
(***************************************************************************)
(* The agent and the queue together, for any number of tasks, checkpoints  *)
(* and requests.  Both invariants are reused as they stand: a step of the  *)
(* composition is a step of each part or leaves it alone (PartSteps), and  *)
(* GatedInv ties the two states together.                                  *)
(***************************************************************************)
EXTENDS GatedAgent, AgentLoop_proofs, HITLQueue_proofs

Steps == 0 .. MaxIter - 1

(***************************************************************************)
(* HumanDecides is not inductive.  Three things tie the agent to its       *)
(* checkpoints: it waits only on one of its own, an approval it noted is   *)
(* what Submit answered, and a checkpoint submitted and not (yet) approved *)
(* is the one the task waits on, or the one that ended it.                 *)
(***************************************************************************)
GatedInv(t) ==
    /\ pc[t] = "hitl" => index[t] \in Steps
    /\ \A i \in approved[t] : i \in Steps /\ answer[<<t, i>>] = "approve"
    /\ \A i \in Steps : submit[<<t, i>>] # "idle" /\ answer[<<t, i>>] # "approve" =>
          \/ pc[t] = "hitl" /\ index[t] = i
          \/ pc[t] = "errored" /\ \A j \in 1 .. Len(steps[t]) : steps[t][j].step < i

Composition == AgentInv /\ Inv /\ \A t \in Tasks : GatedInv(t)

--------------------------------------------------------------------------------

\* The checkpoints of a task's steps (agent.go:691).
LEMMA CheckpointsOfSteps ==
    ASSUME NEW t \in Tasks, NEW i \in Steps
    PROVE  <<t, i>> \in Checkpoints
  BY CheckpointAssumption DEF Steps

\* What Submit returned is an answer the agent understands (agent.go:716-733).
LEMMA ResumeAnswers ==
    ASSUME Composition, NEW t \in Tasks, Resume(t)
    PROVE  answer[CheckpointOf(t)] \in Answers
  <1>1. CheckpointOf(t) \in Checkpoints
    BY CheckpointsOfSteps DEF Composition, GatedInv, Resume, CheckpointOf
  <1>2. EntryInv(CheckpointOf(t)) /\ TypeOK
    BY <1>1 DEF Composition, Inv
  <1> QED
    BY <1>1, <1>2 DEF EntryInv, TypeOK, Resume, Answers, Decisions

\* A step of the composition is a step of each part, or leaves the part alone.
LEMMA PartSteps ==
    ASSUME Composition, [GatedNext]_gatedVars
    PROVE  [AgentNext]_agentVars /\ [Next]_vars
  <1>1. CASE \E t \in Tasks : Work(t)
    BY <1>1 DEF Work, AgentNext
  <1>2. CASE \E t \in Tasks : SubmitCheckpoint(t)
    <2>1. PICK t \in Tasks : SubmitCheckpoint(t)
      BY <1>2
    <2>2. CheckpointOf(t) \in Checkpoints
      BY <2>1, CheckpointsOfSteps DEF Composition, GatedInv, SubmitCheckpoint, CheckpointOf
    <2> QED
      BY <2>1, <2>2 DEF SubmitCheckpoint, Next
  <1>3. CASE \E t \in Tasks : Resume(t)
    BY <1>3, ResumeAnswers DEF Resume, AgentNext
  <1>4. CASE \/ \E c \in Checkpoints : QueueStep(c)
             \/ \E r \in Requests : HumanStep(r)
             \/ CheckerStep
    BY <1>4 DEF QueueStep, HumanStep, CheckerStep, Next
  <1>5. CASE UNCHANGED gatedVars
    BY <1>5 DEF gatedVars
  <1> QED
    BY <1>1, <1>2, <1>3, <1>4, <1>5 DEF GatedNext, AgentProgress

\* A step of the queue never reopens a submitted checkpoint, and leaves an
\* approval that Submit returned alone (hitl.go:97-140).
LEMMA QueueKeepsAnswers ==
    ASSUME Inv, [Next]_vars, NEW c \in Checkpoints
    PROVE  /\ submit[c] # "idle" => submit'[c] # "idle"
           /\ answer[c] # "none" => answer'[c] = answer[c]
  <1>1. TypeOK /\ EntryInv(c)
    BY DEF Inv
  <1>2. answer[c] # "none" => submit[c] = "returned"
    BY <1>1 DEF EntryInv
  <1>3. ASSUME NEW b \in Checkpoints,
               SubmitStore(b) \/ SubmitStep(b) \/ SubmitCancelled(b) \/ PassExpiry(b) \/ PassTimer(b)
        PROVE  /\ submit[c] # "idle" => submit'[c] # "idle"
               /\ answer[c] # "none" => answer'[c] = answer[c]
    BY <1>1, <1>2, <1>3
    DEF SubmitStore, SubmitStep, SubmitCancelled, PassExpiry, PassTimer, SubmitPersist,
        SubmitReceive, SubmitTimer, MarkTimeout, MarkFinish, TypeOK
  <1>4. CASE \/ \E r \in Requests : DecideLookup(r) \/ DecideStep(r)
             \/ ExpiryTick \/ CloseQueue \/ UNCHANGED vars
    BY <1>4
    DEF DecideLookup, DecideStep, DecideLock, DecideRedis, DecideSignal, ExpiryTick,
        CloseQueue, vars
  <1> QED
    BY <1>3, <1>4 DEF Next

\* Nothing is submitted yet (agent.go:127-137, hitl.go:68-81).
LEMMA GatedInitInv == GatedInit => Composition
  <1> SUFFICES ASSUME GatedInit PROVE Composition
    OBVIOUS
  <1>1. AgentInv /\ Inv
    BY AgentInitInv, InitInv DEF GatedInit
  <1>2. ASSUME NEW t \in Tasks PROVE GatedInv(t)
    BY CheckpointsOfSteps DEF GatedInit, AgentInit, Init, GatedInv
  <1> QED
    BY <1>1, <1>2 DEF Composition

\* An agent step of task t moves no other task, never leaves "hitl" or "errored",
\* and enters "hitl" only below the iteration limit (agent.go:158-189).
LEMMA AgentStepEffect ==
    ASSUME AgentInv, NEW t \in Tasks, NEW u \in Tasks, AgentStep(t)
    PROVE  /\ approved'[u] = approved[u]
           /\ u # t => pc'[u] = pc[u] /\ index'[u] = index[u] /\ steps'[u] = steps[u]
           /\ u = t => /\ pc[u] \notin { "hitl", "errored" }
                       /\ pc'[u] = "hitl" => index'[u] \in Steps
  <1>f. /\ pc \in [Tasks -> Locations] /\ index \in [Tasks -> Nat]
        /\ plan \in [Tasks -> Seq(Tools)] /\ steps \in [Tasks -> Seq(StepResults)]
    BY DEF AgentInv, AgentTypeOK
  <1>b. MaxIter \in Nat
    BY BoundsAssumption
  <1>1. CASE Start(t) \/ LeaveLoop(t) \/ Review(t) \/ EnterStep(t)
    BY <1>f, <1>1 DEF Start, LeaveLoop, Review, EnterStep, Goto
  <1>2. CASE PlanTask(t)
    BY <1>f, <1>2 DEF PlanTask, Goto
  <1>3. CASE RequireHITL(t)
    BY <1>f, <1>b, <1>3 DEF RequireHITL, Continues, Goto, Steps
  <1>4. CASE ExecuteStep(t)
    BY <1>f, <1>4 DEF ExecuteStep, Goto
  <1>5. CASE Reflect(t)
    BY <1>f, <1>5 DEF Reflect, Goto
  <1> QED
    BY <1>1, <1>2, <1>3, <1>4, <1>5 DEF AgentStep

\* Every step of the composition keeps the tie between the two parts.
LEMMA GatedStep == Composition /\ [GatedNext]_gatedVars => \A u \in Tasks : GatedInv(u)'
  <1> SUFFICES ASSUME Composition, [GatedNext]_gatedVars, NEW u \in Tasks PROVE GatedInv(u)'
    OBVIOUS
  <1>i. AgentInv /\ AgentTypeOK /\ Inv /\ GatedInv(u) /\ GateInv(u)
    BY DEF Composition, AgentInv
  <1>n. [AgentNext]_agentVars /\ [Next]_vars
    BY PartSteps
  <1>f. /\ pc \in [Tasks -> Locations] /\ index \in [Tasks -> Nat]
        /\ steps \in [Tasks -> Seq(StepResults)] /\ approved \in [Tasks -> SUBSET Nat]
    BY <1>i DEF AgentTypeOK
  <1>q. ASSUME NEW i \in Steps
        PROVE  /\ <<u, i>> \in Checkpoints
               /\ submit[<<u, i>>] # "idle" => submit'[<<u, i>>] # "idle"
               /\ answer[<<u, i>>] # "none" => answer'[<<u, i>>] = answer[<<u, i>>]
    BY <1>i, <1>n, CheckpointsOfSteps, QueueKeepsAnswers
  <1>1. ASSUME NEW t \in Tasks, Work(t) PROVE GatedInv(u)'
    <2>1. AgentStep(t) /\ submit' = submit /\ answer' = answer
      BY <1>1 DEF Work, vars
    <2>2. /\ approved'[u] = approved[u]
          /\ u # t => pc'[u] = pc[u] /\ index'[u] = index[u] /\ steps'[u] = steps[u]
          /\ u = t => /\ pc[u] \notin { "hitl", "errored" }
                      /\ pc'[u] = "hitl" => index'[u] \in Steps
      BY <1>i, <2>1, AgentStepEffect
    <2>3. CASE u # t
      BY <1>i, <2>1, <2>2, <2>3 DEF GatedInv
    <2>4. CASE u = t
      BY <1>i, <2>1, <2>2, <2>4 DEF GatedInv
    <2> QED
      BY <2>3, <2>4
  <1>2. ASSUME NEW t \in Tasks, SubmitCheckpoint(t) PROVE GatedInv(u)'
    <2>1. /\ pc[t] = "hitl" /\ answer' = answer
          /\ submit' = [submit EXCEPT ![<<t, index[t]>>] = "persist"]
          /\ UNCHANGED <<pc, index, steps, approved>>
      BY <1>2 DEF SubmitCheckpoint, SubmitStore, CheckpointOf, agentVars
    <2>2. ASSUME NEW i \in Steps, submit'[<<u, i>>] # "idle", answer'[<<u, i>>] # "approve"
          PROVE  \/ pc[u] = "hitl" /\ index[u] = i
                 \/ pc[u] = "errored" /\ \A j \in 1 .. Len(steps[u]) : steps[u][j].step < i
      <3>1. CASE <<u, i>> = <<t, index[t]>>
        BY <2>1, <3>1
      <3>2. CASE <<u, i>> # <<t, index[t]>>
        <4>1. submit'[<<u, i>>] = submit[<<u, i>>]
          BY <1>i, <1>q, <2>1, <3>2 DEF Inv, TypeOK
        <4> QED
          BY <1>i, <2>1, <2>2, <4>1 DEF GatedInv
      <3> QED
        BY <3>1, <3>2
    <2> QED
      BY <1>i, <2>1, <2>2 DEF GatedInv
  <1>3. ASSUME NEW t \in Tasks, Resume(t) PROVE GatedInv(u)'
    <2> DEFINE c == <<t, index[t]>>
    <2>1. /\ pc[t] = "hitl" /\ submit' = submit /\ answer' = answer
          /\ index' = index /\ steps' = steps /\ submit[c] = "returned"
          /\ \/ /\ answer[c] = "approve" /\ pc' = [pc EXCEPT ![t] = "exec"]
                /\ approved' = [approved EXCEPT ![t] = @ \cup { index[t] }]
             \/ /\ answer[c] # "approve" /\ pc' = [pc EXCEPT ![t] = "errored"]
                /\ approved' = approved
      BY <1>3 DEF Resume, HITLAnswer, HITLApproved, HITLRefused, Goto, CheckpointOf, vars
    <2>2. CASE u # t
      <3>1. pc'[u] = pc[u] /\ approved'[u] = approved[u]
        BY <1>f, <2>1, <2>2
      <3> QED
        BY <1>i, <2>1, <3>1 DEF GatedInv
    <2>3. CASE u = t /\ answer[c] = "approve"
      <3>1. /\ pc'[u] = "exec" /\ approved'[u] = approved[u] \cup { index[u] }
        BY <1>f, <2>1, <2>3
      <3>2. index[u] \in Steps /\ answer[<<u, index[u]>>] = "approve"
        BY <1>i, <2>1, <2>3 DEF GatedInv
      <3>3. ASSUME NEW i \in Steps, submit[<<u, i>>] # "idle" PROVE answer[<<u, i>>] = "approve"
        BY <1>i, <2>1, <2>3, <3>2, <3>3 DEF GatedInv
      <3> QED
        BY <1>i, <2>1, <3>1, <3>2, <3>3 DEF GatedInv
    <2>4. CASE u = t /\ answer[c] # "approve"
      <3>1. pc'[u] = "errored" /\ approved'[u] = approved[u]
        BY <1>f, <2>1, <2>4
      <3>2. \A j \in 1 .. Len(steps[u]) : steps[u][j].step < index[u]
        BY <1>i, <2>1, <2>4 DEF GateInv, Finished
      <3>3. ASSUME NEW i \in Steps, submit[<<u, i>>] # "idle", answer[<<u, i>>] # "approve"
            PROVE  i = index[u]
        BY <1>i, <2>1, <2>4, <3>3 DEF GatedInv
      <3> QED
        BY <1>i, <2>1, <3>1, <3>2, <3>3 DEF GatedInv
    <2> QED
      BY <2>2, <2>3, <2>4
  <1>4. ASSUME \/ \E d \in Checkpoints : QueueStep(d)
               \/ \E r \in Requests : HumanStep(r)
               \/ CheckerStep
               \/ UNCHANGED gatedVars
        PROVE  GatedInv(u)'
    <2>1. UNCHANGED <<pc, index, steps, approved>>
      BY <1>4 DEF QueueStep, HumanStep, CheckerStep, gatedVars, agentVars
    <2>2. ASSUME NEW i \in Steps PROVE submit'[<<u, i>>] = "idle" <=> submit[<<u, i>>] = "idle"
      <3>1. <<u, i>> \in Checkpoints /\ TypeOK
        BY <1>i, <1>q DEF Inv
      <3>2. CASE \E d \in Checkpoints : QueueStep(d)
        BY <3>1, <3>2
        DEF QueueStep, SubmitStep, PassExpiry, PassTimer, SubmitPersist, SubmitReceive,
            SubmitTimer, MarkTimeout, MarkFinish, TypeOK
      <3>3. CASE (\E r \in Requests : HumanStep(r)) \/ CheckerStep \/ UNCHANGED gatedVars
        BY <3>3
        DEF HumanStep, CheckerStep, DecideLookup, DecideStep, DecideLock, DecideRedis,
            DecideSignal, ExpiryTick, CloseQueue, gatedVars, vars
      <3> QED
        BY <1>4, <3>2, <3>3
    <2>3. \A i \in Steps : answer[<<u, i>>] = "approve" => answer'[<<u, i>>] = "approve"
      BY <1>q
    <2> QED
      BY <1>i, <2>1, <2>2, <2>3 DEF GatedInv
  <1> QED
    BY <1>1, <1>2, <1>3, <1>4 DEF GatedNext, AgentProgress

\* The two invariants and their tie hold throughout.
THEOREM GatedInvariant == GatedSpec => []Composition
  <1>1. Composition /\ [GatedNext]_gatedVars => Composition'
    <2> SUFFICES ASSUME Composition, [GatedNext]_gatedVars PROVE Composition'
      OBVIOUS
    <2>1. [AgentNext]_agentVars /\ [Next]_vars
      BY PartSteps
    <2>2. AgentInv /\ AgentTypeOK /\ Inv
      BY DEF Composition, AgentInv
    <2>3. AgentInv'
      BY <2>1, <2>2, AgentNextTyping, AgentNextGate DEF AgentInv
    <2>4. Inv'
      BY <2>1, <2>2, NextInv
    <2> QED
      BY <2>3, <2>4, GatedStep DEF Composition
  <1> QED
    BY GatedInitInv, <1>1, PTL DEF GatedSpec

(***************************************************************************)
(* agent.go:691-733, 195-208 with hitl.go.  For any number of tasks,       *)
(* checkpoints and racing requests: behind every run of a guarded tool     *)
(* there is a decision "approve" of that very step by its owner or an      *)
(* admin, and no tool runs after a checkpoint that was refused or expired. *)
(***************************************************************************)
THEOREM HumansAlwaysDecide == GatedSpec => []HumanDecides
  <1>1. Composition => HumanApproved
    <2> SUFFICES ASSUME Composition, NEW t \in Tasks, NEW j \in 1 .. Len(steps[t]),
                        steps[t][j].tool \in HITLTools
                 PROVE  \E r \in Requests :
                            /\ Took(r, <<t, steps[t][j].step>>)
                            /\ claim[r].decision = "approve"
                            /\ Permitted(claim[r].user, <<t, steps[t][j].step>>)
      BY DEF HumanApproved
    <2> DEFINE c == <<t, steps[t][j].step>>
    <2>1. steps[t][j].step \in approved[t]
      BY DEF Composition, AgentInv, GateInv
    <2>2. c \in Checkpoints /\ answer[c] = "approve"
      BY <2>1, CheckpointsOfSteps DEF Composition, GatedInv
    <2> HIDE DEF c
    <2>3. EntryInv(c)
      BY <2>2 DEF Composition, Inv
    <2>4. status[c] = "approve"
      BY <2>2, <2>3 DEF EntryInv
    <2>5. PICK r \in Requests : Took(r, c)
      BY <2>3, <2>4 DEF EntryInv, Decisions
    <2>6. RequestInv(r)
      BY DEF Composition, Inv
    <2>7. claim[r].decision = "approve" /\ Permitted(claim[r].user, c)
      BY <2>4, <2>5, <2>6 DEF RequestInv, Took, Taken
    <2> QED
      BY <2>5, <2>7 DEF c
  <1>2. Composition => RefusalStops
    <2> SUFFICES ASSUME Composition, NEW t \in Tasks, NEW i \in Steps,
                        <<t, i>> \in Checkpoints, answer[<<t, i>>] \notin { "none", "approve" },
                        NEW j \in 1 .. Len(steps[t])
                 PROVE  steps[t][j].step < i
      BY DEF RefusalStops, Steps
    <2>1. EntryInv(<<t, i>>) /\ GatedInv(t) /\ GateInv(t)
      BY DEF Composition, Inv, AgentInv
    <2>2. submit[<<t, i>>] # "idle"
      BY <2>1 DEF EntryInv
    <2> QED
      BY <2>1, <2>2 DEF GatedInv, GateInv, Finished
  <1> QED
    BY GatedInvariant, <1>1, <1>2, PTL DEF HumanDecides

(***************************************************************************)
(* server.go's wiring (hitlAdapter) makes neither part do anything it does *)
(* not do alone: a behaviour of the composition is one of the agent and    *)
(* one of the queue, so what is proved of the parts (the budget, the       *)
(* failures, the single decision, the wake-ups) holds of the whole.        *)
(***************************************************************************)
THEOREM GatedImplementsParts == GatedSpec => AgentSpec /\ Spec
  <1>1. GatedInit => AgentInit("start") /\ Init
    BY DEF GatedInit
  <1>2. Composition /\ [GatedNext]_gatedVars => [AgentNext]_agentVars /\ [Next]_vars
    BY PartSteps
  <1> QED
    BY GatedInvariant, <1>1, <1>2, PTL DEF GatedSpec, AgentSpec, Spec

\* agent.go:128-295, hitl.go:97-306.  Composed, the agent's account still adds up
\* and the queue still gives each checkpoint one decision and one answer.
THEOREM GatedPartsHold ==
    GatedSpec => [](AgentConsistent /\ DecisionIntegrity /\ AnswerFaithful)
  BY GatedImplementsParts, AgentAlwaysConsistent, OneDecision, FaithfulAnswers, PTL
================================================================================
