---------------------------- MODULE AgentLoop_proofs ----------------------------
(***************************************************************************)
(* The human gate of ExecuteTask for any plan, any number of tasks, any    *)
(* iteration limit and any tools: what the runs of AgentLoop check on      *)
(* plans of up to four steps.                                              *)
(***************************************************************************)
EXTENDS AgentLoop, SequenceTheorems, FiniteSetTheorems, TLAPS

Finished == { "reflect", "review", "returned" }

(***************************************************************************)
(* HITLGated is not inductive: a step about to run must already have its   *)
(* approval, and the steps that ran must lie before the loop variable, or  *)
(* up to it while the iteration is being wound up; planning, which resets  *)
(* the loop variable, comes before any step.                               *)
(***************************************************************************)
GateInv(t) ==
    /\ pc[t] \in { "start", "plan" } => steps[t] = <<>>
    /\ pc[t] \in { "hitl", "exec" } => index[t] < Len(plan[t])
    /\ pc[t] = "exec" /\ Tool(t) \in HITLTools => index[t] \in approved[t]
    /\ \A j \in 1 .. Len(steps[t]) :
          /\ steps[t][j].step <= index[t]
          /\ pc[t] \notin Finished => steps[t][j].step < index[t]
          /\ steps[t][j].tool \in HITLTools => steps[t][j].step \in approved[t]
    /\ \A j, k \in 1 .. Len(steps[t]) : j < k => steps[t][j].step < steps[t][k].step

AgentInv == AgentTypeOK /\ \A t \in Tasks : GateInv(t)

--------------------------------------------------------------------------------

\* The state machine stays in its states (state.go:139-219).
LEMMA TransitionTyping ==
    ASSUME NEW m \in MachineTask, NEW e
    PROVE  /\ Transition(m, e, MaxRetries) \in MachineTask
           /\ Accepts(m, e, MaxRetries) => Target(m, e, MaxRetries) \in TaskStates
  <1>1. Target(m, e, MaxRetries) \in TaskStates \cup { "invalid" }
    BY DEF Target, TaskStates
  <1>2. /\ m.retryCount \in Nat /\ m.currentStep \in Nat /\ m.totalSteps \in Nat
        /\ m.state \in TaskStates
    BY DEF MachineTask
  <1> QED
    BY <1>1, <1>2 DEF Transition, Accepts, MachineTask

\* Firing an event keeps the machine's types (agent.go:115-125).
LEMMA FireTyping ==
    ASSUME AgentTypeOK, NEW t \in Tasks, NEW m \in MachineTask, NEW e, Fire(t, m, e)
    PROVE  /\ machine' \in [Tasks -> MachineTask]
           /\ notified' \in [Tasks -> TaskStates \cup { "none" }]
  BY TransitionTyping DEF AgentTypeOK, Fire

\* A plan is a sequence of tools, however it came about (agent.go:443-489, 650-663).
LEMMA PlansTyping ==
    ASSUME NEW p \in Plans
    PROVE  p \in Seq(Tools)
  <1>1. CASE p = DefaultPlan
    BY <1>1, PlanAssumption
  <1>2. CASE p # DefaultPlan
    <2>1. p \in UNION { [1 .. n -> Tools] : n \in 1 .. MaxPlan }
      BY <1>2 DEF Plans
    <2>2. PICK n \in 1 .. MaxPlan : p \in [1 .. n -> Tools]
      BY <2>1
    <2> QED
      BY <2>2, BoundsAssumption
  <1> QED
    BY <1>1, <1>2

\* A task that has not started satisfies the invariant (agent.go:127-137).
LEMMA AgentInitInv == AgentInit("start") => AgentInv
  <1> SUFFICES ASSUME AgentInit("start") PROVE AgentInv
    OBVIOUS
  <1>1. NewTask \in MachineTask
    BY DEF NewTask, MachineTask, TaskStates
  <1>2. AgentTypeOK
    BY <1>1 DEF AgentInit, AgentTypeOK, Locations
  <1>3. ASSUME NEW t \in Tasks PROVE GateInv(t)
    BY DEF AgentInit, GateInv
  <1> QED
    BY <1>2, <1>3 DEF AgentInv

--------------------------------------------------------------------------------
(* Types *)

\* Every action keeps the types.
LEMMA AgentNextTyping == AgentTypeOK /\ AgentInv /\ [AgentNext]_agentVars => AgentTypeOK'
  <1> SUFFICES ASSUME AgentTypeOK, AgentInv, [AgentNext]_agentVars PROVE AgentTypeOK'
    OBVIOUS
  <1> USE DEF Locations
  <1>p. /\ pc \in [Tasks -> Locations]
        /\ index \in [Tasks -> Nat]
        /\ overrun \in [Tasks -> Nat]
    BY DEF AgentTypeOK
  <1>m. ASSUME NEW t \in Tasks
        PROVE  /\ machine[t] \in MachineTask
               /\ AtStep(t) \in MachineTask
               /\ \A n \in Nat : SetPlan(machine[t], n) \in MachineTask
    BY DEF AgentTypeOK, AtStep, SetCurrentStep, SetPlan, MachineTask
  <1>1. ASSUME NEW t \in Tasks, Start(t) PROVE AgentTypeOK'
    BY <1>1, <1>m, FireTyping DEF Start, Goto, AgentTypeOK
  <1>2. ASSUME NEW t \in Tasks, PlanTask(t) PROVE AgentTypeOK'
    <2>1. PICK p \in Plans, k \in 0 .. CallTokens :
              /\ plan' = [plan EXCEPT ![t] = p]
              /\ tokens' = [tokens EXCEPT ![t] = @ + k]
              /\ Fire(t, SetPlan(machine[t], Len(p)), "plan_ready")
      BY <1>2 DEF PlanTask
    <2>2. p \in Seq(Tools) /\ Len(p) \in Nat /\ k \in Nat
      BY PlansTyping, BoundsAssumption
    <2>3. /\ machine' \in [Tasks -> MachineTask]
          /\ notified' \in [Tasks -> TaskStates \cup { "none" }]
      BY <1>m, <2>1, <2>2, FireTyping
    <2>4. /\ pc' = [pc EXCEPT ![t] = "loop"]
          /\ index' = [index EXCEPT ![t] = 0]
          /\ UNCHANGED <<steps, approved, overrun>>
      BY <1>2 DEF PlanTask, Goto
    <2>5. plan' \in [Tasks -> Seq(Tools)] /\ tokens' \in [Tasks -> Nat]
      BY <2>1, <2>2 DEF AgentTypeOK
    <2> QED
      BY <2>3, <2>4, <2>5 DEF AgentTypeOK
  <1>3. ASSUME NEW t \in Tasks, EnterStep(t) PROVE AgentTypeOK'
    BY <1>3, <1>m DEF EnterStep, Silent, Goto, AgentTypeOK
  <1>4. ASSUME NEW t \in Tasks, RequireHITL(t) PROVE AgentTypeOK'
    <2>1. /\ machine' \in [Tasks -> MachineTask]
          /\ notified' \in [Tasks -> TaskStates \cup { "none" }]
      BY <1>4, <1>m, FireTyping DEF RequireHITL
    <2>2. \/ pc' = [pc EXCEPT ![t] = "hitl"] /\ index' = index
          \/ pc' = pc /\ index' = [index EXCEPT ![t] = @ + 1]
      BY <1>4 DEF RequireHITL, Goto
    <2>3. pc' \in [Tasks -> Locations] /\ index' \in [Tasks -> Nat]
      BY <1>p, <2>2
    <2>4. UNCHANGED <<plan, tokens, steps, approved, overrun>>
      BY <1>4 DEF RequireHITL
    <2> QED
      BY <2>1, <2>3, <2>4 DEF AgentTypeOK
  <1>5. ASSUME NEW t \in Tasks, HITLApproved(t) PROVE AgentTypeOK'
    <2>1. /\ machine' \in [Tasks -> MachineTask]
          /\ notified' \in [Tasks -> TaskStates \cup { "none" }]
      BY <1>5, <1>m, FireTyping DEF HITLApproved
    <2>2. approved' \in [Tasks -> SUBSET Nat]
      BY <1>5 DEF HITLApproved, AgentTypeOK
    <2> QED
      BY <1>5, <2>1, <2>2 DEF HITLApproved, Goto, AgentTypeOK
  <1>11. ASSUME NEW t \in Tasks, HITLRefused(t) PROVE AgentTypeOK'
    BY <1>11, <1>m, FireTyping DEF HITLRefused, Goto, AgentTypeOK
  <1>6. ASSUME NEW t \in Tasks, ExecuteStep(t) PROVE AgentTypeOK'
    <2>1. /\ machine' \in [Tasks -> MachineTask]
          /\ notified' \in [Tasks -> TaskStates \cup { "none" }]
      BY <1>6, <1>m, FireTyping DEF ExecuteStep, Silent, AgentTypeOK
    <2>2. Tool(t) \in Tools
      BY <1>6 DEF ExecuteStep, AgentInv, GateInv, Tool, AgentTypeOK
    <2>3. PICK failed \in BOOLEAN :
              steps' = [steps EXCEPT ![t] =
                  Append(@, [step |-> index[t], tool |-> Tool(t), failed |-> failed])]
      BY <1>6 DEF ExecuteStep
    <2>4. [step |-> index[t], tool |-> Tool(t), failed |-> failed] \in StepResults
      BY <2>2 DEF StepResults, AgentTypeOK
    <2>5. steps' \in [Tasks -> Seq(StepResults)]
      BY <2>3, <2>4 DEF AgentTypeOK
    <2>6. \/ index' = index
          \/ index' = [index EXCEPT ![t] = @ + 1]
      BY <1>6 DEF ExecuteStep
    <2>7. \/ pc' = [pc EXCEPT ![t] = "review"]
          \/ pc' = [pc EXCEPT ![t] = "reflect"]
          \/ pc' = [pc EXCEPT ![t] = "loop"]
      BY <1>6 DEF ExecuteStep, Goto
    <2>8. /\ overrun' = [overrun EXCEPT ![t] = IF Spent(t) THEN @ + 1 ELSE @]
          /\ UNCHANGED <<plan, tokens, approved>>
      BY <1>6 DEF ExecuteStep
    <2>9. pc' \in [Tasks -> Locations] /\ index' \in [Tasks -> Nat]
      BY <1>p, <2>6, <2>7
    <2>10. overrun' \in [Tasks -> Nat]
      BY <1>p, <2>8
    <2> QED
      BY <2>1, <2>5, <2>8, <2>9, <2>10 DEF AgentTypeOK
  <1>7. ASSUME NEW t \in Tasks, Reflect(t) PROVE AgentTypeOK'
    <2>1. PICK k \in 0 .. CallTokens, adj \in Adjustments(Len(plan[t]) - index[t] - 1) :
              /\ tokens' = [tokens EXCEPT ![t] = @ + k]
              /\ plan' = [plan EXCEPT ![t] = [j \in 1 .. Len(plan[t]) |->
                    LET n == j - index[t] - 1 IN
                    IF n \in 1 .. Len(adj) THEN adj[n] ELSE plan[t][j]]]
      BY <1>7 DEF Reflect
    <2>2. adj \in Seq(Registered) /\ k \in Nat
      BY BoundsAssumption DEF Adjustments
    <2>3. [j \in 1 .. Len(plan[t]) |->
              LET n == j - index[t] - 1 IN
              IF n \in 1 .. Len(adj) THEN adj[n] ELSE plan[t][j]] \in Seq(Tools)
      BY <2>2, ToolsAssumption DEF AgentTypeOK
    <2>4. plan' \in [Tasks -> Seq(Tools)] /\ tokens' \in [Tasks -> Nat]
      BY <2>1, <2>2, <2>3 DEF AgentTypeOK
    <2>5. /\ pc' = [pc EXCEPT ![t] = "loop"]
          /\ index' = [index EXCEPT ![t] = @ + 1]
          /\ notified' = [notified EXCEPT ![t] = "none"]
          /\ UNCHANGED <<machine, steps, approved, overrun>>
      BY <1>7 DEF Reflect, Goto, Silent
    <2> QED
      BY <2>4, <2>5 DEF AgentTypeOK
  <1>8. ASSUME NEW t \in Tasks, LeaveLoop(t) PROVE AgentTypeOK'
    BY <1>8 DEF LeaveLoop, Goto, Silent, AgentTypeOK
  <1>9. ASSUME NEW t \in Tasks, Review(t) PROVE AgentTypeOK'
    BY <1>9, <1>m, FireTyping DEF Review, Goto, AgentTypeOK
  <1>10. ASSUME UNCHANGED agentVars PROVE AgentTypeOK'
    BY <1>10 DEF agentVars, AgentTypeOK
  <1> QED
    BY <1>1, <1>2, <1>3, <1>4, <1>5, <1>6, <1>7, <1>8, <1>9, <1>10, <1>11
    DEF AgentNext, AgentStep, HITLAnswer

--------------------------------------------------------------------------------
(* The gate *)

\* A task no variable of which changes keeps its part of the invariant.
LEMMA GateFrame ==
    ASSUME NEW u \in Tasks, GateInv(u), pc'[u] = pc[u], plan'[u] = plan[u],
           index'[u] = index[u], steps'[u] = steps[u], approved'[u] = approved[u]
    PROVE  GateInv(u)'
  BY DEF GateInv, Tool

\* The step numbers of the records are natural numbers.
LEMMA StepNumbers ==
    ASSUME AgentTypeOK, NEW t \in Tasks, NEW j \in 1 .. Len(steps[t])
    PROVE  steps[t][j].step \in Nat
  <1>1. steps[t] \in Seq(StepResults)
    BY DEF AgentTypeOK
  <1>2. steps[t][j] \in StepResults
    BY <1>1
  <1> QED
    BY <1>2 DEF StepResults

\* An iteration that moves the loop on, from a location where the steps that ran
\* may include the current one.
LEMMA GateAdvance ==
    ASSUME AgentTypeOK, NEW t \in Tasks, GateInv(t), pc'[t] = "loop",
           index'[t] = index[t] + 1, steps'[t] = steps[t], approved'[t] = approved[t]
    PROVE  GateInv(t)'
  <1>1. index[t] \in Nat /\ \A j \in 1 .. Len(steps[t]) : steps[t][j].step \in Nat
    BY StepNumbers DEF AgentTypeOK
  <1> QED
    BY <1>1 DEF GateInv, Finished

\* A step runs: its record is the last and its index lies past all the others
\* (agent.go:218-223).
LEMMA GateRun ==
    ASSUME AgentTypeOK, NEW t \in Tasks, GateInv(t), pc[t] = "exec",
           NEW failed \in BOOLEAN,
           steps'[t] = Append(steps[t],
                              [step |-> index[t], tool |-> Tool(t), failed |-> failed]),
           approved'[t] = approved[t],
           \/ pc'[t] \in { "review", "reflect" } /\ index'[t] = index[t]
           \/ pc'[t] = "loop" /\ index'[t] = index[t] + 1
    PROVE  GateInv(t)'
  <1> DEFINE new == [step |-> index[t], tool |-> Tool(t), failed |-> failed]
  <1>1. /\ index[t] \in Nat
        /\ steps[t] \in Seq(StepResults)
        /\ \A j \in 1 .. Len(steps[t]) : steps[t][j].step \in Nat
    BY StepNumbers DEF AgentTypeOK
  <1>2. /\ Len(steps'[t]) = Len(steps[t]) + 1
        /\ \A j \in 1 .. Len(steps[t]) : steps'[t][j] = steps[t][j]
        /\ steps'[t][Len(steps[t]) + 1] = new
    BY <1>1
  <1>3. new.step = index[t] /\ (new.tool \in HITLTools => new.step \in approved[t])
    BY DEF GateInv
  <1>4. pc'[t] \notin { "hitl", "exec" }
    OBVIOUS
  <1>5. \A j \in 1 .. Len(steps[t]) :
            steps[t][j].step < index[t]
            /\ (steps[t][j].tool \in HITLTools => steps[t][j].step \in approved[t])
    BY DEF GateInv, Finished
  <1> HIDE DEF new
  <1>6. \A j \in 1 .. Len(steps'[t]) :
            /\ steps'[t][j].step <= index'[t]
            /\ pc'[t] \notin Finished => steps'[t][j].step < index'[t]
            /\ steps'[t][j].tool \in HITLTools => steps'[t][j].step \in approved'[t]
    <2> SUFFICES ASSUME NEW j \in 1 .. Len(steps'[t])
                 PROVE  /\ steps'[t][j].step <= index'[t]
                        /\ pc'[t] \notin Finished => steps'[t][j].step < index'[t]
                        /\ steps'[t][j].tool \in HITLTools =>
                              steps'[t][j].step \in approved'[t]
      OBVIOUS
    <2>1. CASE j \in 1 .. Len(steps[t])
      BY <1>1, <1>2, <1>5, <2>1 DEF Finished
    <2>2. CASE j = Len(steps[t]) + 1
      BY <1>1, <1>2, <1>3, <2>2 DEF Finished
    <2> QED
      BY <1>1, <1>2, <2>1, <2>2
  <1>7. \A j, k \in 1 .. Len(steps'[t]) : j < k => steps'[t][j].step < steps'[t][k].step
    <2> SUFFICES ASSUME NEW j \in 1 .. Len(steps'[t]), NEW k \in 1 .. Len(steps'[t]), j < k
                 PROVE  steps'[t][j].step < steps'[t][k].step
      OBVIOUS
    <2>1. j \in 1 .. Len(steps[t])
      BY <1>1, <1>2
    <2>2. CASE k \in 1 .. Len(steps[t])
      BY <1>2, <2>1, <2>2 DEF GateInv
    <2>3. CASE k = Len(steps[t]) + 1
      BY <1>2, <1>3, <1>5, <2>1, <2>3
    <2> QED
      BY <1>1, <1>2, <2>2, <2>3
  <1> QED
    BY <1>4, <1>6, <1>7 DEF GateInv

\* Every action keeps the gate.
LEMMA AgentNextGate == AgentInv /\ [AgentNext]_agentVars => \A u \in Tasks : GateInv(u)'
  <1> SUFFICES ASSUME AgentInv, [AgentNext]_agentVars, NEW u \in Tasks PROVE GateInv(u)'
    OBVIOUS
  <1>t. AgentTypeOK /\ GateInv(u)
    BY DEF AgentInv
  <1>f. /\ pc \in [Tasks -> Locations] /\ index \in [Tasks -> Nat]
        /\ plan \in [Tasks -> Seq(Tools)] /\ steps \in [Tasks -> Seq(StepResults)]
        /\ approved \in [Tasks -> SUBSET Nat]
    BY <1>t DEF AgentTypeOK
  <1>1. ASSUME NEW t \in Tasks, u # t,
               AgentStep(t) \/ HITLApproved(t) \/ HITLRefused(t)
        PROVE  GateInv(u)'
    <2>1. /\ pc'[u] = pc[u] /\ index'[u] = index[u] /\ plan'[u] = plan[u]
          /\ steps'[u] = steps[u] /\ approved'[u] = approved[u]
      <3>1. CASE Start(t) \/ LeaveLoop(t) \/ Review(t) \/ EnterStep(t)
        BY <1>1, <1>f, <3>1 DEF Start, LeaveLoop, Review, EnterStep, Goto
      <3>2. CASE PlanTask(t)
        BY <1>1, <1>f, <3>2 DEF PlanTask, Goto
      <3>3. CASE RequireHITL(t)
        BY <1>1, <1>f, <3>3 DEF RequireHITL, Goto
      <3>4. CASE HITLApproved(t) \/ HITLRefused(t)
        BY <1>1, <1>f, <3>4 DEF HITLApproved, HITLRefused, Goto
      <3>5. CASE ExecuteStep(t)
        BY <1>1, <1>f, <3>5 DEF ExecuteStep, Goto
      <3>6. CASE Reflect(t)
        BY <1>1, <1>f, <3>6 DEF Reflect, Goto
      <3> QED
        BY <1>1, <3>1, <3>2, <3>3, <3>4, <3>5, <3>6 DEF AgentStep
    <2> QED
      BY <1>t, <2>1, GateFrame
  <1>2. ASSUME Start(u) \/ LeaveLoop(u) \/ Review(u) PROVE GateInv(u)'
    <2>1. /\ pc[u] \in { "start", "loop", "review" }
          /\ pc[u] = "start" => pc'[u] = "plan"
          /\ pc[u] = "loop" => pc'[u] = "review"
          /\ pc[u] = "review" => pc'[u] = "returned"
          /\ UNCHANGED <<plan, index, steps, approved>>
      BY <1>2, <1>f DEF Start, LeaveLoop, Review, Goto
    <2> QED
      BY <1>t, <2>1 DEF GateInv, Finished
  <1>3. ASSUME PlanTask(u) PROVE GateInv(u)'
    <2>1. /\ pc[u] = "plan" /\ pc'[u] = "loop"
          /\ steps' = steps /\ approved' = approved
      BY <1>3, <1>f DEF PlanTask, Goto
    <2>2. steps'[u] = <<>>
      BY <1>t, <2>1 DEF GateInv
    <2> QED
      BY <2>1, <2>2 DEF GateInv
  <1>4. ASSUME EnterStep(u) PROVE GateInv(u)'
    <2>1. /\ pc[u] = "loop" /\ pc'[u] = "exec"
          /\ index[u] < Len(plan[u]) /\ Tool(u) \notin HITLTools
          /\ UNCHANGED <<plan, index, steps, approved>>
      BY <1>4, <1>f DEF EnterStep, Continues, Goto
    <2> QED
      BY <1>t, <2>1 DEF GateInv, Finished, Tool
  <1>5. ASSUME RequireHITL(u) PROVE GateInv(u)'
    <2>1. /\ pc[u] = "loop" /\ index[u] < Len(plan[u])
          /\ UNCHANGED <<plan, steps, approved>>
          /\ \/ pc'[u] = "hitl" /\ index' = index
             \/ pc'[u] = "loop" /\ index'[u] = index[u] + 1
      BY <1>5, <1>f DEF RequireHITL, Continues, Goto
    <2>2. CASE pc'[u] = "hitl" /\ index' = index
      BY <1>t, <2>1, <2>2 DEF GateInv, Finished
    <2>3. CASE pc'[u] = "loop" /\ index'[u] = index[u] + 1
      BY <1>t, <2>1, <2>3, GateAdvance
    <2> QED
      BY <2>1, <2>2, <2>3
  <1>6. ASSUME HITLApproved(u) PROVE GateInv(u)'
    <2>1. /\ pc[u] = "hitl" /\ pc'[u] = "exec"
          /\ approved'[u] = approved[u] \cup { index[u] }
          /\ UNCHANGED <<plan, index, steps>>
      BY <1>6, <1>f DEF HITLApproved, Goto
    <2> QED
      BY <1>t, <2>1 DEF GateInv, Finished, Tool
  <1>7. ASSUME HITLRefused(u) PROVE GateInv(u)'
    <2>1. /\ pc[u] = "hitl" /\ pc'[u] = "errored"
          /\ UNCHANGED <<plan, index, steps, approved>>
      BY <1>7, <1>f DEF HITLRefused, Goto
    <2> QED
      BY <1>t, <2>1 DEF GateInv, Finished
  <1>8. ASSUME ExecuteStep(u) PROVE GateInv(u)'
    <2>1. PICK failed \in BOOLEAN :
              steps' = [steps EXCEPT ![u] =
                  Append(@, [step |-> index[u], tool |-> Tool(u), failed |-> failed])]
      BY <1>8 DEF ExecuteStep
    <2>2. steps'[u] = Append(steps[u],
                             [step |-> index[u], tool |-> Tool(u), failed |-> failed])
      BY <1>f, <2>1
    <2>3. \/ pc'[u] \in { "review", "reflect" } /\ index'[u] = index[u]
          \/ pc'[u] = "loop" /\ index'[u] = index[u] + 1
      BY <1>8, <1>f DEF ExecuteStep, Goto
    <2>4. pc[u] = "exec" /\ approved'[u] = approved[u]
      BY <1>8 DEF ExecuteStep
    <2> QED
      BY <1>t, <2>2, <2>3, <2>4, GateRun
  <1>9. ASSUME Reflect(u) PROVE GateInv(u)'
    <2>1. /\ pc'[u] = "loop" /\ index'[u] = index[u] + 1
          /\ steps'[u] = steps[u] /\ approved'[u] = approved[u]
      BY <1>9, <1>f DEF Reflect, Goto
    <2> QED
      BY <1>t, <2>1, GateAdvance
  <1>10. ASSUME UNCHANGED agentVars PROVE GateInv(u)'
    BY <1>t, <1>10, GateFrame DEF agentVars
  <1>11. ASSUME NEW t \in Tasks, AgentStep(t) \/ HITLApproved(t) \/ HITLRefused(t)
         PROVE  GateInv(u)'
    <2>1. CASE u # t
      BY <1>1, <1>11, <2>1
    <2>2. CASE u = t
      BY <1>2, <1>3, <1>4, <1>5, <1>6, <1>7, <1>8, <1>9, <1>11, <2>2 DEF AgentStep
    <2> QED
      BY <2>1, <2>2
  <1> QED
    BY <1>10, <1>11 DEF AgentNext, HITLAnswer

--------------------------------------------------------------------------------

\* The invariant holds throughout (agent.go:127-295).
THEOREM AgentInvariant == AgentSpec => []AgentInv
  <1>1. AgentInv /\ [AgentNext]_agentVars => AgentInv'
    BY AgentNextTyping, AgentNextGate DEF AgentInv
  <1> QED
    BY AgentInitInv, <1>1, PTL DEF AgentSpec

\* Task records, plans and step results keep their types (agent.go:40-82).
THEOREM AgentTypeCorrect == AgentSpec => []AgentTypeOK
  <1>1. AgentInv => AgentTypeOK
    BY DEF AgentInv
  <1> QED
    BY AgentInvariant, <1>1, PTL

(***************************************************************************)
(* agent.go:180-219.  No plan, however long, adjusted however often, runs  *)
(* a tool that asks for a human except in a step that human approved, and  *)
(* no step runs twice.                                                     *)
(***************************************************************************)
THEOREM GatedByHumans == AgentSpec => []HITLGated
  <1>1. AgentInv => HITLGated
    BY DEF AgentInv, GateInv, HITLGated
  <1> QED
    BY AgentInvariant, <1>1, PTL

--------------------------------------------------------------------------------
(* The ledger: budget, completion and failures *)

\* The last step of s that ran was the last of a plan of n steps, and did not fail.
Earned(s, n) == Len(s) > 0 /\ s[Len(s)].step + 1 = n /\ ~s[Len(s)].failed

\* There are n failed steps in s.
Failures(s, n) ==
    \E F \in SUBSET (1 .. Len(s)) : Cardinality(F) = n /\ \A j \in F : s[j].failed

\* How many failed steps a record of the state machine stands for.
Owed(t) ==
    IF machine[t].state = "failed" /\ pc[t] # "errored" THEN MaxRetries
    ELSE machine[t].retryCount

(***************************************************************************)
(* None of the three properties is inductive.  Completion needs to know    *)
(* that the machine's CurrentStep and TotalSteps are the loop's index and  *)
(* the plan's length while a step runs, and that a task under review has   *)
(* left the loop; failure, that every retry the machine counted is a       *)
(* failed step; the budget, that a tool that overran it was the last.      *)
(***************************************************************************)
LedgerInv(t) ==
    /\ pc[t] = "start" => machine[t].state = "pending"
    /\ pc[t] = "plan" => machine[t].state = "planning"
    /\ pc[t] = "hitl" => machine[t].state = "waiting_hitl"
    /\ pc[t] \in { "loop", "exec", "reflect", "review" } =>
          machine[t].state \in { "executing", "reviewing", "failed" }
    /\ pc[t] \in { "loop", "hitl", "exec", "reflect", "review" } =>
          machine[t].totalSteps = Len(plan[t])
    /\ pc[t] \in { "hitl", "exec" } => machine[t].currentStep = index[t]
    /\ machine[t].state \in { "reviewing", "completed" } =>
          /\ pc[t] \in { "loop", "review", "returned" }
          /\ index[t] >= Len(plan[t])
          /\ Earned(steps[t], Len(plan[t]))
    /\ machine[t].retryCount < MaxRetries
    /\ Failures(steps[t], Owed(t))
    /\ overrun[t] <= 1
    /\ overrun[t] = 1 => pc[t] \in { "review", "returned" }

Ledger == \A t \in Tasks : LedgerInv(t)
--------------------------------------------------------------------------------

\* What each event ExecuteTask fires does to a record in the state it is fired in
\* (state.go:139-219).
LEMMA TransitionEffect ==
    ASSUME NEW m \in MachineTask
    PROVE  /\ m.state = "pending" =>
                 Transition(m, "start", MaxRetries) = [m EXCEPT !.state = "planning"]
           /\ m.state = "planning" =>
                 Transition(m, "plan_ready", MaxRetries) = [m EXCEPT !.state = "executing"]
           /\ Transition(m, "hitl_required", MaxRetries) =
                 IF m.state = "executing" THEN [m EXCEPT !.state = "waiting_hitl"] ELSE m
           /\ Accepts(m, "hitl_required", MaxRetries) <=> m.state = "executing"
           /\ m.state = "waiting_hitl" =>
                 /\ Transition(m, "hitl_approved", MaxRetries) = [m EXCEPT !.state = "executing"]
                 /\ Transition(m, "hitl_rejected", MaxRetries) = [m EXCEPT !.state = "failed"]
           /\ Transition(m, "step_complete", MaxRetries) =
                 IF m.state = "executing" /\ AtLastStep(m)
                 THEN [m EXCEPT !.state = "reviewing"] ELSE m
           /\ Transition(m, "step_failed", MaxRetries) =
                 IF m.state = "executing"
                 THEN IF OutOfRetries(m, MaxRetries) THEN [m EXCEPT !.state = "failed"]
                      ELSE [m EXCEPT !.retryCount = @ + 1]
                 ELSE IF m.state = "planning" THEN [m EXCEPT !.state = "failed"] ELSE m
           /\ Transition(m, "review_passed", MaxRetries) =
                 IF m.state = "reviewing" THEN [m EXCEPT !.state = "completed"] ELSE m
  <1>1. m = [state |-> m.state, retryCount |-> m.retryCount,
             currentStep |-> m.currentStep, totalSteps |-> m.totalSteps]
        /\ m.retryCount \in Nat
    BY DEF MachineTask
  <1>2. ASSUME NEW r PROVE [m EXCEPT !.state = r] = [state |-> r, retryCount |-> m.retryCount,
             currentStep |-> m.currentStep, totalSteps |-> m.totalSteps]
    BY <1>1 DEF MachineTask
  <1>3. [m EXCEPT !.retryCount = @ + 1] = [state |-> m.state, retryCount |-> m.retryCount + 1,
             currentStep |-> m.currentStep, totalSteps |-> m.totalSteps]
    BY <1>1 DEF MachineTask
  <1> QED
    BY <1>1, <1>2, <1>3 DEF Transition, Accepts, Target, CountsRetry

\* No step has failed before any has run.
LEMMA NoFailures == Failures(<<>>, 0)
  <1>1. Cardinality({}) = 0
    BY FS_EmptySet
  <1>2. {} \in SUBSET (1 .. Len(<<>>)) /\ \A j \in {} : <<>>[j].failed
    OBVIOUS
  <1> QED
    BY <1>1, <1>2 DEF Failures

\* A further step keeps the failures, and adds one when it fails (agent.go:221).
LEMMA FailuresAppend ==
    ASSUME NEW s \in Seq(StepResults), NEW r \in StepResults, NEW n \in Nat, Failures(s, n)
    PROVE  Failures(Append(s, r), n) /\ (r.failed => Failures(Append(s, r), n + 1))
  <1>1. PICK F \in SUBSET (1 .. Len(s)) : Cardinality(F) = n /\ \A j \in F : s[j].failed
    BY DEF Failures
  <1> DEFINE a == Append(s, r)
  <1>2. /\ Len(a) = Len(s) + 1 /\ Len(s) \in Nat
        /\ \A j \in 1 .. Len(s) : a[j] = s[j]
        /\ a[Len(s) + 1] = r
    OBVIOUS
  <1> HIDE DEF a
  <1>3. F \in SUBSET (1 .. Len(a)) /\ \A j \in F : a[j].failed
    BY <1>1, <1>2
  <1>4. Failures(a, n)
    BY <1>1, <1>3 DEF Failures
  <1>5. ASSUME r.failed PROVE Failures(a, n + 1)
    <2> DEFINE G == F \cup { Len(s) + 1 }
    <2>1. IsFiniteSet(F)
      <3>1. IsFiniteSet(1 .. Len(s))
        BY <1>2, FS_Interval
      <3> QED
        BY <3>1, FS_Subset
    <2>2. Len(s) + 1 \notin F
      BY <1>2
    <2>3. Cardinality(G) = n + 1
      BY <1>1, <2>1, <2>2, FS_AddElement
    <2>4. G \in SUBSET (1 .. Len(a))
      <3>1. Len(s) + 1 \in 1 .. Len(a)
        BY <1>2
      <3> QED
        BY <1>3, <3>1
    <2>5. ASSUME NEW j \in G PROVE a[j].failed
      <3>1. CASE j \in F
        BY <1>3, <3>1
      <3>2. CASE j = Len(s) + 1
        BY <1>2, <1>5, <3>2, Zenon
      <3> QED
        BY <3>1, <3>2
    <2> HIDE DEF G
    <2> QED
      BY <2>3, <2>4, <2>5 DEF Failures
  <1> QED
    BY <1>4, <1>5 DEF a

\* A task that has not started owes nothing (agent.go:127-137).
LEMMA LedgerInit == AgentInit("start") => Ledger
  <1> SUFFICES ASSUME AgentInit("start"), NEW t \in Tasks PROVE LedgerInv(t)
    BY DEF Ledger
  <1>1. /\ pc[t] = "start" /\ machine[t] = NewTask /\ steps[t] = <<>>
        /\ index[t] = 0 /\ plan[t] = <<>> /\ overrun[t] = 0
    BY DEF AgentInit
  <1>2. Failures(steps[t], Owed(t))
    BY <1>1, NoFailures DEF Owed, NewTask
  <1> QED
    BY <1>1, <1>2, BoundsAssumption DEF LedgerInv, NewTask

\* A task no variable of which changes keeps its part of the ledger.
LEMMA LedgerFrame ==
    ASSUME NEW u \in Tasks, LedgerInv(u), pc'[u] = pc[u], machine'[u] = machine[u],
           plan'[u] = plan[u], index'[u] = index[u], steps'[u] = steps[u],
           overrun'[u] = overrun[u]
    PROVE  LedgerInv(u)'
  BY DEF LedgerInv, Owed

\* What a fired event leaves in the task's machine record (agent.go:115-125).
LEMMA FireEffect ==
    ASSUME AgentTypeOK, NEW u \in Tasks, NEW m \in MachineTask, NEW e, Fire(u, m, e)
    PROVE  machine'[u] = Transition(m, e, MaxRetries)
  BY DEF Fire, AgentTypeOK

\* The fields of an updated record.
LEMMA MachineFields ==
    ASSUME NEW m \in MachineTask, NEW r, NEW n
    PROVE  /\ LET x == [m EXCEPT !.state = r] IN
              /\ x.state = r /\ x.retryCount = m.retryCount
              /\ x.currentStep = m.currentStep /\ x.totalSteps = m.totalSteps
           /\ LET x == [m EXCEPT !.retryCount = n] IN
              /\ x.state = m.state /\ x.retryCount = n
              /\ x.currentStep = m.currentStep /\ x.totalSteps = m.totalSteps
  BY DEF MachineTask

\* A task's own step, whatever it is, keeps its part of the ledger.
LEMMA LedgerStep ==
    ASSUME AgentInv, NEW u \in Tasks, LedgerInv(u),
           AgentStep(u) \/ HITLApproved(u) \/ HITLRefused(u)
    PROVE  LedgerInv(u)'
  <1>t. AgentTypeOK /\ GateInv(u)
    BY DEF AgentInv
  <1>f. /\ pc \in [Tasks -> Locations] /\ index \in [Tasks -> Nat]
        /\ plan \in [Tasks -> Seq(Tools)] /\ steps \in [Tasks -> Seq(StepResults)]
        /\ overrun \in [Tasks -> Nat] /\ machine \in [Tasks -> MachineTask]
    BY <1>t DEF AgentTypeOK
  <1> DEFINE m == machine[u]
  <1>m. /\ m \in MachineTask
        /\ m.state \in TaskStates /\ m.retryCount \in Nat
        /\ m.currentStep \in Nat /\ m.totalSteps \in Nat
    BY <1>f DEF MachineTask
  <1>a. /\ AtStep(u) \in MachineTask
        /\ AtStep(u).state = m.state /\ AtStep(u).retryCount = m.retryCount
        /\ AtStep(u).currentStep = index[u] /\ AtStep(u).totalSteps = m.totalSteps
    BY <1>f, <1>m DEF AtStep, SetCurrentStep, MachineTask
  <1>1. CASE Start(u)
    <2>1. /\ pc[u] = "start" /\ pc'[u] = "plan" /\ machine'[u] = Transition(m, "start", MaxRetries)
          /\ UNCHANGED <<plan, index, steps, overrun>>
      BY <1>1, <1>t, <1>f, <1>m, FireEffect DEF Start, Goto
    <2>2. m.state = "pending" /\ machine'[u] = [m EXCEPT !.state = "planning"]
      BY <1>m, <2>1, TransitionEffect DEF LedgerInv
    <2>3. machine'[u].state = "planning" /\ machine'[u].retryCount = m.retryCount
      BY <1>m, <2>2, MachineFields
    <2> QED
      BY <2>1, <2>2, <2>3 DEF LedgerInv, Owed
  <1>2. CASE PlanTask(u)
    <2>1. PICK p \in Plans, k \in 0 .. CallTokens :
              /\ plan' = [plan EXCEPT ![u] = p]
              /\ Fire(u, SetPlan(m, Len(p)), "plan_ready")
      BY <1>2 DEF PlanTask
    <2>2. p \in Seq(Tools) /\ plan'[u] = p /\ Len(p) \in Nat
      BY <1>f, <2>1, PlansTyping
    <2> DEFINE n == SetPlan(m, Len(p))
    <2>3. /\ n \in MachineTask /\ n.state = m.state /\ n.retryCount = m.retryCount
          /\ n.totalSteps = Len(p)
      BY <1>m, <2>2 DEF SetPlan, MachineTask
    <2>4. /\ pc[u] = "plan" /\ pc'[u] = "loop" /\ UNCHANGED <<steps, overrun>>
      BY <1>2, <1>f DEF PlanTask, Goto
    <2>5. n.state = "planning"
      BY <2>3, <2>4 DEF LedgerInv
    <2> HIDE DEF n
    <2>6. machine'[u] = [n EXCEPT !.state = "executing"]
      BY <1>t, <2>1, <2>3, <2>5, FireEffect, TransitionEffect DEF n
    <2>7. /\ machine'[u].state = "executing" /\ machine'[u].retryCount = m.retryCount
          /\ machine'[u].totalSteps = Len(p)
      BY <2>3, <2>6, MachineFields
    <2> QED
      BY <2>2, <2>3, <2>4, <2>5, <2>7 DEF LedgerInv, Owed
  <1>3. CASE EnterStep(u)
    <2>1. /\ pc[u] = "loop" /\ pc'[u] = "exec" /\ index[u] < Len(plan[u])
          /\ machine'[u] = AtStep(u) /\ UNCHANGED <<plan, index, steps, overrun>>
      BY <1>3, <1>f DEF EnterStep, Goto, Continues
    <2>2. m.state \notin { "reviewing", "completed" }
      BY <1>f, <2>1 DEF LedgerInv
    <2> QED
      BY <1>a, <2>1, <2>2 DEF LedgerInv, Owed
  <1>4. CASE RequireHITL(u)
    <2>1. /\ pc[u] = "loop" /\ index[u] < Len(plan[u])
          /\ machine'[u] = Transition(AtStep(u), "hitl_required", MaxRetries)
          /\ UNCHANGED <<plan, steps, overrun>>
      BY <1>4, <1>t, <1>a, FireEffect DEF RequireHITL, Continues
    <2>2. m.state \notin { "reviewing", "completed" }
      BY <1>f, <2>1 DEF LedgerInv
    <2>3. CASE m.state = "executing"
      <3>1. pc'[u] = "hitl" /\ index'[u] = index[u]
        BY <1>4, <1>f, <1>a, <2>3, TransitionEffect DEF RequireHITL, Goto
      <3>2. machine'[u] = [AtStep(u) EXCEPT !.state = "waiting_hitl"]
        BY <1>a, <2>1, <2>3, TransitionEffect
      <3>3. /\ machine'[u].state = "waiting_hitl" /\ machine'[u].retryCount = m.retryCount
            /\ machine'[u].currentStep = index[u] /\ machine'[u].totalSteps = m.totalSteps
        BY <1>a, <3>2, MachineFields
      <3> QED
        BY <2>1, <2>3, <3>1, <3>3 DEF LedgerInv, Owed
    <2>4. CASE m.state # "executing"
      <3>1. pc'[u] = "loop" /\ machine'[u] = AtStep(u)
        BY <1>4, <1>f, <1>a, <2>1, <2>4, TransitionEffect DEF RequireHITL
      <3> QED
        BY <1>a, <2>1, <2>2, <2>4, <3>1 DEF LedgerInv, Owed
    <2> QED
      BY <2>3, <2>4
  <1>5. CASE HITLApproved(u) \/ HITLRefused(u)
    <2>1. /\ pc[u] = "hitl" /\ UNCHANGED <<plan, index, steps, overrun>>
          /\ \/ pc'[u] = "exec" /\ machine'[u] = Transition(m, "hitl_approved", MaxRetries)
             \/ pc'[u] = "errored" /\ machine'[u] = Transition(m, "hitl_rejected", MaxRetries)
      BY <1>5, <1>t, <1>f, <1>m, FireEffect DEF HITLApproved, HITLRefused, Goto
    <2>2. m.state = "waiting_hitl"
      BY <2>1 DEF LedgerInv
    <2>3. \/ pc'[u] = "exec" /\ machine'[u] = [m EXCEPT !.state = "executing"]
          \/ pc'[u] = "errored" /\ machine'[u] = [m EXCEPT !.state = "failed"]
      BY <1>m, <2>1, <2>2, TransitionEffect
    <2>4. /\ machine'[u].state = IF pc'[u] = "exec" THEN "executing" ELSE "failed"
          /\ machine'[u].retryCount = m.retryCount
          /\ machine'[u].currentStep = m.currentStep /\ machine'[u].totalSteps = m.totalSteps
      <3>1. CASE pc'[u] = "exec" /\ machine'[u] = [m EXCEPT !.state = "executing"]
        BY <1>m, <3>1, MachineFields
      <3>2. CASE pc'[u] = "errored" /\ machine'[u] = [m EXCEPT !.state = "failed"]
        BY <1>m, <3>2, MachineFields
      <3> QED
        BY <2>3, <3>1, <3>2
    <2> QED
      BY <2>1, <2>2, <2>3, <2>4 DEF LedgerInv, Owed
  <1>7. CASE Reflect(u)
    <2>1. /\ pc[u] = "reflect" /\ pc'[u] = "loop" /\ index'[u] = index[u] + 1
          /\ UNCHANGED <<machine, steps, overrun>>
      BY <1>7, <1>f DEF Reflect, Goto
    <2>2. Len(plan'[u]) = Len(plan[u])
      <3>1. PICK k \in 0 .. CallTokens, adj \in Adjustments(Len(plan[u]) - index[u] - 1) :
               plan' = [plan EXCEPT ![u] = [j \in 1 .. Len(plan[u]) |->
                    LET n == j - index[u] - 1 IN
                    IF n \in 1 .. Len(adj) THEN adj[n] ELSE plan[u][j]]]
        BY <1>7 DEF Reflect
      <3>2. plan'[u] = [j \in 1 .. Len(plan[u]) |->
                    LET n == j - index[u] - 1 IN
                    IF n \in 1 .. Len(adj) THEN adj[n] ELSE plan[u][j]]
        BY <1>f, <3>1
      <3>3. Len(plan[u]) \in Nat
        BY <1>f
      <3> QED
        BY <3>2, <3>3
    <2> QED
      BY <2>1, <2>2 DEF LedgerInv, Owed
  <1>8. CASE LeaveLoop(u)
    <2>1. /\ pc[u] = "loop" /\ pc'[u] = "review"
          /\ UNCHANGED <<machine, plan, index, steps, overrun>>
      BY <1>8, <1>f DEF LeaveLoop, Goto
    <2> QED
      BY <2>1 DEF LedgerInv, Owed
  <1>9. CASE Review(u)
    <2>1. /\ pc[u] = "review" /\ pc'[u] = "returned"
          /\ machine'[u] = Transition(m, "review_passed", MaxRetries)
          /\ UNCHANGED <<plan, index, steps, overrun>>
      BY <1>9, <1>t, <1>f, <1>m, FireEffect DEF Review, Goto
    <2>2. /\ machine'[u].state = IF m.state = "reviewing" THEN "completed" ELSE m.state
          /\ machine'[u].retryCount = m.retryCount
      <3>1. machine'[u] = IF m.state = "reviewing" THEN [m EXCEPT !.state = "completed"] ELSE m
        BY <1>m, <2>1, TransitionEffect
      <3> QED
        BY <1>m, <3>1, MachineFields
    <2> QED
      BY <2>1, <2>2 DEF LedgerInv, Owed
  <1>6. CASE ExecuteStep(u)
    <2>1. PICK failed \in BOOLEAN :
          /\ steps' = [steps EXCEPT ![u] =
                Append(@, [step |-> index[u], tool |-> Tool(u), failed |-> failed])]
          /\ \/ /\ Spent(u)
                /\ Goto(u, "review")
                /\ UNCHANGED <<machine, index>>
             \/ /\ ~Spent(u) /\ failed
                /\ Fire(u, machine[u], "step_failed")
                /\ IF index[u] + 1 < Len(plan[u])
                   THEN Goto(u, "reflect") /\ UNCHANGED index
                   ELSE Goto(u, "loop") /\ index' = [index EXCEPT ![u] = @ + 1]
             \/ /\ ~Spent(u) /\ ~failed
                /\ Fire(u, machine[u], "step_complete")
                /\ Goto(u, "loop")
                /\ index' = [index EXCEPT ![u] = @ + 1]
      BY <1>6 DEF ExecuteStep
    <2> DEFINE r == [step |-> index[u], tool |-> Tool(u), failed |-> failed]
    <2>2. /\ pc[u] = "exec" /\ plan' = plan
          /\ overrun'[u] = IF Spent(u) THEN overrun[u] + 1 ELSE overrun[u]
      BY <1>6, <1>f DEF ExecuteStep
    <2>3. /\ index[u] < Len(plan[u]) /\ index[u] \in Nat /\ Len(plan[u]) \in Nat
          /\ m.totalSteps = Len(plan[u]) /\ m.currentStep = index[u]
          /\ m.state \in { "executing", "failed" }
          /\ m.retryCount < MaxRetries /\ overrun[u] = 0
      <3>1. index[u] < Len(plan[u])
        BY <1>t, <2>2 DEF GateInv
      <3>2. overrun[u] = 0
        BY <1>f, <2>2 DEF LedgerInv
      <3>3. m.state \in { "executing", "failed" }
        BY <2>2 DEF LedgerInv
      <3> QED
        BY <1>f, <2>2, <3>1, <3>2, <3>3 DEF LedgerInv
    <2>4. /\ r \in StepResults /\ r.step = index[u] /\ r.failed = failed
      BY <1>f, <2>3 DEF StepResults, Tool
    <2>5. steps'[u] = Append(steps[u], r)
      BY <1>f, <2>1
    <2> HIDE DEF r
    <2>6. /\ Failures(steps[u], Owed(u)) /\ Owed(u) \in Nat
          /\ Owed(u) = IF m.state = "failed" THEN MaxRetries ELSE m.retryCount
      BY <1>m, <2>2, BoundsAssumption DEF LedgerInv, Owed
    <2>7. /\ Failures(steps'[u], Owed(u))
          /\ failed => Failures(steps'[u], Owed(u) + 1)
      <3>1. steps[u] \in Seq(StepResults)
        BY <1>f
      <3> QED
        BY <2>4, <2>5, <2>6, <3>1, FailuresAppend
    <2>8. CASE Spent(u) /\ Goto(u, "review") /\ UNCHANGED <<machine, index>>
      <3>1. /\ pc'[u] = "review" /\ machine'[u] = m /\ overrun'[u] = 1
        BY <1>f, <2>2, <2>3, <2>8 DEF Goto
      <3>2. Owed(u)' = Owed(u)
        BY <2>6, <3>1 DEF Owed
      <3> QED
        BY <2>2, <2>3, <2>7, <3>1, <3>2 DEF LedgerInv
    <2>9. CASE /\ ~Spent(u) /\ failed
               /\ Fire(u, machine[u], "step_failed")
               /\ IF index[u] + 1 < Len(plan[u])
                  THEN Goto(u, "reflect") /\ UNCHANGED index
                  ELSE Goto(u, "loop") /\ index' = [index EXCEPT ![u] = @ + 1]
      <3>1. pc'[u] \in { "reflect", "loop" } /\ overrun'[u] = 0
        BY <1>f, <2>2, <2>3, <2>9 DEF Goto
      <3>2. machine'[u] = IF m.state = "executing"
                          THEN IF OutOfRetries(m, MaxRetries) THEN [m EXCEPT !.state = "failed"]
                               ELSE [m EXCEPT !.retryCount = @ + 1]
                          ELSE m
        BY <1>t, <1>m, <2>3, <2>9, FireEffect, TransitionEffect
      <3>3. CASE m.state = "failed"
        <4>1. machine'[u] = m /\ Owed(u)' = Owed(u)
          BY <2>6, <3>1, <3>2, <3>3 DEF Owed
        <4> QED
          BY <2>2, <2>3, <2>7, <3>1, <3>3, <4>1 DEF LedgerInv
      <3>4. CASE m.state = "executing" /\ OutOfRetries(m, MaxRetries)
        <4>1. /\ machine'[u].state = "failed" /\ machine'[u].retryCount = m.retryCount
              /\ machine'[u].totalSteps = m.totalSteps
          BY <1>m, <3>2, <3>4, MachineFields
        <4>2. Owed(u)' = Owed(u) + 1
          BY <1>m, <2>3, <2>6, <3>1, <3>4, <4>1, BoundsAssumption DEF Owed, OutOfRetries
        <4> QED
          BY <2>2, <2>3, <2>7, <2>9, <3>1, <4>1, <4>2 DEF LedgerInv
      <3>5. CASE m.state = "executing" /\ ~OutOfRetries(m, MaxRetries)
        <4>1. machine'[u] = [m EXCEPT !.retryCount = m.retryCount + 1]
          BY <3>2, <3>5
        <4>2. /\ machine'[u].state = "executing" /\ machine'[u].retryCount = m.retryCount + 1
              /\ machine'[u].totalSteps = m.totalSteps
          BY <1>m, <3>5, <4>1, MachineFields
        <4>3. Owed(u)' = Owed(u) + 1 /\ machine'[u].retryCount < MaxRetries
          BY <1>m, <2>6, <3>5, <4>2, BoundsAssumption DEF Owed, OutOfRetries
        <4> QED
          BY <2>2, <2>3, <2>7, <2>9, <3>1, <4>2, <4>3 DEF LedgerInv
      <3> QED
        BY <2>3, <3>3, <3>4, <3>5
    <2>10. CASE /\ ~Spent(u) /\ ~failed
                /\ Fire(u, machine[u], "step_complete")
                /\ Goto(u, "loop")
                /\ index' = [index EXCEPT ![u] = @ + 1]
      <3>1. pc'[u] = "loop" /\ overrun'[u] = 0 /\ index'[u] = index[u] + 1
        BY <1>f, <2>2, <2>3, <2>10 DEF Goto
      <3>2. machine'[u] = IF m.state = "executing" /\ AtLastStep(m)
                          THEN [m EXCEPT !.state = "reviewing"] ELSE m
        BY <1>t, <1>m, <2>10, FireEffect, TransitionEffect
      <3>3. CASE m.state = "executing" /\ AtLastStep(m)
        <4>1. /\ machine'[u].state = "reviewing" /\ machine'[u].retryCount = m.retryCount
              /\ machine'[u].totalSteps = m.totalSteps
          BY <1>m, <3>2, <3>3, MachineFields
        <4>2. Owed(u)' = Owed(u)
          BY <2>6, <3>3, <4>1 DEF Owed
        <4>3. index[u] + 1 = Len(plan[u])
          BY <2>3, <3>3 DEF AtLastStep
        <4>4. /\ Len(steps'[u]) > 0 /\ steps'[u][Len(steps'[u])] = r
          BY <1>f, <2>4, <2>5
        <4>5. Earned(steps'[u], Len(plan'[u]))
          BY <2>2, <2>4, <2>10, <4>3, <4>4, Zenon DEF Earned
        <4> QED
          BY <2>2, <2>3, <2>7, <3>1, <4>1, <4>2, <4>3, <4>5 DEF LedgerInv
      <3>4. CASE ~(m.state = "executing" /\ AtLastStep(m))
        <4>1. machine'[u] = m /\ Owed(u)' = Owed(u)
          BY <2>6, <3>1, <3>2, <3>4 DEF Owed
        <4> QED
          BY <2>2, <2>3, <2>7, <3>1, <4>1 DEF LedgerInv
      <3> QED
        BY <3>3, <3>4
    <2> QED
      BY <2>1, <2>8, <2>9, <2>10
  <1> QED
    BY <1>1, <1>2, <1>3, <1>4, <1>5, <1>6, <1>7, <1>8, <1>9 DEF AgentStep

\* Every step keeps the ledger.
LEMMA LedgerNext == AgentInv /\ Ledger /\ [AgentNext]_agentVars => Ledger'
  <1> SUFFICES ASSUME AgentInv, Ledger, [AgentNext]_agentVars, NEW u \in Tasks
               PROVE  LedgerInv(u)'
    BY DEF Ledger
  <1>i. LedgerInv(u)
    BY DEF Ledger
  <1>f. /\ pc \in [Tasks -> Locations] /\ index \in [Tasks -> Nat]
        /\ plan \in [Tasks -> Seq(Tools)] /\ steps \in [Tasks -> Seq(StepResults)]
        /\ overrun \in [Tasks -> Nat] /\ machine \in [Tasks -> MachineTask]
    BY DEF AgentInv, AgentTypeOK
  <1>1. ASSUME NEW t \in Tasks, u # t,
               AgentStep(t) \/ HITLApproved(t) \/ HITLRefused(t)
        PROVE  LedgerInv(u)'
    <2>1. /\ pc'[u] = pc[u] /\ index'[u] = index[u] /\ plan'[u] = plan[u]
          /\ steps'[u] = steps[u] /\ overrun'[u] = overrun[u] /\ machine'[u] = machine[u]
      <3>1. CASE Start(t) \/ LeaveLoop(t) \/ Review(t) \/ EnterStep(t)
        BY <1>1, <1>f, <3>1 DEF Start, LeaveLoop, Review, EnterStep, Goto, Fire
      <3>2. CASE PlanTask(t)
        BY <1>1, <1>f, <3>2 DEF PlanTask, Goto, Fire
      <3>3. CASE RequireHITL(t)
        BY <1>1, <1>f, <3>3 DEF RequireHITL, Goto, Fire
      <3>4. CASE HITLApproved(t) \/ HITLRefused(t)
        BY <1>1, <1>f, <3>4 DEF HITLApproved, HITLRefused, Goto, Fire
      <3>5. CASE ExecuteStep(t)
        BY <1>1, <1>f, <3>5 DEF ExecuteStep, Goto, Fire
      <3>6. CASE Reflect(t)
        BY <1>1, <1>f, <3>6 DEF Reflect, Goto
      <3> QED
        BY <1>1, <3>1, <3>2, <3>3, <3>4, <3>5, <3>6 DEF AgentStep
    <2> QED
      BY <1>i, <2>1, LedgerFrame
  <1>2. ASSUME NEW t \in Tasks, AgentStep(t) \/ HITLApproved(t) \/ HITLRefused(t)
        PROVE  LedgerInv(u)'
    <2>1. CASE u = t
      BY <1>i, <1>2, <2>1, LedgerStep
    <2> QED
      BY <1>1, <1>2, <2>1
  <1>3. CASE UNCHANGED agentVars
    BY <1>i, <1>3, LedgerFrame DEF agentVars
  <1> QED
    BY <1>2, <1>3 DEF AgentNext, HITLAnswer

\* The ledger gives the three properties of a task's account.
LEMMA LedgerSettles == AgentInv /\ Ledger => AgentConsistent
  <1> SUFFICES ASSUME AgentInv, Ledger PROVE AgentConsistent
    OBVIOUS
  <1>1. BudgetStops
    BY DEF Ledger, LedgerInv, BudgetStops
  <1>2. CompletedEarned
    BY DEF Ledger, LedgerInv, CompletedEarned, Earned
  <1>3. FailureAccounting
    BY DEF Ledger, LedgerInv, FailureAccounting, Failures, Owed
  <1> QED
    BY <1>1, <1>2, <1>3 DEF AgentConsistent, AgentInv

(***************************************************************************)
(* agent.go:128-295, state.go:160-180.  For any plan, any adjustments, any *)
(* costs and any answers of the tools: at most one tool runs once the      *)
(* token budget is spent, a task is completed only by the success of the   *)
(* last step of its plan, and it fails, unless a human refused, only with  *)
(* MaxRetries failed steps behind it.                                      *)
(***************************************************************************)
THEOREM AgentAlwaysConsistent == AgentSpec => []AgentConsistent
  <1>1. AgentSpec => []Ledger
    <2>1. AgentInv /\ Ledger /\ [AgentNext]_agentVars => Ledger'
      BY LedgerNext
    <2> QED
      BY LedgerInit, <2>1, AgentInvariant, PTL DEF AgentSpec
  <1> QED
    BY <1>1, AgentInvariant, LedgerSettles, PTL
================================================================================
