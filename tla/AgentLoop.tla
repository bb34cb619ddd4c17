------------------------------- MODULE AgentLoop -------------------------------
(***************************************************************************)
(* Agent.ExecuteTask, internal/agent/agent.go: plan, then one step after   *)
(* another, each gated by a human when its tool asks for it, then review.  *)
(*                                                                         *)
(* One goroutine per task.  The LLM, the tools and the human's answer are  *)
(* the environment: any plan, any adjusted plan, any token cost up to a    *)
(* bound, any success or failure.  A step of this module is what runs      *)
(* between two such calls, so it fires at most one accepted transition;    *)
(* `notified` is the new state that transition passed to OnStateChange.    *)
(***************************************************************************)
EXTENDS AgentStateMachine, FiniteSets, Sequences

CONSTANTS
    Tasks,
    Tools,          \* tool names a plan may contain
    Registered,     \* the names the registry knows
    HITLTools,      \* RequiresHITL is always true: edit_file, run_command
    MaybeHITLTools, \* RequiresHITL looks at the disk: write_file
    DefaultPlan,    \* buildDefaultPlan
    MaxPlan,        \* bound: longest plan the LLM proposes
    MaxIter,        \* Agent.maxIter
    MaxRetries,     \* Task.MaxRetries
    MaxTokens,      \* Task.MaxTokens
    CallTokens      \* bound: tokens one LLM call may cost

ASSUME ToolsAssumption ==
    /\ Registered \subseteq Tools
    /\ HITLTools \subseteq Registered
    /\ MaybeHITLTools \subseteq Registered
ASSUME PlanAssumption == DefaultPlan \in Seq(Tools) /\ DefaultPlan # <<>>
ASSUME BoundsAssumption ==
    /\ MaxPlan \in Nat \ { 0 } /\ MaxIter \in Nat /\ MaxRetries \in Nat \ { 0 }
    /\ MaxTokens \in Nat \ { 0 } /\ CallTokens \in Nat

VARIABLES
    pc,         \* where the task's goroutine is
    machine,    \* the state machine's part of agent.Task
    plan,       \* plan.Steps: the tool of each step
    index,      \* the loop variable i
    tokens,     \* task.InputTokens + task.OutputTokens
    steps,      \* task.Steps; `step` is the iteration that ran it (the code keeps
                \* the plan's own Index there, which nothing reads back)
    approved,   \* the step indices waitHITLDecision returned true for
    overrun,    \* history: tools run with the token budget already spent
    notified    \* newState of the last step's OnStateChange call, or "none"

agentVars == <<pc, machine, plan, index, tokens, steps, approved, overrun, notified>>

Locations ==
    { "idle", "start", "plan", "loop", "hitl", "exec", "reflect", "review",
      "returned", "errored" }

Answers == { "approve", "reject", "modify", "timed_out", "error" }

StepResults == [step : Nat, tool : Tools, failed : BOOLEAN]

AgentTypeOK ==
    /\ pc \in [Tasks -> Locations]
    /\ machine \in [Tasks -> MachineTask]
    /\ plan \in [Tasks -> Seq(Tools)]
    /\ index \in [Tasks -> Nat]
    /\ tokens \in [Tasks -> Nat]
    /\ steps \in [Tasks -> Seq(StepResults)]
    /\ approved \in [Tasks -> SUBSET Nat]
    /\ overrun \in [Tasks -> Nat]
    /\ notified \in [Tasks -> TaskStates \cup { "none" }]

NewTask == [state |-> "pending", retryCount |-> 0, currentStep |-> 0, totalSteps |-> 0]

AgentInit(where) ==
    /\ pc = [t \in Tasks |-> where]
    /\ machine = [t \in Tasks |-> NewTask]
    /\ plan = [t \in Tasks |-> <<>>]
    /\ index = [t \in Tasks |-> 0]
    /\ tokens = [t \in Tasks |-> 0]
    /\ steps = [t \in Tasks |-> <<>>]
    /\ approved = [t \in Tasks |-> {}]
    /\ overrun = [t \in Tasks |-> 0]
    /\ notified = [t \in Tasks |-> "none"]

\* Agent.transition: apply the event to task record m and notify when accepted.
Fire(t, m, e) ==
    /\ machine' = [machine EXCEPT ![t] = Transition(m, e, MaxRetries)]
    /\ notified' = [notified EXCEPT ![t] =
           IF Accepts(m, e, MaxRetries) THEN Target(m, e, MaxRetries) ELSE "none"]

Silent(t) == notified' = [notified EXCEPT ![t] = "none"]

Goto(t, l) == pc' = [pc EXCEPT ![t] = l]

Spent(t) == tokens[t] >= MaxTokens

\* What parsePlanFromResponse or buildDefaultPlan may return.
Plans == (UNION { [1 .. n -> Tools] : n \in 1 .. MaxPlan }) \cup { DefaultPlan }

\* What filterValidSteps may leave of an adjusted plan, cut to n steps.
Adjustments(n) == UNION { [1 .. k -> Registered] : k \in 0 .. n }

--------------------------------------------------------------------------------
(* Mutants: one definition below each, with a plausible slip in it. *)

\* A refused hitl_required falls through to the step instead of skipping it.
RequireHITLFallsThrough(t) ==
    LET m == SetCurrentStep(machine[t], index[t]) IN
    /\ pc[t] = "loop" /\ index[t] < MaxIter /\ index[t] < Len(plan[t])
    /\ plan[t][index[t] + 1] \in HITLTools \cup MaybeHITLTools
    /\ Fire(t, m, "hitl_required")
    /\ Goto(t, IF Accepts(m, "hitl_required", MaxRetries) THEN "hitl" ELSE "exec")
    /\ UNCHANGED <<plan, index, tokens, steps, approved, overrun>>

\* A refused hitl_required repeats the iteration instead of skipping the step.
RequireHITLRepeats(t) ==
    LET m == SetCurrentStep(machine[t], index[t]) IN
    /\ pc[t] = "loop" /\ index[t] < MaxIter /\ index[t] < Len(plan[t])
    /\ plan[t][index[t] + 1] \in HITLTools \cup MaybeHITLTools
    /\ Fire(t, m, "hitl_required")
    /\ Goto(t, IF Accepts(m, "hitl_required", MaxRetries) THEN "hitl" ELSE "loop")
    /\ UNCHANGED <<plan, index, tokens, steps, approved, overrun>>

--------------------------------------------------------------------------------

Start(t) ==
    /\ pc[t] = "start"
    /\ Fire(t, machine[t], "start")
    /\ Goto(t, "plan")
    /\ UNCHANGED <<plan, index, tokens, steps, approved, overrun>>

\* planTask always returns a plan; its error branch is never taken.
PlanTask(t) ==
    /\ pc[t] = "plan"
    /\ \E p \in Plans, k \in 0 .. CallTokens :
          /\ plan' = [plan EXCEPT ![t] = p]
          /\ tokens' = [tokens EXCEPT ![t] = @ + k]
          /\ Fire(t, SetPlan(machine[t], Len(p)), "plan_ready")
    /\ index' = [index EXCEPT ![t] = 0]
    /\ Goto(t, "loop")
    /\ UNCHANGED <<steps, approved, overrun>>

Continues(t) == index[t] < MaxIter /\ index[t] < Len(plan[t])

Tool(t) == plan[t][index[t] + 1]

AtStep(t) == SetCurrentStep(machine[t], index[t])

\* The head of an iteration whose tool needs no approval.
EnterStep(t) ==
    /\ pc[t] = "loop" /\ Continues(t)
    /\ Tool(t) \notin HITLTools
    /\ machine' = [machine EXCEPT ![t] = AtStep(t)]
    /\ Silent(t)
    /\ Goto(t, "exec")
    /\ UNCHANGED <<plan, index, tokens, steps, approved, overrun>>

\* The head of an iteration whose tool does; a refused transition skips the step.
RequireHITL(t) ==
    /\ pc[t] = "loop" /\ Continues(t)
    /\ Tool(t) \in HITLTools \cup MaybeHITLTools
    /\ Fire(t, AtStep(t), "hitl_required")
    /\ IF Accepts(AtStep(t), "hitl_required", MaxRetries)
       THEN Goto(t, "hitl") /\ UNCHANGED index
       ELSE index' = [index EXCEPT ![t] = @ + 1] /\ UNCHANGED pc
    /\ UNCHANGED <<plan, tokens, steps, approved, overrun>>

\* waitHITLDecision's result: only "approve" lets the step run.
HITLApproved(t) ==
    /\ pc[t] = "hitl"
    /\ Fire(t, machine[t], "hitl_approved")
    /\ approved' = [approved EXCEPT ![t] = @ \cup { index[t] }]
    /\ Goto(t, "exec")
    /\ UNCHANGED <<plan, index, tokens, steps, overrun>>

\* Any other answer fails the task; the step_failed that follows is refused.
HITLRefused(t) ==
    /\ pc[t] = "hitl"
    /\ Fire(t, machine[t], "hitl_rejected")
    /\ Goto(t, "errored")
    /\ UNCHANGED <<plan, index, tokens, steps, approved, overrun>>

\* Mutant of HITLAnswer: a modified step is taken for an approved one.
HITLAnswerModified(t, a) ==
    IF a \in { "approve", "modify" } THEN HITLApproved(t) ELSE HITLRefused(t)

HITLAnswer(t, a) == IF a = "approve" THEN HITLApproved(t) ELSE HITLRefused(t)

\* executeStep and what follows it, up to the LLM call of reflectOnFailure.
ExecuteStep(t) ==
    /\ pc[t] = "exec"
    /\ \E failed \in BOOLEAN :
          /\ Tool(t) \notin Registered => failed
          /\ steps' = [steps EXCEPT ![t] =
                Append(@, [step |-> index[t], tool |-> Tool(t), failed |-> failed])]
          /\ \/ /\ Spent(t)
                /\ Goto(t, "review")
                /\ Silent(t)
                /\ UNCHANGED <<machine, index>>
             \/ /\ ~Spent(t) /\ failed
                /\ Fire(t, machine[t], "step_failed")
                /\ IF index[t] + 1 < Len(plan[t])
                   THEN Goto(t, "reflect") /\ UNCHANGED index
                   ELSE Goto(t, "loop") /\ index' = [index EXCEPT ![t] = @ + 1]
             \/ /\ ~Spent(t) /\ ~failed
                /\ Fire(t, machine[t], "step_complete")
                /\ Goto(t, "loop")
                /\ index' = [index EXCEPT ![t] = @ + 1]
    /\ overrun' = [overrun EXCEPT ![t] = IF Spent(t) THEN @ + 1 ELSE @]
    /\ UNCHANGED <<plan, tokens, approved>>

\* reflectOnFailure: the adjusted steps overwrite the plan from the next one on.
Reflect(t) ==
    /\ pc[t] = "reflect"
    /\ \E k \in 0 .. CallTokens, adj \in Adjustments(Len(plan[t]) - index[t] - 1) :
          /\ tokens' = [tokens EXCEPT ![t] = @ + k]
          /\ plan' = [plan EXCEPT ![t] = [j \in 1 .. Len(plan[t]) |->
                LET n == j - index[t] - 1 IN
                IF n \in 1 .. Len(adj) THEN adj[n] ELSE plan[t][j]]]
    /\ index' = [index EXCEPT ![t] = @ + 1]
    /\ Goto(t, "loop")
    /\ Silent(t)
    /\ UNCHANGED <<machine, steps, approved, overrun>>

LeaveLoop(t) ==
    /\ pc[t] = "loop" /\ ~Continues(t)
    /\ Goto(t, "review")
    /\ Silent(t)
    /\ UNCHANGED <<machine, plan, index, tokens, steps, approved, overrun>>

\* review_passed is fired whatever the state; the error is dropped.
Review(t) ==
    /\ pc[t] = "review"
    /\ Fire(t, machine[t], "review_passed")
    /\ Goto(t, "returned")
    /\ UNCHANGED <<plan, index, tokens, steps, approved, overrun>>

\* One step of the goroutine other than waiting for a human.
AgentStep(t) ==
    \/ Start(t) \/ PlanTask(t) \/ EnterStep(t) \/ RequireHITL(t)
    \/ ExecuteStep(t) \/ Reflect(t) \/ LeaveLoop(t) \/ Review(t)

AgentNext ==
    \E t \in Tasks : AgentStep(t) \/ \E a \in Answers : HITLAnswer(t, a)

AgentSpec == AgentInit("start") /\ [][AgentNext]_agentVars

(***************************************************************************)
(* A goroutine runs on, LLM and tool calls return (each has a timeout or   *)
(* runs locally), and HITLQueue!SubmitReturns says the human's answer, or  *)
(* the timeout in its place, arrives.                                      *)
(***************************************************************************)
AgentLiveSpec ==
    /\ AgentSpec
    /\ \A t \in Tasks :
          WF_agentVars(AgentStep(t) \/ \E a \in Answers : HITLAnswer(t, a))

--------------------------------------------------------------------------------
(* Properties *)

(***************************************************************************)
(* agent.go:180-219.  A tool that always asks for a human runs only in a   *)
(* step whose own checkpoint was approved, and one approval is good for    *)
(* one run: no later iteration, adjusted plan or failed machine state      *)
(* (where hitl_required is refused) lets it run again or run unasked.      *)
(***************************************************************************)
HITLGated ==
    \A t \in Tasks : \A j \in 1 .. Len(steps[t]) :
        /\ steps[t][j].tool \in HITLTools => steps[t][j].step \in approved[t]
        /\ \A k \in 1 .. Len(steps[t]) : j < k => steps[t][j].step < steps[t][k].step

(***************************************************************************)
(* agent.go:225-229.  However the planning and the reflection calls spend  *)
(* the token budget, at most one tool runs after it is spent.              *)
(***************************************************************************)
BudgetStops == \A t \in Tasks : overrun[t] <= 1

(***************************************************************************)
(* agent.go:270-274, state.go:170.  The machine reaches "completed" only   *)
(* when the last step of the plan ran and did not fail.                    *)
(***************************************************************************)
CompletedEarned ==
    \A t \in Tasks : machine[t].state = "completed" =>
        LET last == steps[t][Len(steps[t])] IN
        Len(steps[t]) > 0 /\ last.step + 1 = Len(plan[t]) /\ ~last.failed

(***************************************************************************)
(* state.go:176, agent.go:248.  Unless a human refused, a task fails only  *)
(* with MaxRetries failed steps behind it, across skipped and adjusted     *)
(* steps alike.                                                            *)
(***************************************************************************)
FailureAccounting ==
    \A t \in Tasks : machine[t].state = "failed" /\ pc[t] # "errored" =>
        \E F \in SUBSET (1 .. Len(steps[t])) :
            /\ Cardinality(F) = MaxRetries
            /\ \A j \in F : steps[t][j].failed

(***************************************************************************)
(* agent.go:128-295.  ExecuteTask returns whatever the LLM plans, the      *)
(* tools do and the humans answer.                                         *)
(***************************************************************************)
ExecuteTaskReturns ==
    \A t \in Tasks : pc[t] = "start" ~> pc[t] \in { "returned", "errored" }

(***************************************************************************)
(* agent.go:128-295, state.go:160-180.  What ExecuteTask leaves behind     *)
(* adds up: the machine and the loop agree on types, at most one tool runs *)
(* on a spent budget, and both ends of a task are earned.                  *)
(***************************************************************************)
AgentConsistent == AgentTypeOK /\ BudgetStops /\ CompletedEarned /\ FailureAccounting
================================================================================
