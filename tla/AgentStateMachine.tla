--------------------------- MODULE AgentStateMachine ---------------------------
(***************************************************************************)
(* The agent's task state machine, internal/agent/state.go.                *)
(*                                                                         *)
(* Transition is a pure operator on the part of agent.Task the machine     *)
(* reads and writes.  An event the switch does not list is an error in the *)
(* code and leaves the task's state alone (only UpdatedAt moves, which no  *)
(* other code reads); here it returns the task unchanged and Accepts says  *)
(* whether the code would have returned nil.                               *)
(***************************************************************************)
EXTENDS Naturals

TaskStates ==
    { "pending", "planning", "executing", "waiting_hitl", "reviewing",
      "completed", "failed", "cancelled" }

Events ==
    { "start", "plan_ready", "step_complete", "step_failed", "hitl_required",
      "hitl_approved", "hitl_rejected", "review_passed", "review_failed",
      "cancel" }

TerminalStates == { "completed", "failed", "cancelled" }

IsTerminal(s) == s \in TerminalStates

(***************************************************************************)
(* The fields of agent.Task the machine looks at: State, RetryCount,       *)
(* CurrentStep and Plan.TotalSteps (0 while Plan is nil).                  *)
(***************************************************************************)
MachineTask ==
    [state : TaskStates, retryCount : Nat, currentStep : Nat, totalSteps : Nat]

\* The two fields ExecuteTask assigns: task.CurrentStep and task.Plan.
SetCurrentStep(m, i) ==
    [state |-> m.state, retryCount |-> m.retryCount, currentStep |-> i, totalSteps |-> m.totalSteps]
SetPlan(m, n) ==
    [state |-> m.state, retryCount |-> m.retryCount, currentStep |-> m.currentStep, totalSteps |-> n]

\* Mutant of the comparison below: off by one.
AtLastStepEarly(t) == t.totalSteps > 0 /\ t.currentStep + 2 >= t.totalSteps

\* The last step of the plan: the test on CurrentStep in EventStepComplete.
AtLastStep(t) == t.totalSteps > 0 /\ t.currentStep + 1 >= t.totalSteps

\* The retry budget is spent: the test on RetryCount in EventStepFailed.
OutOfRetries(t, maxRetries) == t.retryCount + 1 >= maxRetries

(***************************************************************************)
(* The state an accepted event leads to; "invalid" where the switch falls  *)
(* through to its error.                                                   *)
(***************************************************************************)
Target(t, e, maxRetries) ==
    CASE t.state = "pending"      /\ e = "start"         -> "planning"
      [] t.state = "pending"      /\ e = "cancel"        -> "cancelled"
      [] t.state = "planning"     /\ e = "plan_ready"    -> "executing"
      [] t.state = "planning"     /\ e = "step_failed"   -> "failed"
      [] t.state = "executing"    /\ e = "step_complete" ->
            IF AtLastStep(t) THEN "reviewing" ELSE "executing"
      [] t.state = "executing"    /\ e = "step_failed"   ->
            IF OutOfRetries(t, maxRetries) THEN "failed" ELSE "executing"
      [] t.state = "executing"    /\ e = "hitl_required" -> "waiting_hitl"
      [] t.state = "executing"    /\ e = "hitl_approved" -> "executing"
      [] t.state = "executing"    /\ e = "cancel"        -> "cancelled"
      [] t.state = "waiting_hitl" /\ e = "hitl_approved" -> "executing"
      [] t.state = "waiting_hitl" /\ e = "hitl_rejected" -> "failed"
      [] t.state = "reviewing"    /\ e = "review_passed" -> "completed"
      [] t.state = "reviewing"    /\ e = "review_failed" -> "executing"
      [] OTHER                                           -> "invalid"

Accepts(t, e, maxRetries) == Target(t, e, maxRetries) # "invalid"

\* A failed step within the retry budget is the only edge that counts.
CountsRetry(t, e, maxRetries) ==
    t.state = "executing" /\ e = "step_failed" /\ ~OutOfRetries(t, maxRetries)

Transition(t, e, maxRetries) ==
    IF ~Accepts(t, e, maxRetries) THEN t
    ELSE [state |-> Target(t, e, maxRetries),
          retryCount |-> IF CountsRetry(t, e, maxRetries)
                         THEN t.retryCount + 1 ELSE t.retryCount,
          currentStep |-> t.currentStep,
          totalSteps |-> t.totalSteps]

\* ValidTransitions: the events the code advertises for a state.
ValidTransitions(s) ==
    CASE s = "pending"      -> { "start", "cancel" }
      [] s = "planning"     -> { "plan_ready", "step_failed" }
      [] s = "executing"    -> { "step_complete", "step_failed",
                                 "hitl_required", "hitl_approved", "cancel" }
      [] s = "waiting_hitl" -> { "hitl_approved", "hitl_rejected" }
      [] s = "reviewing"    -> { "review_passed", "review_failed" }
      [] OTHER              -> {}
================================================================================
