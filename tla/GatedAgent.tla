------------------------------ MODULE GatedAgent ------------------------------
(***************************************************************************)
(* The agent composed with the human-in-the-loop queue, as server.go wires *)
(* them (hitlAdapter): a step that needs a human submits checkpoint        *)
(* <<task, step>> and its goroutine sleeps until Submit returns.           *)
(*                                                                         *)
(* The router runs ExecuteTask with context.Background(), so the queue's   *)
(* SubmitCancelled action does not occur here.                             *)
(***************************************************************************)
EXTENDS AgentLoop, HITLQueue

\* Every step a task can reach has a checkpoint id of its own.
ASSUME CheckpointAssumption == Tasks \X (0 .. MaxIter - 1) \subseteq Checkpoints

gatedVars == <<agentVars, vars>>

\* The id cp-<task>-<step> of the checkpoint of the step the task is at.
CheckpointOf(t) == <<t, index[t]>>

GatedInit == AgentInit("start") /\ Init

\* Code of the agent that does not touch the queue.
Work(t) == AgentStep(t) /\ UNCHANGED vars

\* waitHITLDecision builds the entry and calls Submit: after transition() has
\* reported waiting_hitl and before anyone can decide.
SubmitCheckpoint(t) ==
    /\ pc[t] = "hitl"
    /\ SubmitStore(CheckpointOf(t))
    /\ UNCHANGED agentVars

\* Submit's result comes back through hitlAdapter.
Resume(t) ==
    /\ pc[t] = "hitl"
    /\ submit[CheckpointOf(t)] = "returned"
    /\ HITLAnswer(t, answer[CheckpointOf(t)])
    /\ UNCHANGED vars

\* The queue's own steps while the agent waits, and its other callers'.
QueueStep(c) == (SubmitStep(c) \/ PassExpiry(c) \/ PassTimer(c)) /\ UNCHANGED agentVars
HumanStep(r) == (DecideLookup(r) \/ DecideStep(r)) /\ UNCHANGED agentVars
CheckerStep == (ExpiryTick \/ CloseQueue) /\ UNCHANGED agentVars

AgentProgress(t) == Work(t) \/ SubmitCheckpoint(t) \/ Resume(t)

GatedNext ==
    \/ \E t \in Tasks : AgentProgress(t)
    \/ \E c \in Checkpoints : QueueStep(c)
    \/ \E r \in Requests : HumanStep(r)
    \/ CheckerStep

GatedSpec == GatedInit /\ [][GatedNext]_gatedVars

\* Goroutines run and time passes; no human ever has to act.
GatedLiveSpec ==
    /\ GatedSpec
    /\ \A t \in Tasks : WF_gatedVars(AgentProgress(t))
    /\ \A c \in Checkpoints :
          /\ WF_gatedVars(SubmitStep(c) /\ UNCHANGED agentVars)
          /\ WF_gatedVars(PassExpiry(c) /\ UNCHANGED agentVars)
          /\ WF_gatedVars(PassTimer(c) /\ UNCHANGED agentVars)

--------------------------------------------------------------------------------

(***************************************************************************)
(* agent.go:691-733 with hitl.go.  End to end: behind every run of a tool  *)
(* that needs a human there is a POST /hitl/decide by the task's owner or  *)
(* an admin that said "approve" of that very step.  A late, forged,        *)
(* "modify" or timed-out answer never does.                                *)
(***************************************************************************)
HumanApproved ==
    \A t \in Tasks : \A j \in 1 .. Len(steps[t]) :
        steps[t][j].tool \in HITLTools =>
            \E r \in Requests :
                /\ Took(r, <<t, steps[t][j].step>>)
                /\ claim[r].decision = "approve"
                /\ Permitted(claim[r].user, <<t, steps[t][j].step>>)

(***************************************************************************)
(* agent.go:195-208.  A refused or expired checkpoint ends the task: no    *)
(* tool of any kind runs after it, although a decision may be acknowledged *)
(* at the very moment the timer fires.                                     *)
(***************************************************************************)
RefusalStops ==
    \A t \in Tasks : \A i \in 0 .. MaxIter - 1 :
        LET c == <<t, i>> IN
        c \in Checkpoints /\ answer[c] \notin { "none", "approve" } =>
            \A j \in 1 .. Len(steps[t]) : steps[t][j].step < i

(***************************************************************************)
(* hitl.go:127-140, agent.go:128-295.  With nobody ever deciding and the   *)
(* expiry checker possibly stopped, ExecuteTask still returns: the agent   *)
(* never sleeps forever on a human.                                        *)
(***************************************************************************)
GatedTaskReturns ==
    \A t \in Tasks : pc[t] = "start" ~> pc[t] \in { "returned", "errored" }

(***************************************************************************)
(* agent.go:691-733, 195-208 with hitl.go.  What a guarded step does is    *)
(* what the humans decided: it runs only on a permitted approval of that   *)
(* very step, and nothing runs after a refusal or an expiry.               *)
(***************************************************************************)
HumanDecides == HumanApproved /\ RefusalStops
================================================================================
