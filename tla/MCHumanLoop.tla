----------------------------- MODULE MCHumanLoop -----------------------------
(***************************************************************************)
(* The agent's loop and the queue where it waits for a human, each under   *)
(* everything the other could do to it; `part` names the one a behaviour   *)
(* exercises.  The agent has one tool of each kind: one that never asks,   *)
(* one that always does, one that may, and one nobody registered; any      *)
(* answer may come back.  The queue has one checkpoint, and its requests   *)
(* may be the owner's, an admin's or a stranger's.  (GatedAgent composes   *)
(* the two.)                                                               *)
(***************************************************************************)
EXTENDS AgentLoop, HITLQueue

CONSTANTS t1, c1, r1, r2, alice, root, bob

VARIABLE part

MCTools == { "read_file", "edit_file", "write_file", "unknown" }
MCRegistered == MCTools \ { "unknown" }

\* buildDefaultPlan, cut to one step that asks and one that does not.
MCDefaultPlan == <<"read_file", "edit_file">>

OwnedByAlice == [c \in Checkpoints |-> alice]

\* The part that is not exercised stands still; any claims will do for the agent's.
HumanLoopInit ==
    /\ Init
    /\ \/ part = "agent" /\ AgentInit("start") /\ claim = CHOOSE f \in [Requests -> Claims] : TRUE
       \/ part = "queue" /\ AgentInit("idle")

HumanLoopNext ==
    \/ part = "agent" /\ AgentNext /\ UNCHANGED <<part, vars>>
    \/ part = "queue" /\ Next /\ UNCHANGED <<part, agentVars>>

\* The fairness of AgentLiveSpec and LiveSpec, each in its part.
HumanLoopSpec ==
    /\ HumanLoopInit /\ [][HumanLoopNext]_<<part, vars, agentVars>>
    /\ \A t \in Tasks :
          WF_agentVars(part = "agent" /\ (AgentStep(t) \/ \E a \in Answers : HITLAnswer(t, a)))
    /\ \A c \in Checkpoints :
          /\ WF_vars(part = "queue" /\ SubmitStep(c))
          /\ WF_vars(part = "queue" /\ PassExpiry(c))
          /\ WF_vars(part = "queue" /\ PassTimer(c))
    /\ \A r \in Requests : WF_vars(part = "queue" /\ DecideStep(r))
================================================================================
