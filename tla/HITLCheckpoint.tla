---------------------------- MODULE HITLCheckpoint ----------------------------
(***************************************************************************)
(* What the human-in-the-loop queue promises, without locks, channels,     *)
(* timers or Redis.                                                        *)
(*                                                                         *)
(* A checkpoint is opened once, resolved once (by one human decision or by *)
(* expiry), and its submitter is answered once, after the resolution.  An  *)
(* error answer is possible whatever the resolution was: the submitter's   *)
(* own deadline may win the race against a decision already recorded.      *)
(* Whoever decided is told "recorded", and nobody else is.                 *)
(***************************************************************************)
CONSTANTS
    Checkpoints,    \* checkpoint ids
    Decisions       \* what a human may decide

VARIABLES
    outcome,        \* [Checkpoints -> {"none", "pending", "timed_out"} \cup Decisions]
    answer,         \* [Checkpoints -> {"none", "error", "timed_out"} \cup Decisions]
    acknowledged    \* the checkpoints whose decider was told "decision recorded"

vars == <<outcome, answer, acknowledged>>

Resolutions == Decisions \cup { "timed_out" }

Init ==
    /\ outcome = [c \in Checkpoints |-> "none"]
    /\ answer = [c \in Checkpoints |-> "none"]
    /\ acknowledged = {}

Open(c) ==
    /\ outcome[c] = "none"
    /\ outcome' = [outcome EXCEPT ![c] = "pending"]
    /\ UNCHANGED <<answer, acknowledged>>

\* One human decision ends one checkpoint.
Decide(c, d) ==
    /\ outcome[c] = "pending"
    /\ outcome' = [outcome EXCEPT ![c] = d]
    /\ UNCHANGED <<answer, acknowledged>>

\* Expiry may end several pending checkpoints at once.
Expire(E) ==
    /\ \A c \in E : outcome[c] = "pending"
    /\ outcome' = [c \in Checkpoints |->
                        IF c \in E THEN "timed_out" ELSE outcome[c]]
    /\ UNCHANGED <<answer, acknowledged>>

Answer(c) ==
    /\ outcome[c] \in Resolutions
    /\ answer[c] = "none"
    /\ \E a \in { outcome[c], "error" } : answer' = [answer EXCEPT ![c] = a]
    /\ UNCHANGED <<outcome, acknowledged>>

Acknowledge(c) ==
    /\ outcome[c] \in Decisions
    /\ c \notin acknowledged
    /\ acknowledged' = acknowledged \cup { c }
    /\ UNCHANGED <<outcome, answer>>

Next ==
    \/ \E c \in Checkpoints :
          Open(c) \/ (\E d \in Decisions : Decide(c, d)) \/ Answer(c) \/ Acknowledge(c)
    \/ \E E \in SUBSET Checkpoints : Expire(E)

Spec == Init /\ [][Next]_vars
================================================================================
