----------------------------- MODULE MCGatedAgent -----------------------------
(***************************************************************************)
(* One task of at most two steps, its owner and a stranger, two decision   *)
(* requests: enough for a decision on each step, two racing on one, and a  *)
(* decision racing either expiry path.                                     *)
(***************************************************************************)
EXTENDS GatedAgent, TLC

CONSTANTS t1, r1, r2, alice, bob

MCCheckpoints == Tasks \X (0 .. MaxIter - 1)
MCOwner == [c \in MCCheckpoints |-> alice]
MCTools == { "read_file", "edit_file" }
MCDefaultPlan == <<"read_file", "edit_file">>
================================================================================
