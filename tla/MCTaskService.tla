----------------------------- MODULE MCTaskService -----------------------------
(***************************************************************************)
(* TaskService with one tool that asks for a human and one that does not.  *)
(***************************************************************************)
EXTENDS TaskService, TLC

CONSTANTS t1, t2, h1

MCTools == { "read_file", "edit_file" }
MCDefaultPlan == <<"edit_file">>
TaskSymmetry == Permutations(Tasks)
================================================================================
