---------------------------- MODULE MCModelRouter ----------------------------
(***************************************************************************)
(* Spending on models: the router that picks and pays for a model, and the *)
(* manager that remembers what was paid across restarts; `part` names the  *)
(* one a behaviour exercises.  The router has two providers of one model   *)
(* each and two executions for one task.  The first considers both models; *)
(* the second considers only one, and the other is the default model its   *)
(* routing can fall back to.  The manager has three requests, two of them  *)
(* for one task.                                                           *)
(***************************************************************************)
EXTENDS ModelRouter, BudgetManager

CONSTANTS c1, c2, t1, t2, p1, p2, m1, m2, u1, u2, u3

VARIABLE part

MCTaskOf == [c \in Calls |-> t1]
MCProviderOf == [m \in Models |-> IF m = m1 THEN p1 ELSE p2]
MCEstCost == [m \in Models |-> 1]
MCConsidered == [c \in Calls |-> IF c = c1 THEN <<m1, m2>> ELSE <<m1>>]
MCFallback == [c \in Calls |-> <<m2>>]
MCTaskFor == [u \in Spenders |-> IF u = u3 THEN t2 ELSE t1]

SpendingInit == part \in { "router", "manager" } /\ RouterInit /\ BudgetInit

SpendingNext ==
    \/ part = "router" /\ RouterNext /\ UNCHANGED <<part, budgetVars>>
    \/ part = "manager" /\ BudgetNext /\ UNCHANGED <<part, routerVars>>

SpendingSpec == SpendingInit /\ [][SpendingNext]_<<part, routerVars, budgetVars>>
================================================================================
