------------------------------ MODULE MCTenancy ------------------------------
(***************************************************************************)
(* Two administrators, an organisation for each, and one row of each of    *)
(* the kinds below.                                                        *)
(***************************************************************************)
EXTENDS Tenancy, TLC

CONSTANTS u1, u2, o1, o2, p1, a1, s1, e1, t1

MCKind == [r \in Rows |->
    CASE r \in { o1, o2 } -> "org" [] r = p1 -> "project" [] r = a1 -> "agent"
      [] r = s1 -> "session" [] r = e1 -> "event" [] r = t1 -> "task"]
MCSymmetry == Permutations({ u1, u2 }) \cup Permutations({ o1, o2 })
==============================================================================
