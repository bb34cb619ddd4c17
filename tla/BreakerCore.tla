------------------------------ MODULE BreakerCore ------------------------------
(***************************************************************************)
(* What the critical sections of CircuitBreaker do to the breaker's        *)
(* fields, internal/llm/circuit_breaker.go.  Execute has two of them, one  *)
(* on each side of the protected call: CircuitBreaker interleaves them and *)
(* ModelRouter drives one breaker per provider with them.  successCount is *)
(* never read and is left out.                                             *)
(***************************************************************************)
EXTENDS Naturals

CONSTANTS
    Threshold,      \* failures that open the circuit
    MaxFails        \* where failCount saturates

ASSUME ThresholdAssumption ==
    Threshold \in Nat \ { 0 } /\ MaxFails \in Nat /\ Threshold <= MaxFails

Breakers ==
    [state : { "closed", "open", "halfopen" }, failCount : 0 .. MaxFails, probes : { 0, 1 }]

\* failCount is only ever compared with threshold, so counting stops past it.
Count(n) == IF n < MaxFails THEN n + 1 ELSE n

NewBreaker == [state |-> "closed", failCount |-> 0, probes |-> 0]

IsOpen(b) == b.state = "open"

(* Mutants *)

\* The compare-and-swap on the probe slot is left out.
AdmitsAny(b, cooled) == b.state = "open" => cooled

\* The half-open period starts with a fresh failure count.
AdmittedResets(b) ==
    IF b.state = "closed" THEN b
    ELSE [state |-> "halfopen", failCount |-> 0, probes |-> 1]

\* The probe slot is freed after the caller took it.
AdmittedUnclaimed(b) ==
    IF b.state = "closed" THEN b
    ELSE [b EXCEPT !.state = "halfopen", !.probes = 0]

--------------------------------------------------------------------------------

(***************************************************************************)
(* Execute's first section.  Past the timeout an open breaker turns half-  *)
(* open with a free probe slot, which the same caller's compare-and-swap   *)
(* takes at once; a half-open one admits only when the slot is free.       *)
(***************************************************************************)
Admits(b, cooled) ==
    /\ b.state = "open" => cooled
    /\ b.state = "halfopen" => b.probes = 0

Admitted(b) ==
    IF b.state = "closed" THEN b
    ELSE [state |-> "halfopen", failCount |-> b.failCount, probes |-> 1]

ResetBreaker(b) == [state |-> "closed", failCount |-> 0, probes |-> b.probes]

\* Execute's second section, in whatever state the breaker is by then.
Failed(b) ==
    [state |-> IF Count(b.failCount) >= Threshold THEN "open" ELSE b.state,
     failCount |-> Count(b.failCount),
     probes |-> b.probes]

Succeeded(b) ==
    IF b.state = "halfopen" THEN ResetBreaker(b) ELSE b
================================================================================
