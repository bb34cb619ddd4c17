---------------------------- MODULE CircuitBreaker ----------------------------
(***************************************************************************)
(* The per-provider circuit breaker, internal/llm/circuit_breaker.go.      *)
(*                                                                         *)
(* Execute holds the lock twice and runs the protected call in between, so *)
(* a call is two actions: Enter, which admits it, and Exit, which accounts *)
(* for its result in whatever state the breaker has reached by then.       *)
(* Calls admitted while it was closed may return in any state.  A refused  *)
(* call (ErrCircuitOpen) changes nothing and is no action.                 *)
(***************************************************************************)
EXTENDS BreakerCore

CONSTANTS
    Callers,        \* goroutines that call Execute
    Nobody          \* not a caller

ASSUME NobodyAssumption == Nobody \notin Callers

VARIABLES
    cb,             \* the breaker
    cooled,         \* time.Since(lastFailure) > timeout
    running,        \* the callers inside fn()
    prober          \* history: the caller admitted in the current half-open period

vars == <<cb, cooled, running, prober>>

TypeOK ==
    /\ cb \in Breakers
    /\ cooled \in BOOLEAN
    /\ running \subseteq Callers
    /\ prober \in Callers \cup { Nobody }

Init ==
    /\ cb = NewBreaker
    /\ cooled = TRUE          \* lastFailure is the zero time
    /\ running = {}
    /\ prober = Nobody

Enter(k) ==
    /\ k \notin running
    /\ Admits(cb, cooled)
    /\ cb' = Admitted(cb)
    /\ running' = running \cup { k }
    /\ prober' = IF cb.state = "closed" THEN prober ELSE k
    /\ UNCHANGED cooled

ExitFailure(k) ==
    /\ k \in running
    /\ cb' = Failed(cb)
    /\ cooled' = FALSE
    /\ running' = running \ { k }
    /\ prober' = IF IsOpen(cb') THEN Nobody ELSE prober

ExitSuccess(k) ==
    /\ k \in running
    /\ cb' = Succeeded(cb)
    /\ running' = running \ { k }
    /\ prober' = IF cb.state = "halfopen" THEN Nobody ELSE prober
    /\ UNCHANGED cooled

Reset ==
    /\ cb' = ResetBreaker(cb)
    /\ prober' = Nobody
    /\ UNCHANGED <<cooled, running>>

\* The timeout since the last failure passes.
CoolDown ==
    /\ ~cooled
    /\ cooled' = TRUE
    /\ UNCHANGED <<cb, running, prober>>

Exit(k) == ExitFailure(k) \/ ExitSuccess(k)

Next ==
    \/ \E k \in Callers : Enter(k) \/ Exit(k)
    \/ Reset
    \/ CoolDown

Spec == Init /\ [][Next]_vars

--------------------------------------------------------------------------------

(***************************************************************************)
(* circuit_breaker.go:59-65.  A half-open breaker always has its one probe *)
(* in flight: the probe slot is taken and its holder is still inside fn(), *)
(* so the breaker cannot stay half-open with every caller refused.         *)
(***************************************************************************)
HalfOpenHasProbe ==
    cb.state = "halfopen" => cb.probes = 1 /\ prober \in running

(***************************************************************************)
(* circuit_breaker.go:59.  "allow only 1 probe request": within a half-    *)
(* open period the caller admitted first is the only one admitted, even    *)
(* while calls from before the circuit opened are still returning.         *)
(***************************************************************************)
OneProbe ==
    [][cb.state = "halfopen" /\ cb'.state = "halfopen" =>
          prober' = prober /\ running' \subseteq running]_vars

(***************************************************************************)
(* circuit_breaker.go:76-89.  The circuit is open or half-open only with   *)
(* Threshold failures counted, and a closed one below it: a late success   *)
(* or failure of an old call never leaves state and count disagreeing.     *)
(***************************************************************************)
CountMatchesState == (cb.state = "closed") <=> (cb.failCount < Threshold)

(***************************************************************************)
(* circuit_breaker.go:60-90.  The half-open state is left: the probe's own *)
(* return or another call's decides.                                       *)
(***************************************************************************)
HalfOpenEnds == cb.state = "halfopen" ~> cb.state # "halfopen"

(***************************************************************************)
(* circuit_breaker.go:46-107.  State, failure count and probe slot agree   *)
(* at every moment the lock is free, whichever calls are still running.    *)
(***************************************************************************)
BreakerConsistent == TypeOK /\ HalfOpenHasProbe /\ CountMatchesState
================================================================================
