----------------------------- MODULE GeneratedCode -----------------------------
(***************************************************************************)
(* The two ways generated code is judged: by the request pipeline's critic *)
(* (internal/middleware) and by the gateway's engines and the scanner      *)
(* behind them (internal/proxy, internal/scanner).  They share no state.   *)
(***************************************************************************)
EXTENDS DualEngine, RequestPipeline

GeneratedCodeInit == DualEngineInit /\ RequestPipelineInit

GeneratedCodeNext ==
    \/ GatewayNext /\ UNCHANGED pipelineVars
    \/ EndpointsNext /\ UNCHANGED pipelineVars
    \/ RequestPipelineNext /\ UNCHANGED <<gatewayVars, checked>>

GeneratedCodeSpec ==
    GeneratedCodeInit /\ [][GeneratedCodeNext]_<<gatewayVars, checked, pipelineVars>>

(***************************************************************************)
(* The request pipeline never accepts what its critic rejected, and the    *)
(* gateway's engines lose no finding on the way to the verdict (Process,   *)
(* MergeFindings, analyzeAndVerdict, scanHandler, deepAnalyzeHandler).     *)
(***************************************************************************)
VerdictsSound == AcceptedNotRejected /\ FindingsSurvive
================================================================================
