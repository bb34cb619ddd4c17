---------------------------- MODULE MCRemoteCalls ----------------------------
(***************************************************************************)
(* Calls to somebody else's process, and what is left of them when it      *)
(* fails: the circuit breaker of a provider, the editor's automatic        *)
(* review, its MCP client, and the tools of the MCP server.  `part` names  *)
(* the one a behaviour exercises; the others stand still.                  *)
(*                                                                         *)
(* The breaker has a threshold of three and four callers: a probe, and     *)
(* three calls left over from before the circuit opened.  The document is  *)
(* edited three times: a paste, a generated block pasted over three lines, *)
(* typing, a deletion, or undoing one of these.  Two calls share the MCP   *)
(* process, and one of them may have the rejected API key replaced.        *)
(***************************************************************************)
EXTENDS CircuitBreaker, AutoVerify, McpClient

CONSTANT b1

VARIABLE part

ChangeAt(first, last, newlines, block) ==
    [start |-> first, end |-> last, newlines |-> newlines, large |-> FALSE, added |-> TRUE,
     replaces |-> first < last, netZero |-> FALSE, block |-> block]

MCEditKinds ==
    { { ChangeAt(0, 0, 2, NoBlock) },
      { ChangeAt(0, 3, 2, b1) },
      { ChangeAt(1, 1, 0, NoBlock) },
      { [ChangeAt(0, 1, 0, NoBlock) EXCEPT !.added = FALSE] } }

Parts == <<part, vars, verifyVars, mcpVars, other>>

RemoteInit ==
    /\ part \in { "breaker", "review", "mcp", "tools" }
    /\ Init /\ AutoVerifyInit /\ McpInit /\ other = NoJob

RemoteNext ==
    /\ UNCHANGED part
    /\ \/ part = "breaker" /\ Next /\ UNCHANGED <<verifyVars, mcpVars, other>>
       \/ part = "review" /\ AutoVerifyNext /\ UNCHANGED <<vars, mcpVars, other>>
       \/ part = "mcp" /\ McpNext /\ UNCHANGED <<vars, verifyVars, other>>
       \/ /\ part = "tools" /\ (OtherCalls \/ OtherStep)
          /\ UNCHANGED <<vars, verifyVars, mcpVars>>

RemoteSpec ==
    /\ RemoteInit /\ [][RemoteNext]_Parts
    /\ WF_vars(\E k \in Callers : Exit(k)) /\ WF_verifyVars(ReviewGoesOn)
    /\ WF_mcpVars(McpStep) /\ WF_other(OtherStep)

\* The automatic review alone.
ReviewSpec == RemoteInit /\ part = "review" /\ [][RemoteNext]_Parts

(***************************************************************************)
(* autoVerify.ts:271-342, mcpClient.ts:115-191, 204-318.  What comes late, *)
(* the result of an earlier scan, the answer or the exit of an earlier     *)
(* process, does no harm to what the editor shows, has pending or waits    *)
(* for now.                                                                *)
(***************************************************************************)
EditorSound ==
    [][ PendingKept' /\ ShownOnScannedText /\ LabelsRight' /\ OwnAnswer' /\ ExitHarmless ]_Parts

(***************************************************************************)
(* autoVerify.ts:235-342, mcpClient.ts:100-318, server.go:967-1015.  Every *)
(* review the editor schedules and every tool call it makes comes to an    *)
(* end, whatever the backend and the child process do: what is repeated is *)
(* repeated once, and what waits is given up.                              *)
(***************************************************************************)
EditorEnds == ReviewsPending \/ CallsPending ~> ~ReviewsPending /\ ~CallsPending
================================================================================
