------------------------------- MODULE McpClient -------------------------------
(***************************************************************************)
(* The editor's MCP client, vscode-extension/src/mcpClient.ts, which runs  *)
(* the MCP server of internal/mcp/server.go as a child process, and the    *)
(* tools of that server.                                                   *)
(*                                                                         *)
(* Calls share one lazily started process.  A process that died, or was    *)
(* killed to restart it with another API key, may still have answers in    *)
(* its pipe and an exit event to deliver.  What JavaScript runs without    *)
(* returning to its event loop is one action.  A request that waits is one *)
(* whose id a call or a start holds, so there is no separate `pending`.    *)
(***************************************************************************)
EXTENDS Naturals, FiniteSets, Sequences, SequencesExt

CONSTANTS
    ToolCalls,      \* calls of the chat participant, at most once each
    MaxStarts,      \* bound on starts: one for each call and one for the healing
    KeyRejected,    \* the backend rejects the stored API key
    OnLocalhost     \* the backend is on localhost

ASSUME McpAssumption ==
    /\ IsFiniteSet(ToolCalls) /\ MaxStarts \in Nat \ { 0 } /\ KeyRejected \in BOOLEAN /\ OnLocalhost \in BOOLEAN

Starts == 1 .. MaxStarts

VARIABLES
    call,       \* for each call: what it awaits
    start,      \* for each start: keys, handshake, up or failed
    os,         \* for each start: its process
    exitSeen,   \* the processes whose exit event was handled
    jobs,       \* for each process: tool calls it works on
    out,        \* for each process: lines in its standard output, the oldest first
    started,    \* how many starts there were
    ready,      \* the start whose promise is cached, or 0
    proc,       \* this.proc: the process of a start, or 0
    nextId, torn, disposed,
    fallback,   \* localDevFallbackUsed
    slow,       \* history: a handshake timed out
    other       \* a tool call of another MCP client, with a process of its own

mcpVars == <<call, start, os, exitSeen, jobs, out, started, ready, proc, nextId, torn, disposed,
             fallback, slow>>

NoTool == [posts |-> <<>>]
Idle == [st |-> "idle", n |-> 0, id |-> 0, got |-> 0, tool |-> NoTool]
NoStart == [st |-> "none", id |-> 0, key |-> "none"]
NoJob == [id |-> 0]

McpInit ==
    /\ call = [c \in ToolCalls |-> Idle] /\ start = [n \in Starts |-> NoStart]
    /\ os = [n \in Starts |-> "none"] /\ exitSeen = {}
    /\ jobs = [n \in Starts |-> {}] /\ out = [n \in Starts |-> <<>>]
    /\ started = 0 /\ ready = 0 /\ proc = 0 /\ nextId = 1 /\ torn = FALSE
    /\ disposed = FALSE /\ fallback = FALSE /\ slow = FALSE

--------------------------------------------------------------------------------

(***************************************************************************)
(* The tools.  A tool is refused without its required argument; otherwise  *)
(* it posts in order, with the caller's LLM key or without, and answers    *)
(* with JSON or with prose.                                                *)
(***************************************************************************)
Tool(given, posts, answer) == [given |-> given, posts |-> posts, answer |-> answer]

callBackend == [to |-> "backend", keyed |-> FALSE]
callBackendWithKey == [to |-> "backend", keyed |-> TRUE]
callGateway == [to |-> "gateway", keyed |-> FALSE]

handleVerify(a) == Tool(a.code \/ a.prompt, <<callBackendWithKey>>, "json")
handleScan(a) == Tool(a.code, <<callBackend>>, "json")
handleReview(a) == Tool(a.code, <<callBackendWithKey>>, "prose")
handleConfidence(a) == Tool(a.code, <<callBackendWithKey>>, "prose")
handleProcess(a) == Tool(a.prompt, <<callBackend>>, "json")
handleImprove(a) == Tool(a.code, <<callBackendWithKey>>, IF a.changed THEN "prose" ELSE "json")
handleDualEngine(a) == Tool(a.code, <<callBackendWithKey>>, IF a.json THEN "json" ELSE "prose")
handleSuggest(a) == Tool(a.code, <<callBackendWithKey>>, "prose")
handleAnalyzeDesignSecurity(a) == Tool(a.prompt, <<callBackendWithKey>>, "prose")
handleValidateGeneratedDiff(a) ==
    Tool(a.code, IF a.changed THEN <<callBackendWithKey>> ELSE <<>>, "prose")
handleVerifyProvenance(a) == Tool(a.code /\ a.prompt, <<callGateway>>, "prose")
handleCreateScanAttestation(a) == Tool(a.code, <<callBackendWithKey, callGateway>>, "json")

\* What a caller passes: code (or diff, scan id), prompt (or description, design, signature),
\* whether the review changes the code or the diff adds any, and format=json.
Arguments == [code : BOOLEAN, prompt : BOOLEAN, changed : BOOLEAN, json : BOOLEAN]

buildMCPServer(a) ==
    { handleVerify(a), handleScan(a), handleReview(a), handleConfidence(a), handleProcess(a),
      handleImprove(a), handleDualEngine(a), handleSuggest(a), handleAnalyzeDesignSecurity(a),
      handleValidateGeneratedDiff(a), handleVerifyProvenance(a), handleCreateScanAttestation(a) }

\* The chat participant: the tool a command uses, with code in the editor or a prompt.
Given(code) == [code |-> code, prompt |-> ~code, changed |-> FALSE, json |-> TRUE]

chatScan(code, prompt) ==
    IF code THEN handleScan(Given(TRUE)) ELSE IF prompt THEN handleVerify(Given(FALSE)) ELSE NoTool
chatVerify(code, prompt) == IF code \/ prompt THEN handleVerify(Given(code)) ELSE NoTool
chatDualEngine(code, prompt) ==
    IF code THEN handleDualEngine(Given(TRUE)) ELSE IF prompt THEN handleVerify(Given(FALSE)) ELSE NoTool

ChatTools ==
    UNION { { chatScan(e, p), chatVerify(e, p), chatDualEngine(e, p) } : e \in BOOLEAN, p \in BOOLEAN }
        \ { NoTool }

Job(id, who, tool, llm) == [id |-> id, who |-> who, tool |-> tool, at |-> 1, llm |-> llm]

Answer(j, kind) == [id |-> j.id, who |-> j.who, kind |-> kind]

\* doCall: how the post under way may end.
Replies(badKey) ==
    IF badKey THEN { "auth", "error" } ELSE { "ok", "error", "provider" }

\* A post the LLM provider rejected is repeated once, without the key.
Repeats(j, r) == r = "provider" /\ j.llm /\ j.tool.posts[j.at].keyed

\* The job after reply r.
JobNext(j, r) == IF Repeats(j, r) THEN [j EXCEPT !.llm = FALSE] ELSE [j EXCEPT !.at = @ + 1]

Finished(j) == ~j.tool.given \/ j.at > Len(j.tool.posts)

\* The text of an error may read like a rejection of the API key, a provider's 401 included.
Kinds(r) ==
    IF r = "auth" THEN { "auth" } ELSE IF r = "provider" THEN { "auth", "error" } ELSE { "error" }

--------------------------------------------------------------------------------

\* ensureStarted: the cached start, or a new one that first reads the keys.
NextStart == IF ready = 0 THEN started + 1 ELSE ready

EnsureStarted ==
    IF ready = 0
    THEN /\ started' = started + 1 /\ ready' = started + 1 /\ disposed' = FALSE
         /\ start' = [start EXCEPT ![started + 1] =
                         [st |-> "keys", id |-> 0, key |-> IF fallback' THEN "local" ELSE "stored"]]
    ELSE UNCHANGED <<started, ready, disposed, start>>

Settled(got) == [Idle EXCEPT !.st = "ok", !.got = got]
Rejected == [Idle EXCEPT !.st = "failed"]

\* request, for a set of calls: an id each, written to the process the client has now.
Numbers(W) == LET q == SetToSeq(W) IN [c \in W |-> nextId - 1 + CHOOSE i \in DOMAIN q : q[i] = c]

Asked(c, W) == IF proc = 0 THEN Rejected
               ELSE [call[c] EXCEPT !.st = "wait", !.n = proc, !.id = Numbers(W)[c]]

Request(W, toolOf) ==
    /\ nextId' = nextId + Len(SetToSeq(W))
    /\ jobs' = IF proc = 0 \/ os[proc] \notin { "alive", "killed" } THEN jobs
               ELSE [jobs EXCEPT ![proc] = @ \cup { Job(Numbers(W)[c], c, toolOf[c], TRUE) : c \in W }]

\* callTool: it awaits the start, or writes its request at once.  The participant is
\* disposed of together with the client.
CallTool(c, tool) ==
    /\ call[c].st = "idle" /\ ~disposed
    /\ UNCHANGED fallback
    /\ EnsureStarted
    /\ IF ready # 0 /\ start[ready].st = "up"
       THEN /\ call' = [call EXCEPT ![c] = [Asked(c, { c }) EXCEPT !.tool = tool]]
            /\ Request({ c }, [d \in { c } |-> tool])
       ELSE /\ call' = [call EXCEPT ![c] = [Idle EXCEPT !.st = "ensure", !.n = NextStart, !.tool = tool]]
            /\ UNCHANGED <<nextId, jobs>>
    /\ UNCHANGED <<os, exitSeen, out, proc, torn, slow>>

\* The second half of start: the keys are read, the process is spawned and asked to
\* initialize.  `nospawn` is a process that reports an error instead.
Spawn(n) ==
    /\ start[n].st = "keys"
    /\ proc' = n
    /\ os' \in { [os EXCEPT ![n] = "alive"], [os EXCEPT ![n] = "nospawn"] }
    /\ start' = [start EXCEPT ![n].st = "handshake", ![n].id = nextId]
    /\ nextId' = nextId + 1
    /\ out' = IF os'[n] = "alive"
              THEN [out EXCEPT ![n] = <<[id |-> nextId, who |-> n, kind |-> "init"]>>] ELSE out
    /\ UNCHANGED <<call, exitSeen, jobs, started, ready, torn, disposed, fallback, slow>>

\* The requests with the ids I are rejected.  A start that fails forgets the cached one,
\* whichever that is, and takes the calls that await it along.
Lost(I) == { n \in Starts : start[n].st = "handshake" /\ start[n].id \in I }

\* Mutant: what awaits a failed start is not told.
RejectRequestsOnly(I) ==
    /\ call' = [c \in ToolCalls |-> IF call[c].st = "wait" /\ call[c].id \in I THEN Rejected ELSE call[c]]
    /\ start' = [n \in Starts |-> IF n \in Lost(I) THEN [start[n] EXCEPT !.st = "failed"] ELSE start[n]]

Reject(I) ==
    /\ call' = [c \in ToolCalls |->
                  IF \/ call[c].st = "wait" /\ call[c].id \in I
                     \/ call[c].st = "ensure" /\ call[c].n \in Lost(I)
                  THEN Rejected ELSE call[c]]
    /\ start' = [n \in Starts |-> IF n \in Lost(I) THEN [start[n] EXCEPT !.st = "failed"] ELSE start[n]]

Forget(I) == ready' = IF Lost(I) # {} THEN 0 ELSE ready

\* No binary, or no API key in the secret storage.
StartFails(n) ==
    /\ start[n].st = "keys"
    /\ start' = [start EXCEPT ![n].st = "failed"]
    /\ ready' = 0
    /\ call' = [c \in ToolCalls |-> IF call[c].st = "ensure" /\ call[c].n = n THEN Rejected ELSE call[c]]
    /\ UNCHANGED <<os, exitSeen, jobs, out, started, proc, nextId, torn, disposed, fallback, slow>>

\* request's timer of two minutes; the process is left as it is.
Timeout(id) ==
    /\ Reject({ id }) /\ Forget({ id })
    /\ UNCHANGED <<os, exitSeen, jobs, out, started, proc, nextId, torn, disposed, fallback>>

TimeoutCall(c) == call[c].st = "wait" /\ Timeout(call[c].id) /\ UNCHANGED slow
TimeoutStart(n) == start[n].st = "handshake" /\ Timeout(start[n].id) /\ slow' = TRUE

\* The process works on a tool call: a post ends, or the answer is written.
JobStep(n) ==
    \E j \in jobs[n] :
        /\ os[n] \in { "alive", "killed" }
        /\ IF Finished(j)
           THEN /\ jobs' = [jobs EXCEPT ![n] = @ \ { j }]
                /\ out' = [out EXCEPT ![n] = Append(@, Answer(j, j.tool.answer))]
           ELSE \E r \in Replies(KeyRejected /\ start[n].key = "stored") :
                  IF r = "ok" \/ Repeats(j, r)
                  THEN /\ jobs' = [jobs EXCEPT ![n] = (@ \ { j }) \cup { JobNext(j, r) }]
                       /\ UNCHANGED out
                  ELSE /\ jobs' = [jobs EXCEPT ![n] = @ \ { j }]
                       /\ \E k \in Kinds(r) : out' = [out EXCEPT ![n] = Append(@, Answer(j, k))]
        /\ UNCHANGED <<call, start, os, exitSeen, started, ready, proc, nextId, torn, disposed,
                       fallback, slow>>

\* A process crashes, or dies of the signal; its last line may be cut short.
ProcDies(n) ==
    /\ os[n] \in { "alive", "killed" }
    /\ os' = [os EXCEPT ![n] = "dead"]
    /\ jobs' = [jobs EXCEPT ![n] = {}]
    /\ \/ UNCHANGED out
       \/ jobs[n] # {} /\ out' = [out EXCEPT ![n] = Append(@, [id |-> 0, who |-> 0, kind |-> "torn"])]
    /\ UNCHANGED <<call, start, exitSeen, started, ready, proc, nextId, torn, disposed, fallback, slow>>

RejectAll == Reject(1 .. nextId)

\* Mutant: the exit of whichever process.
ExitOfAnyHandled(n) == ~disposed

\* The exit handler: it minds only the process the client has.
ExitHandled(n) == proc = n /\ ~disposed

ExitEvent(n) ==
    /\ os[n] = "dead" /\ n \notin exitSeen
    /\ exitSeen' = exitSeen \cup { n }
    /\ IF ~ExitHandled(n) THEN UNCHANGED <<call, start, ready, proc>>
       ELSE /\ proc' = 0
            /\ RejectAll
            /\ ready' = 0
    /\ UNCHANGED <<os, jobs, out, started, nextId, torn, disposed, fallback, slow>>

\* The error handler of a process that could not be spawned.
ErrorEvent(n) ==
    /\ os[n] = "nospawn" /\ n \notin exitSeen
    /\ exitSeen' = exitSeen \cup { n }
    /\ IF proc = n THEN RejectAll /\ Forget(1 .. nextId) ELSE UNCHANGED <<call, start, ready>>
    /\ UNCHANGED <<os, jobs, out, started, proc, nextId, torn, disposed, fallback, slow>>

\* healAuthRejection: the current process is killed and the call starts another.
CanHeal == ~fallback /\ OnLocalhost

Heal(c) ==
    /\ fallback' = TRUE
    /\ os' = IF proc # 0 /\ os[proc] = "alive" THEN [os EXCEPT ![proc] = "killed"] ELSE os
    /\ proc' = 0
    /\ started' = started + 1 /\ ready' = started + 1 /\ disposed' = FALSE
    /\ start' = [start EXCEPT ![started + 1] = [st |-> "keys", id |-> 0, key |-> "local"]]
    /\ call' = [call EXCEPT ![c] = [@ EXCEPT !.st = "ensure", !.n = started + 1, !.id = 0]]

\* A call's answer: a result, an error, or a rejected key that is healed.
Answered(c, a) ==
    /\ IF a.kind = "auth" /\ CanHeal THEN Heal(c)
       ELSE /\ call' = [call EXCEPT ![c] = IF a.kind = "json" THEN Settled(a.who) ELSE Rejected]
            /\ UNCHANGED <<fallback, os, proc, started, ready, disposed, start>>
    /\ UNCHANGED <<nextId, jobs>>

\* A start's answer: every call that awaits it writes its request.
Initialized(n) ==
    LET W == { c \in ToolCalls : call[c].st = "ensure" /\ call[c].n = n }
    IN  /\ start' = [start EXCEPT ![n].st = "up"]
        /\ call' = [c \in ToolCalls |-> IF c \in W THEN Asked(c, W) ELSE call[c]]
        /\ Request(W, [c \in W |-> call[c].tool])
        /\ UNCHANGED <<fallback, os, proc, started, ready, disposed>>

\* onData: a line is matched by its id; after a cut line the next one is lost.
OnData(n) ==
    /\ out[n] # <<>>
    /\ out' = [out EXCEPT ![n] = Tail(@)]
    /\ LET a == Head(out[n])
           owners == { c \in ToolCalls : call[c].st = "wait" /\ call[c].id = a.id }
           begun == { m \in Starts : start[m].st = "handshake" /\ start[m].id = a.id }
       IN  /\ torn' = (a.kind = "torn")
           /\ IF torn \/ a.kind = "torn" \/ owners \cup begun = {}
              THEN UNCHANGED <<call, start, started, ready, proc, nextId, jobs, os, disposed, fallback>>
              ELSE \/ \E c \in owners : Answered(c, a)
                   \/ \E m \in begun : Initialized(m)
    /\ UNCHANGED <<exitSeen, slow>>

\* dispose: the process is killed; what awaits it goes on waiting.
Dispose ==
    /\ ~disposed
    /\ disposed' = TRUE
    /\ os' = IF proc # 0 /\ os[proc] = "alive" THEN [os EXCEPT ![proc] = "killed"] ELSE os
    /\ proc' = 0
    /\ ready' = 0
    /\ UNCHANGED <<call, start, exitSeen, jobs, out, started, nextId, torn, fallback, slow>>

--------------------------------------------------------------------------------

\* Another MCP client calls a tool of its own server, with an LLM key or without.
OtherCalls ==
    /\ other = NoJob
    /\ \E a \in Arguments : \E t \in buildMCPServer(a) : \E llm \in BOOLEAN : other' = Job(1, 0, t, llm)

OtherStep ==
    /\ other # NoJob
    /\ IF Finished(other) THEN other' = NoJob
       ELSE \E r \in Replies(FALSE) :
               other' = IF r = "ok" \/ Repeats(other, r) THEN JobNext(other, r) ELSE NoJob

McpNext ==
    \/ \E c \in ToolCalls : TimeoutCall(c) \/ \E t \in ChatTools : CallTool(c, t)
    \/ \E n \in Starts : \/ Spawn(n) \/ StartFails(n) \/ TimeoutStart(n) \/ JobStep(n)
                         \/ ProcDies(n) \/ ExitEvent(n) \/ ErrorEvent(n) \/ OnData(n)
    \/ Dispose

\* What happens by itself, in time.
McpStep ==
    \/ \E c \in ToolCalls : TimeoutCall(c)
    \/ \E n \in Starts : Spawn(n) \/ StartFails(n) \/ TimeoutStart(n)

--------------------------------------------------------------------------------

(***************************************************************************)
(* mcpClient.ts:204-228, 241-267, 345-358.  A call is given the answer to  *)
(* its own request, although a process killed by the healing or by dispose *)
(* may still deliver answers while its successor numbers new requests.     *)
(***************************************************************************)
OwnAnswer == \A c \in ToolCalls : call[c].st = "ok" => call[c].got = c

(***************************************************************************)
(* mcpClient.ts:161-182: "Its late exit must not reject the current proc's *)
(* pending requests."  The exit of a process rejects nothing that was      *)
(* asked of the process the client has, if that one lives, and does not    *)
(* let it go.  Nor does it reject what was asked of any other live         *)
(* process, unless a handshake timed out before: its process goes on, and  *)
(* when that exits during the next start, a third start overtakes it.      *)
(***************************************************************************)
ExitHarmless ==
    exitSeen' # exitSeen =>
        /\ \A c \in ToolCalls :
              call[c].st = "wait" /\ call'[c].st # "wait" =>
                  os[call[c].n] # "alive" \/ (slow /\ call[c].n # proc)
        /\ proc # 0 /\ os[proc] = "alive" => proc' = proc

\* A call of the chat participant, or a tool call of another client, is under way.
CallsPending == other # NoJob \/ \E c \in ToolCalls : call[c].st \in { "ensure", "wait" }
===============================================================================
