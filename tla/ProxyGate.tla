------------------------------- MODULE ProxyGate -------------------------------
(***************************************************************************)
(* The LLM gateway (internal/proxy): POST /v1/chat/completions, /messages   *)
(* and /responses, streaming or not.  What the provider generates is        *)
(* scanned after it was received; the mode of the request says what may     *)
(* leave the gateway before and after the verdict.  Paths: "json" (not      *)
(* streaming), "chat" (handleStreaming), "responses"                        *)
(* (handleResponsesStream), "direct" (handleStreamingDirect, the fallback   *)
(* of "chat"), "attest" (POST /v1/provenance/attest).                       *)
(***************************************************************************)
EXTENDS DualEngine, Integers, FiniteSets

CONSTANTS
    ProxyRequests,
    Texts,          \* what a provider may generate
    RiskyTexts,     \* of these, the ones that were asked for in a risky prompt
    Quota,          \* PerKeyDailyQuota
    AddressLimit,   \* requests of one address in a minute
    RingSize        \* records the provenance store keeps

Modes == { "observe", "balanced", "strict", "passthrough" }

\* A text is a sequence of chunks: "half1" and "half2" are the two parts of a fence that
\* the provider cut.  Where a provider sends several of them at once they come one by one
\* here; push takes them in turn.
StreamTokens == { "prose", "code", "fence", "half1", "half2" }

\* The fences in the first n chunks; a scan of the whole sees a cut fence as a fence.
Fences(text, n) == Cardinality({ i \in 1 .. n : text[i] \in { "fence", "half2" } })

\* What is between an odd fence and the next is code, and nothing else is.
ASSUME ProxyGateAssumption ==
    /\ Texts \subseteq Seq(StreamTokens) /\ RiskyTexts \subseteq Texts
    /\ \A t \in Texts : \A i \in DOMAIN t : t[i] = "code" => Fences(t, i) % 2 = 1
    /\ { Quota, AddressLimit, RingSize } \subseteq Nat \ { 0 }

VARIABLES
    proxied,        \* [ProxyRequests -> the request: see NewProxied]
    used,           \* RequestCount of the key
    hits,           \* requests of the address in its minute
    ring            \* scan ids with a provenance record, oldest first

proxyVars == <<proxied, used, hits, ring>>

\* The chunks that have left, the ones buffered and the ones in closed blocks, by number.
OpenGate == [out |-> {}, inCode |-> FALSE, buf |-> {}, held |-> {}]

NewProxied == [at |-> "new", path |-> "none", mode |-> "observe", text |-> <<>>,
    told |-> FALSE,     \* the design gate has added its constraints
    pos |-> 0, gate |-> OpenGate, policy |-> "none", recorded |-> FALSE]

ProxyGateInit ==
    proxied = [q \in ProxyRequests |-> NewProxied] /\ used = 0 /\ hits = 0 /\ ring = <<>>

--------------------------------------------------------------------------------
(* Text                                                                     *)

\* fullContent: the chunks received so far.
Received(p) == 1 .. p.pos

\* ExtractCodeBlocks finds closed blocks.
HasBlocks(p) == Fences(p.text, p.pos) >= 2

\* streamingGate.push, balanced: prose is released, what is between fences is held.
Push(g, i, chunk) ==
    IF chunk = "fence"
    THEN IF g.inCode THEN [g EXCEPT !.held = @ \cup g.buf, !.buf = {}, !.inCode = FALSE]
                     ELSE [g EXCEPT !.inCode = TRUE]
    ELSE IF g.inCode THEN [g EXCEPT !.buf = @ \cup { i }]
                     ELSE [g EXCEPT !.out = @ \cup { i }]

\* redactCodeBlocks puts a notice in the place of a closed block, here of its first fence;
\* an open block is left as it is.
Redact(p) ==
    { i \in Received(p) : LET before == Fences(p.text, i - 1) IN
          before % 2 = 0 \/ before = Fences(p.text, p.pos) }

--------------------------------------------------------------------------------
(* Verdict and policy                                                       *)

ComputePolicy(verdict, unavailable, mode) ==
    LET strict == mode = "strict" IN
    IF mode = "passthrough" THEN "allow"
    ELSE IF unavailable /\ strict THEN "scanner_unavailable"
    ELSE CASE verdict = "block" -> IF strict THEN "block" ELSE "hold_for_review"
           [] verdict = "warn" -> IF strict THEN "require_acknowledgement" ELSE "allow_with_notice"
           [] verdict = "pass" -> "allow"

\* enforcePolicy: an acknowledgement that is required is not waited for.
Enforced(policy, mode) == mode = "strict" /\ policy \in { "block", "scanner_unavailable" }

\* handleProvenanceVerify by scan id: the signature fits the record, if it is still there.
Verifies(q) == Contains(ring, q)

\* provenanceStore.put: the ring drops its oldest record.
PutRecord(q) ==
    ring' = LET r == Append(ring, q) IN IF Len(r) > RingSize THEN Tail(r) ELSE r

\* recordProvenance signs and stores; a signature that fails is stored empty.
RecordProvenance(q, records) == IF records THEN PutRecord(q) ELSE UNCHANGED ring

\* Mutant: in strict mode the chunks are forwarded as they come.
ForwardsStrict(q) == proxied[q].mode # "passthrough"

--------------------------------------------------------------------------------
(* Steps of a request                                                       *)

\* rateLimitMiddleware, before authMiddleware: a refused request counts too.
RateAllowed == hits < AddressLimit
Counted == hits' = hits + 1

\* authMiddleware: no key, a key that is not configured, or one that is.
Authenticated(key) == key = "configured"

\* usageCount holds what recordUsage has counted: requests that are not streaming.
QuotaLeft == used < Quota
RecordUsage == used' = used + 1

\* handleResponses: a request that does not stream goes through handleProxyRequest.
Paths(surface) ==
    IF surface = "responses" THEN { "json", "responses" } ELSE { "json", "chat" }

\* modelAllowed: no list, no model named, or a model that the list matches.
ModelAllowed(model) == model # "unlisted"

\* buildTask, parseMessages, parseResponsesInput: a request without messages is refused.
HasMessages(body) == body = "messages"

\* applyDesignGate: a last message of the user's in which the local patterns find
\* something goes to the provider with the constraints that follow from it.
ApplyDesignGate(p) == [p EXCEPT !.told = p.text \in RiskyTexts]

\* The middlewares, the tenant's models and quota, the messages, then the path.
Admit(q) ==
    /\ proxied[q].at = "new" /\ Counted
    /\ \E key \in { "none", "unknown", "configured" }, model \in { "listed", "unlisted", "none" },
          body \in { "messages", "unparsable", "empty" } :
          LET admitted == /\ RateAllowed /\ Authenticated(key) /\ ModelAllowed(model)
                          /\ QuotaLeft /\ HasMessages(body) IN
          \/ ~admitted /\ proxied' = [proxied EXCEPT ![q].at = "refused"]
          \/ /\ admitted
             /\ \E s \in { "chat", "responses" }, m \in Modes, t \in Texts : \E p \in Paths(s) :
                   proxied' = [proxied EXCEPT ![q].at = "open", ![q].path = p,
                       ![q].mode = m, ![q].text = t]
    /\ UNCHANGED <<used, ring>>

MinuteOver ==
    /\ hits > 0 /\ hits' = 0
    /\ UNCHANGED <<proxied, used, ring>>

\* ExecuteWithFailover returns the whole text, or fails; either counts.
Execute(q) ==
    LET p == ApplyDesignGate(proxied[q]) IN
    /\ p.at = "open" /\ p.path = "json"
    /\ RecordUsage
    /\ \/ proxied' = [proxied EXCEPT ![q] = [p EXCEPT !.at = "received", !.pos = Len(p.text)]]
       \/ proxied' = [proxied EXCEPT ![q] = [p EXCEPT !.at = "failed"]]
    /\ UNCHANGED <<hits, ring>>

\* handleStreaming up to its loop: StreamWithFailover, or the direct path where it fails.
OpenChat(q) ==
    LET p == ApplyDesignGate(proxied[q]) IN
    /\ p.at = "open" /\ p.path = "chat"
    /\ \/ proxied' = [proxied EXCEPT ![q] = [p EXCEPT !.at = "streaming"]]
       \/ proxied' = [proxied EXCEPT ![q].path = "direct"]     \* with the original body
    /\ UNCHANGED <<used, hits, ring>>

\* handleStreamingDirect up to its loop: no provider for the model, a target that is
\* refused, a connection that fails, or a body to read.  The gate scans the body again.
OpenDirect(q) ==
    LET p == ApplyDesignGate(proxied[q]) IN
    /\ p.at = "open" /\ p.path = "direct"
    /\ \/ proxied' = [proxied EXCEPT ![q] = [p EXCEPT !.at = "streaming"]]
       \/ proxied' = [proxied EXCEPT ![q].at = "failed"]
    /\ UNCHANGED <<used, hits, ring>>

\* handleResponsesStream up to its loop: there is no direct path.
OpenResponses(q) ==
    LET p == ApplyDesignGate(proxied[q]) IN
    /\ p.at = "open" /\ p.path = "responses"
    /\ \/ proxied' = [proxied EXCEPT ![q] = [p EXCEPT !.at = "streaming"]]
       \/ proxied' = [proxied EXCEPT ![q] = [p EXCEPT !.at = "failed"]]
    /\ UNCHANGED <<used, hits, ring>>

\* One chunk has arrived, and the gate is now g.
TakeChunk(q, g) ==
    /\ proxied[q].at = "streaming" /\ proxied[q].pos < Len(proxied[q].text)
    /\ proxied' = [proxied EXCEPT ![q].pos = @ + 1, ![q].gate = g]
    /\ UNCHANGED <<used, hits, ring>>

Through(p) == [p.gate EXCEPT !.out = @ \cup { p.pos + 1 }]
Buffered(p) == [p.gate EXCEPT !.buf = @ \cup { p.pos + 1 }]

\* Whether the loop of handleStreaming writes a chunk at once.
Forwards(q) == proxied[q].mode # "strict"

ChatChunk(q) ==
    LET p == proxied[q] IN
    /\ p.path = "chat"
    /\ TakeChunk(q, IF Forwards(q) THEN Through(p) ELSE Buffered(p))

\* Every line is forwarded, whatever the mode.
DirectChunk(q) == proxied[q].path = "direct" /\ TakeChunk(q, Through(proxied[q]))

\* A client that has gone ends the direct path there: nothing is scanned or recorded.
ClientGone(q) ==
    /\ proxied[q].at = "streaming" /\ proxied[q].path = "direct"
    /\ proxied' = [proxied EXCEPT ![q].at = "failed"]
    /\ UNCHANGED <<used, hits, ring>>

\* What streamingGate.push lets through.
ResponsesChunk(q) ==
    LET p == proxied[q] IN
    /\ p.path = "responses"
    /\ TakeChunk(q, CASE p.mode \in { "observe", "passthrough" } -> Through(p)
                      [] p.mode = "strict" -> Buffered(p)
                      [] p.mode = "balanced" -> Push(p.gate, p.pos + 1, p.text[p.pos + 1]))

\* The channel closes: the text is complete, cut, or over the size limit.
StreamEnds(q) ==
    /\ proxied[q].at = "streaming"
    /\ proxied' = [proxied EXCEPT ![q].at = "received"]
    /\ UNCHANGED <<used, hits, ring>>

\* analyzeAndVerdict, ComputePolicy and recordProvenance.  Without a closed block, or
\* in passthrough, there is no outcome; the direct path records only with findings.
Analyse(q) ==
    LET p == proxied[q] IN
    /\ p.at = "received"
    /\ \/ /\ p.mode = "passthrough" \/ ~HasBlocks(p)
          /\ proxied' = [proxied EXCEPT ![q].at = "decided"]
          /\ UNCHANGED ring
       \/ /\ p.mode # "passthrough" /\ HasBlocks(p)
          /\ \E found \in SUBSET { "low", "medium", "high" }, llmFailed \in BOOLEAN :
             \E verdict \in Verdicts(found) :
                LET records == p.path # "direct" \/ found # {} IN
                /\ proxied' = [proxied EXCEPT
                      ![q].at = "decided",
                      ![q].policy = IF records
                          THEN ComputePolicy(verdict, llmFailed /\ found = {}, p.mode) ELSE "none",
                      ![q].recorded = records]
                /\ RecordProvenance(q, records)
    /\ UNCHANGED <<used, hits>>

\* streamingGate.finish.
FinishGate(g, policy, mode) ==
    CASE mode \in { "observe", "passthrough" } -> {}
      [] mode = "strict" -> g.buf
      [] mode = "balanced" ->
            IF policy \in { "hold_for_review", "block" } THEN {} ELSE g.held

\* The answer ends with rest, or with an error in place of it.
FinishAnswer(q, rest) ==
    LET p == proxied[q] IN
    /\ p.at = "decided"
    /\ proxied' = [proxied EXCEPT ![q].at = "done",
          ![q].gate = [OpenGate EXCEPT
              !.out = p.gate.out \cup IF Enforced(p.policy, p.mode) THEN {} ELSE rest]]
    /\ UNCHANGED <<used, hits, ring>>

\* handleProxyRequest: a refusal with a status of its own, the text without its code, or
\* the text.
JSONAnswer(q) ==
    LET p == proxied[q] IN
    /\ p.path = "json"
    /\ FinishAnswer(q, IF p.policy = "hold_for_review" /\ p.mode = "balanced"
                 THEN Redact(p) ELSE Received(p))

\* handleStreaming: in strict mode what was buffered, also when nothing was scanned.
ChatAnswer(q) ==
    LET p == proxied[q] IN
    p.path = "chat" /\ FinishAnswer(q, IF p.mode = "strict" THEN p.gate.buf ELSE {})

\* handleStreamingDirect: everything has gone out; the verdict is a notice after it.
DirectAnswer(q) ==
    /\ proxied[q].path = "direct" /\ proxied[q].at = "decided"
    /\ proxied' = [proxied EXCEPT ![q].at = "done"]
    /\ UNCHANGED <<used, hits, ring>>

\* handleResponsesStream: response.failed, or what the gate still holds.
ResponsesAnswer(q) ==
    LET p == proxied[q] IN
    p.path = "responses" /\ FinishAnswer(q, FinishGate(p.gate, p.policy, p.mode))

\* A record for content that was scanned elsewhere.
Attest(q) ==
    /\ proxied[q].at = "new" /\ RateAllowed /\ Counted
    /\ proxied' = [proxied EXCEPT ![q].at = "done", ![q].path = "attest", ![q].recorded = TRUE]
    /\ PutRecord(q)
    /\ UNCHANGED used

ProxyGateNext ==
    \/ \E q \in ProxyRequests :
          \/ Admit(q) \/ Attest(q) \/ Execute(q)
          \/ OpenChat(q) \/ OpenDirect(q) \/ OpenResponses(q)
          \/ ChatChunk(q) \/ DirectChunk(q) \/ ResponsesChunk(q)
          \/ StreamEnds(q) \/ ClientGone(q) \/ Analyse(q)
          \/ JSONAnswer(q) \/ ChatAnswer(q) \/ DirectAnswer(q) \/ ResponsesAnswer(q)
    \/ MinuteOver

ProxyGateSpec == ProxyGateInit /\ [][ProxyGateNext]_proxyVars

--------------------------------------------------------------------------------
(* Properties                                                               *)

Uncut(p) == \A i \in Received(p) : p.text[i] # "half2"
AllClosed(p) == Fences(p.text, p.pos) % 2 = 0

\* handleProxyRequest, handleStreaming, handleResponsesStream: in strict mode nothing
\* leaves the gateway before the decision, and nothing after a decision against it.
StrictWithholds(p) ==
    (p.mode = "strict" /\ p.path \in { "json", "chat", "responses" } /\ p.gate.out # {})
        => (p.at = "done" /\ ~Enforced(p.policy, p.mode))

\* streamingGate, redactCodeBlocks: in balanced mode no code leaves it when the code is
\* held for review, on the paths that hold code at all, for blocks that are closed and
\* fences that arrive whole.
CodeHeld(p) ==
    (/\ p.mode = "balanced" /\ p.policy = "hold_for_review" /\ Uncut(p)
     /\ \/ p.path = "responses"
        \/ p.path = "json" /\ AllClosed(p))
        => \A i \in p.gate.out : p.text[i] # "code"

\* applyDesignGate: no provider answers a risky request that came without its
\* constraints, on the fallback path neither.
ConstraintsReach(p) ==
    p.at \in { "streaming", "received", "decided" } => (p.told <=> p.text \in RiskyTexts)

\* provenanceStore: the record of a decision is there until RingSize others followed.
RecordKept(q) ==
    proxied[q].recorded =>
        \/ Verifies(q)
        \/ Cardinality({ x \in ProxyRequests \ { q } : proxied[x].recorded }) >= RingSize

\* What the gateway promises of every request, whatever its path and mode.
WithheldStaysWithheld ==
    \A q \in ProxyRequests :
        /\ StrictWithholds(proxied[q]) /\ CodeHeld(proxied[q])
        /\ ConstraintsReach(proxied[q]) /\ RecordKept(q)

================================================================================
