-------------------------- MODULE RequestPipeline --------------------------
(***************************************************************************)
(* The unified LLM pipeline (internal/middleware/middleware.go Process):    *)
(* rate limit, response cache, skill patterns, generation with retries,     *)
(* critique with one regeneration, then the records every answer leaves     *)
(* behind (feedback, response cache, skill patterns).  Calls run            *)
(* concurrently; the cache, the feedback engine and the pattern store are   *)
(* each guarded by a mutex of their own, so a call's visits to them are     *)
(* separate steps.                                                          *)
(***************************************************************************)
EXTENDS Integers, SequencesExt

CONSTANTS
    Calls,          \* calls of Process in progress
    Prompts,        \* the (task type, description, code) triples they carry
    PromptOf,       \* [Calls -> Prompts]
    MaxTries,       \* retry.Policy.MaxRetries + 1
    MaxRetries,     \* PipelineConfig.MaxRetries
    CacheSize,      \* cache.Config.MaxSize
    Threshold,      \* critic.Config.Threshold, in hundredths
    NoContent

ASSUME PipelineAssumption ==
    /\ PromptOf \in [Calls -> Prompts]
    /\ MaxTries \in Nat \ {0} /\ CacheSize \in Nat \ {0}
    /\ MaxRetries \in Nat /\ Threshold \in 1 .. 100

VARIABLES
    llmCall,        \* per call: where it is and the Response it is building
    responses,      \* response cache, least recently used first
    skillPatterns,  \* prompts whose code matches a stored skill pattern
    feedback,       \* call -> the verdict the feedback engine recorded
    rejectedTexts   \* contents the critic rejected

pipelineVars == <<llmCall, responses, skillPatterns, feedback, rejectedTexts>>

\* A generated text is named by the call and by which generation it came from.
NewCall == [at |-> "idle", tries |-> 0, content |-> NoContent,
            accepted |-> FALSE, retries |-> 0]

RequestPipelineInit ==
    /\ llmCall = [c \in Calls |-> NewCall]
    /\ responses = <<>>
    /\ skillPatterns = {}
    /\ feedback = [c \in Calls |-> NoContent]
    /\ rejectedTexts = {}

----------------------------------------------------------------------------
(* The response cache.  The pipeline stores under the bare hash and looks   *)
(* up under the configured prefix followed by the hash.                     *)

PutKey(p) == <<"", p>>
GetKey(p) == <<"llm:", p>>

Holding(key) == {i \in DOMAIN responses : responses[i].key = key}

\* A key has one entry at most.
WithoutKey(key) ==
    IF Holding(key) = {} THEN responses ELSE RemoveAt(responses, CHOOSE i \in Holding(key) : TRUE)

\* Put: an update moves the entry to the end, a new one first evicts.
Stored(key, content) ==
    LET rest == WithoutKey(key)
        room == IF Holding(key) = {} /\ Len(rest) >= CacheSize THEN Tail(rest) ELSE rest
    IN  Append(room, [key |-> key, content |-> content])

----------------------------------------------------------------------------
Answers(c, content, accepted) ==
    llmCall' = [llmCall EXCEPT ![c].at = "done", ![c].content = content, ![c].accepted = accepted]

\* The sliding window of the user is full: an error and no content.
RateLimited(c) ==
    /\ llmCall[c].at = "idle"
    /\ Answers(c, NoContent, FALSE)
    /\ UNCHANGED <<responses, skillPatterns, feedback, rejectedTexts>>

\* GetByPrompt: a hit is answered as accepted and becomes the most recent.
CheckCache(c) ==
    LET key == GetKey(PromptOf[c]) IN
    /\ llmCall[c].at = "idle"
    /\ IF Holding(key) # {}
       THEN LET hit == responses[CHOOSE i \in Holding(key) : TRUE] IN
            /\ Answers(c, hit.content, TRUE)
            /\ responses' = Append(WithoutKey(key), hit)
       ELSE /\ llmCall' = [llmCall EXCEPT ![c].at = "match"]
            /\ UNCHANGED responses
    /\ UNCHANGED <<skillPatterns, feedback, rejectedTexts>>

\* A pattern that matches the code well answers at once with its fix.
MatchPattern(c) ==
    /\ llmCall[c].at = "match"
    /\ PromptOf[c] \in skillPatterns
    /\ Answers(c, <<PromptOf[c], "fix">>, TRUE)
    /\ UNCHANGED <<responses, skillPatterns, feedback, rejectedTexts>>

\* No pattern matches, or none above 0.8.
StartGeneration(c) ==
    /\ llmCall[c].at = "match"
    /\ llmCall' = [llmCall EXCEPT ![c].at = "generate"]
    /\ UNCHANGED <<responses, skillPatterns, feedback, rejectedTexts>>

\* One attempt of generateWithRetry succeeds: the first generation goes to
\* the critic, the regeneration replaces content and leaves the verdict.
GenerateOK(c) ==
    /\ llmCall[c].at \in {"generate", "regenerate"}
    /\ llmCall' = [llmCall EXCEPT
         ![c].tries = 0,
         ![c].content = <<c, IF llmCall[c].at = "generate" THEN "first" ELSE "second">>,
         ![c].accepted = IF llmCall[c].at = "generate" THEN TRUE ELSE @,
         ![c].retries = IF llmCall[c].at = "generate" THEN @ ELSE @ + 1,
         ![c].at = IF llmCall[c].at = "generate" THEN "critique" ELSE "record"]
    /\ UNCHANGED <<responses, skillPatterns, feedback, rejectedTexts>>

\* An attempt fails; another follows while the policy has one left.
AttemptFails(c) ==
    /\ llmCall[c].at \in {"generate", "regenerate"}
    /\ llmCall[c].tries + 1 < MaxTries
    /\ llmCall' = [llmCall EXCEPT ![c].tries = @ + 1]
    /\ UNCHANGED <<responses, skillPatterns, feedback, rejectedTexts>>

\* The last attempt fails or the context is done: a first generation ends
\* the call with an error, a regeneration keeps the rejected response.
GenerationFails(c) ==
    /\ llmCall[c].at \in {"generate", "regenerate"}
    /\ IF llmCall[c].at = "generate"
       THEN Answers(c, NoContent, FALSE)
       ELSE llmCall' = [llmCall EXCEPT ![c].at = "record", ![c].tries = 0]
    /\ UNCHANGED <<responses, skillPatterns, feedback, rejectedTexts>>

\* The score, in hundredths, of what the critic writes: JSON without a score decodes
\* to zero, and where there is no JSON the evaluation accepts with 80.
ParseCritique == [noJSON |-> 80, noScore |-> 0, low |-> Threshold - 1, high |-> Threshold]

Rejects(answer) == answer # "noJSON" /\ ParseCritique[answer] < Threshold

\* The critic accepts, or its call fails and leaves the response as it was.
CritiqueAccepts(c) ==
    /\ llmCall[c].at = "critique"
    /\ llmCall' = [llmCall EXCEPT ![c].at = "record"]
    /\ UNCHANGED <<responses, skillPatterns, feedback, rejectedTexts>>

CritiqueRejects(c, answer) ==
    /\ llmCall[c].at = "critique" /\ Rejects(answer)
    /\ rejectedTexts' = rejectedTexts \cup {llmCall[c].content}
    /\ llmCall' = [llmCall EXCEPT
         ![c].accepted = FALSE,
         ![c].at = IF llmCall[c].retries < MaxRetries THEN "regenerate" ELSE "record"]
    /\ UNCHANGED <<responses, skillPatterns, feedback>>

RecordOutcome(c) ==
    /\ llmCall[c].at = "record"
    /\ feedback' = [feedback EXCEPT ![c] = llmCall[c].accepted]
    /\ llmCall' = [llmCall EXCEPT ![c].at = "put"]
    /\ UNCHANGED <<responses, skillPatterns, rejectedTexts>>

\* Every response is cached, a rejected one too.
PutResponse(c) ==
    /\ llmCall[c].at = "put"
    /\ responses' = Stored(PutKey(PromptOf[c]), llmCall[c].content)
    /\ llmCall' = [llmCall EXCEPT ![c].at = "extract"]
    /\ UNCHANGED <<skillPatterns, feedback, rejectedTexts>>

\* scanAndExtract: the scan of the request's code may yield patterns.  The
\* cost record, the memory episode and the counters follow.
ScanAndExtract(c) ==
    /\ llmCall[c].at = "extract"
    /\ \E found \in SUBSET {PromptOf[c]} : skillPatterns' = skillPatterns \cup found
    /\ llmCall' = [llmCall EXCEPT ![c].at = "done"]
    /\ UNCHANGED <<responses, feedback, rejectedTexts>>

\* DefaultTTL passes for the entry under a key.
ResponseExpires(key) ==
    /\ Holding(key) # {}
    /\ responses' = WithoutKey(key)
    /\ UNCHANGED <<llmCall, skillPatterns, feedback, rejectedTexts>>

ProcessStep(c) ==
    \/ RateLimited(c) \/ CheckCache(c) \/ MatchPattern(c) \/ StartGeneration(c)
    \/ GenerateOK(c) \/ AttemptFails(c) \/ GenerationFails(c)
    \/ CritiqueAccepts(c) \/ \E answer \in DOMAIN ParseCritique : CritiqueRejects(c, answer)
    \/ RecordOutcome(c) \/ PutResponse(c) \/ ScanAndExtract(c)

RequestPipelineNext ==
    \/ \E c \in Calls : ProcessStep(c)
    \/ \E p \in Prompts : ResponseExpires(PutKey(p))

----------------------------------------------------------------------------
\* What the critic rejected is never returned as accepted, neither by the
\* call it was generated for nor, through the response cache, by another,
\* and the feedback engine learns the verdict the caller is given.
AcceptedNotRejected ==
    \A c \in Calls :
        /\ llmCall[c].at = "done" /\ llmCall[c].accepted => llmCall[c].content \notin rejectedTexts
        /\ feedback[c] # NoContent => feedback[c] = llmCall[c].accepted

=============================================================================
