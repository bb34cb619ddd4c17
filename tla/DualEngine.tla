------------------------------ MODULE DualEngine ------------------------------
(***************************************************************************)
(* The analysis of the code blocks of one generated answer                 *)
(* (internal/proxy/dualengine.go, analyzeAndVerdict): a goroutine per      *)
(* block, two engines per goroutine, their findings merged by category     *)
(* and collected under a lock in the order the goroutines end.  A finding  *)
(* is its category, its severity and whether both engines made it (the     *)
(* suffix "+llm" of its rule).  Confidence is left out: it moves the score *)
(* alone.  The merged list is sorted for the summary; the verdict does not *)
(* see its order.                                                          *)
(*   Below it, the scanner engine of the backend (internal/scanner) with its *)
(* three analysers, the two endpoints that grade code by its findings,      *)
(* POST /scan and POST /deep-analyze (internal/router/scan_handlers.go),    *)
(* and POST /middleware/process, which learns a skill from each finding.    *)
(***************************************************************************)
EXTENDS Integers, FiniteSets, SequencesExt

CONSTANTS
    Blocks,         \* code blocks of the answer
    BackendAnswers, \* sequences of findings the backend's scanners return
    PatternHits,    \* sets of local patterns a block matches, by position
    LLMAnswers,     \* sequences of findings a model returns, <<>> if none parsed
    Places,         \* lines: [snippet |-> what the line holds, nosec |-> it is marked]
    ToolLevels,     \* severities the external tools use
    DeepAnswers     \* findings a model returns to POST /deep-analyze

Finding(cat, sev) == [cat |-> cat, sev |-> sev, both |-> FALSE]

\* The five patterns of localDeterministicScan, in their order.
LocalRules == << Finding("injection", "critical"), Finding("xss", "high"),
    Finding("secrets", "critical"), Finding("crypto", "medium"),
    Finding("injection", "critical") >>

SeverityRank == [critical |-> 5, high |-> 4, medium |-> 3, low |-> 2, info |-> 1]

ASSUME DualEngineAssumption ==
    /\ PatternHits \subseteq SUBSET DOMAIN LocalRules
    /\ Places \subseteq [snippet : { "literal", "declaration", "other" }, nosec : BOOLEAN]
    /\ ToolLevels \subseteq { "high", "medium", "low", "info" }
    /\ BackendAnswers \cup LLMAnswers \cup DeepAnswers \subseteq
          Seq([cat : STRING, sev : DOMAIN SeverityRank, both : { FALSE }])
    /\ IsFiniteSet(Blocks)

VARIABLES
    block,          \* [Blocks -> its goroutine: the engines' results, merged or not]
    allFindings,    \* what the goroutines have collected, deduplicated
    llmErrCount,
    scanOutcome,    \* the verdict, "pending" before it is computed
    checked         \* a piece of code sent to /scan, /deep-analyze, /middleware/process

gatewayVars == <<block, allFindings, llmErrCount, scanOutcome>>

Unfinished == << Finding("engine", "unfinished") >>
Failed == << Finding("engine", "failed") >>
Unparsable == << Finding("answer", "unparsable") >>

DualEngineInit ==
    /\ block = [b \in Blocks |-> [det |-> Unfinished, llm |-> Unfinished, merged |-> FALSE]]
    /\ allFindings = {} /\ llmErrCount = 0
    /\ scanOutcome = [verdict |-> "pending", unavailable |-> FALSE]
    /\ checked = [at |-> "new", file |-> "plain", raw |-> {}, scanScore |-> 100,
                  det |-> {}, lost |-> {}, llm |-> Unfinished, score |-> 100,
                  processed |-> <<>>,   \* per call of /middleware/process, its findings
                  skills |-> <<>>]      \* UsageCount of each trigger in the registry

--------------------------------------------------------------------------------
(* The two engines and their merge                                          *)

\* The findings of the patterns that match, by the number of the pattern.
LocalScan(hits) == [i \in hits |-> LocalRules[i]]

\* The first finding of the model in a category.
FirstOf(llm, cat) ==
    LET same == { i \in DOMAIN llm : llm[i].cat = cat }
    IN  llm[CHOOSE i \in same : \A j \in same : i <= j]

\* Mutant: a marked finding takes the severity the model gives it.
TakesModelSeverity(f, llm) ==
    IF \A i \in DOMAIN llm : llm[i].cat # f.cat THEN f
    ELSE [f EXCEPT !.both = TRUE, !.sev = FirstOf(llm, f.cat).sev]

\* A deterministic finding is marked, and raised to the severity of the model's first
\* finding of its category.
Corroborate(f, llm) ==
    IF \A i \in DOMAIN llm : llm[i].cat # f.cat THEN f
    ELSE LET first == FirstOf(llm, f.cat).sev IN
         [f EXCEPT !.both = TRUE,
                   !.sev = IF SeverityRank[first] > SeverityRank[@] THEN first ELSE @]

\* Findings of the model are added unless their category is there unmarked, which is so
\* when the model itself has had one before.
MergeFindings(det, llm) ==
    LET marked == { Corroborate(det[i], llm) : i \in DOMAIN det }
        added == { i \in DOMAIN llm :
                    /\ \A m \in marked : m.cat = llm[i].cat => m.both
                    /\ \A j \in DOMAIN llm : j < i => llm[j].cat # llm[i].cat }
    IN  marked \cup { llm[i] : i \in added }

\* Below medium the score may still fall under 70 where there are findings.
Verdicts(severities) ==
    IF severities \cap { "critical", "high" } # {} THEN { "block" }
    ELSE IF "medium" \in severities THEN { "warn" }
    ELSE IF severities # {} THEN { "pass", "warn" } ELSE { "pass" }

--------------------------------------------------------------------------------
(* The goroutines                                                           *)

\* runDeterministicEngine: the backend's answer, or the local patterns where it
\* cannot be reached, refuses or cannot be parsed.
DeterministicReturns(b) ==
    /\ block[b].det = Unfinished
    /\ \E fs \in BackendAnswers \cup { LocalScan(hits) : hits \in PatternHits } :
          block' = [block EXCEPT ![b].det = fs]
    /\ UNCHANGED <<allFindings, llmErrCount, scanOutcome, checked>>

\* ParseLLMFindings: an answer without an array, or with one that does not parse, has
\* no findings.
ParseLLMFindings(answer) == IF answer = Unparsable THEN <<>> ELSE answer

\* runLLMEngine: an error, or findings; an answer without any counts as one finding.
LLMReturns(b) ==
    /\ block[b].llm = Unfinished
    /\ \/ block' = [block EXCEPT ![b].llm = Failed]
       \/ \E answer \in LLMAnswers \cup { Unparsable } :
             LET fs == ParseLLMFindings(answer) IN
             block' = [block EXCEPT ![b].llm =
                IF fs = <<>> THEN << Finding("analysis", "info") >> ELSE fs]
    /\ UNCHANGED <<allFindings, llmErrCount, scanOutcome, checked>>

\* Analyze after both engines, and the lock section of analyzeAndVerdict.
MergeBlock(b) ==
    LET p == block[b]
        failed == p.llm = Failed
        found == MergeFindings(p.det, IF failed THEN <<>> ELSE p.llm)
    IN  /\ p.det # Unfinished /\ p.llm # Unfinished /\ ~p.merged
        /\ block' = [block EXCEPT ![b].merged = TRUE]
        /\ allFindings' = allFindings \cup found
        /\ llmErrCount' = IF failed THEN llmErrCount + 1 ELSE llmErrCount
        /\ UNCHANGED <<scanOutcome, checked>>

\* After wg.Wait.
ComputeOutcome ==
    /\ \A b \in Blocks : block[b].merged
    /\ scanOutcome.verdict = "pending"
    /\ \E v \in Verdicts({ f.sev : f \in allFindings }) :
          scanOutcome' = [verdict |-> v,
              unavailable |-> llmErrCount >= Cardinality(Blocks) /\ allFindings = {}]
    /\ UNCHANGED <<block, allFindings, llmErrCount, checked>>

--------------------------------------------------------------------------------
(* The analysers                                                            *)

\* The rules of builtinRules by the sections of its table: category and severity.
InjectionRules == ({ "injection" } \X { "critical", "high", "medium" }) \cup ({ "xss" } \X { "high", "medium" })
PythonRules == { <<"injection", "critical">>, <<"deserialization", "high">>,
                 <<"ssrf", "high">>, <<"path_traversal", "high">> }
SecretsRules == { <<"secrets", "critical">> }
CryptoRules == { "crypto" } \X { "critical", "high", "medium" }
PathRules == { "path_traversal" } \X { "high", "medium" }
SSRFRules == { "ssrf" } \X { "high", "medium" }
DeserializationRules == { "deserialization" } \X { "critical", "high", "medium" }
DisclosureRules == { <<"info_disclosure", "medium">> }
PermissionRules == { "permissions" } \X { "critical", "high", "low" }
QualityRules == { "quality" } \X { "high", "medium" }
BuiltinRules == UNION { InjectionRules, PythonRules, SecretsRules, CryptoRules, PathRules, SSRFRules,
    DeserializationRules, DisclosureRules, PermissionRules, QualityRules }

\* What a file's name says of it; "testdir" is below a directory of tests.
FileKinds == { "plain", "test", "testdir", "testdata", "example", "doc", "generated" }
IsTestFile(file) == file \in { "test", "testdir" }

\* A finding of one analyser.  Rules of different tools have different names.
Reported(tool, cat, sev, place) ==
    [rule |-> <<tool, cat, sev>>, by |-> { tool }, cat |-> cat, sev |-> sev, place |-> place]

\* BuiltinAnalyzer.Analyze: a rule that matches a line, or none that does.
BuiltinFinds(file, place) ==
    { {} } \cup
    { { Reported("builtin", r[1], r[2], place) } : r \in
        { x \in BuiltinRules : /\ file # "generated" /\ ~place.nosec
                              /\ IsTestFile(file) => SeverityRank[x[2]] > SeverityRank["low"] } }

\* BanditAnalyzer.Analyze, for python or where no language is given.
BanditFinds(place) ==
    { {} } \cup { { Reported("bandit", "test", sev, place) } : sev \in ToolLevels }

\* SemgrepAnalyzer.Analyze.
SemgrepFinds(place) ==
    { {} } \cup { { Reported("semgrep", "security", sev, place) } : sev \in ToolLevels }

\* Confidence in thousandths; 0.30 + 0.15 is just below 0.45 in float64.
BaseConfidence == [critical |-> 650, high |-> 550, medium |-> 400, low |-> 300, info |-> 200]
AnalyzerWeight(by) ==
    IF by = { "builtin" } THEN 0 ELSE IF "builtin" \in by THEN 100 ELSE 150
ContextPenalty == [plain |-> 0, test |-> 150, testdir |-> 0, testdata |-> 0, example |-> 200,
                   doc |-> 300, generated |-> 0]
SnippetConfidence == [literal |-> 50, declaration |-> -50, other |-> 0]
Clamp(c) == IF c < 50 THEN 50 ELSE IF c > 990 THEN 990 ELSE c

Confidence(sev, by) ==
    IF sev = "low" /\ AnalyzerWeight(by) = 150 /\ Cardinality(by) = 1 THEN 449
    ELSE Clamp(BaseConfidence[sev] + AnalyzerWeight(by) + (IF Cardinality(by) >= 2 THEN 250 ELSE 0))
ConfidenceWithFile(f, file) ==
    Clamp(Confidence(f.sev, f.by) - ContextPenalty[file] + SnippetConfidence[f.place.snippet])

\* suppressTestFP; the comparison of severities as strings holds for every one of them.
SuppressTestFP(f) ==
    IF f.cat \in { "secrets", "injection" } /\ f.by = { "builtin" }
    THEN [f EXCEPT !.sev = IF f.cat = "secrets" THEN "info" ELSE "low", !.conf = Clamp(@ - 200)]
    ELSE IF f.cat = "crypto" THEN [f EXCEPT !.conf = Clamp(@ - 150)] ELSE f

\* Findings of one fingerprint (the rule and the line) are one, as severe as the worst.
ByFingerprint(raw) ==
    { LET same == { g \in raw : g.rule = f.rule /\ g.place = f.place }
          worst == CHOOSE g \in same : \A h \in same : SeverityRank[g.sev] >= SeverityRank[h.sev]
      IN  [f EXCEPT !.by = UNION { g.by : g \in same }, !.sev = worst.sev] : f \in raw }

\* mergeScoreAndFilter.
MergeScoreAndFilter(raw, file) ==
    LET scored == { [rule |-> f.rule, by |-> f.by, cat |-> f.cat, sev |-> f.sev, place |-> f.place,
                     conf |-> ConfidenceWithFile(f, file)] : f \in ByFingerprint(raw) }
        judged == { IF IsTestFile(file) THEN SuppressTestFP(f) ELSE f : f \in scored }
    IN  { f \in judged : file # "testdata" /\ f.conf >= 300 }

\* Engine.Run without the tools that are missing or fail; a marked line has no findings.
RunEngine(raw, lost, file) ==
    { f \in MergeScoreAndFilter({ g \in raw : g.by \cap lost = {} }, file) : ~f.place.nosec }

--------------------------------------------------------------------------------
(* The endpoints                                                            *)

Deduction == [critical |-> 25, high |-> 15, medium |-> 10, low |-> 5, info |-> 0]
Deducted(count) ==
    Deduction.critical * count.critical + Deduction.high * count.high
        + Deduction.medium * count.medium + Deduction.low * count.low
ScoreFrom(points) == IF points > 100 THEN 0 ELSE 100 - points

\* How many findings of a set, and of a list, have each severity.
CountOf(fs) == [sev \in DOMAIN Deduction |-> Cardinality({ f \in fs : f.sev = sev })]
CountIn(list) == [sev \in DOMAIN Deduction |-> Cardinality({ i \in DOMAIN list : list[i].sev = sev })]

\* gradeFromFindings.
GradeFromFindings(fs) == ScoreFrom(Deducted(CountOf(fs)))

\* The score of deepAnalyzeHandler, over the findings of both engines in one list.
DeepScore(det, llm) == ScoreFrom(Deducted(CountOf(det)) + Deducted(CountIn(llm)))

\* scanHandler.
ScanHandler ==
    /\ checked.at = "new"
    /\ \E file \in FileKinds, place \in Places :
       \E x \in BuiltinFinds(file, place), y \in BanditFinds(place), z \in SemgrepFinds(place) :
          LET raw == x \cup y \cup z IN
          checked' = [checked EXCEPT !.at = "scanned", !.file = file, !.raw = raw,
                                     !.scanScore = GradeFromFindings(RunEngine(raw, {}, file))]
    /\ UNCHANGED gatewayVars

\* The tools the code has findings of, which may fail.
Fallible == (UNION { f.by : f \in checked.raw }) \ { "builtin" }

\* deepAnalyzeHandler for the same code: the goroutine of the scanner engine, whose
\* tools may fail this time.
DeepScans ==
    /\ checked.at = "scanned"
    /\ \E lost \in SUBSET Fallible :
          checked' = [checked EXCEPT !.at = "deep", !.lost = lost,
                                     !.det = RunEngine(checked.raw, lost, checked.file)]
    /\ UNCHANGED gatewayVars

\* The goroutine of the model, before or after: no router or an error, an answer that
\* does not parse and becomes one finding, or findings.
DeepAsks ==
    /\ checked.at \in { "scanned", "deep" } /\ checked.llm = Unfinished
    /\ \E answer \in DeepAnswers \cup { Failed, << Finding("analysis", "info") >> } :
          checked' = [checked EXCEPT !.llm = answer]
    /\ UNCHANGED gatewayVars

\* After wg.Wait: the two lists, the score and the grade.
DeepAnswer ==
    /\ checked.at = "deep" /\ checked.llm # Unfinished
    /\ checked' = [checked EXCEPT !.at = "answered",
          !.score = DeepScore(checked.det, IF checked.llm = Failed THEN <<>> ELSE checked.llm)]
    /\ UNCHANGED gatewayVars

\* The trigger is the message of the finding's rule.
NormalizeTrigger(f) == f.rule

\* Each finding is one more use of the skill with its trigger, which may be a new one.
ExtractFromFindings(found, skills) ==
    [t \in DOMAIN skills \cup { NormalizeTrigger(f) : f \in found } |->
        Cardinality({ f \in found : NormalizeTrigger(f) = t })
            + (IF t \in DOMAIN skills THEN skills[t] ELSE 0)]

\* A scan, then the skills of its findings; the layers of runPipeline between them do
\* not look at the code.
RunMiddlewarePipeline(lost) ==
    LET found == RunEngine(checked.raw, lost, checked.file) IN
    [checked EXCEPT !.at = "processed",
                    !.processed = Append(@, [found |-> found, lost |-> lost]),
                    !.skills = ExtractFromFindings(found, @)]

\* Calls of /middleware/process for one piece of code.
MaxProcessed == 2

\* middlewareProcessHandler for the scanned code, in place of /deep-analyze.
MiddlewareProcess ==
    /\ \/ checked.at = "scanned" /\ checked.llm = Unfinished
       \/ checked.at = "processed" /\ Len(checked.processed) < MaxProcessed
    /\ \E lost \in SUBSET Fallible : checked' = RunMiddlewarePipeline(lost)
    /\ UNCHANGED gatewayVars

GatewayNext ==
    \/ \E b \in Blocks : DeterministicReturns(b) \/ LLMReturns(b) \/ MergeBlock(b)
    \/ ComputeOutcome

EndpointsNext == ScanHandler \/ DeepScans \/ DeepAsks \/ DeepAnswer \/ MiddlewareProcess

--------------------------------------------------------------------------------
(* Properties                                                               *)

Covered(f) == \E g \in allFindings :
    g.cat = f.cat /\ SeverityRank[g.sev] >= SeverityRank[f.sev]

\* The model's answer takes nothing off the score.
NothingScored(llm) == llm = Failed \/ \A i \in DOMAIN llm : llm[i].sev = "info"

\* mergeScoreAndFilter, Engine.Run, scanHandler, deepAnalyzeHandler: a critical finding of
\* an analyser that answered is in the report as critical, whatever the others do, but for
\* marked lines, fixtures and what the builtin rules find in tests; and the same code
\* has the same score at both endpoints unless the model adds to it, or a tool that
\* answered one of them failed for the other.  The skills middlewareProcessHandler has
\* learnt are of the findings it made, each used as often as it was found, and a call in
\* which no tool failed finds what was graded.
ScansAgree ==
    /\ checked.at \in { "deep", "answered" } =>
          \A f \in checked.raw :
              (/\ f.sev = "critical" /\ ~f.place.nosec /\ checked.file # "testdata"
               /\ ~(IsTestFile(checked.file) /\ f.cat \in { "secrets", "injection" }))
              => \E g \in checked.det : g.rule = f.rule /\ g.sev = "critical"
    /\ (checked.at = "answered" /\ checked.lost = {}) =>
          /\ checked.score <= checked.scanScore
          /\ NothingScored(checked.llm) => checked.score = checked.scanScore
    /\ \A i \in DOMAIN checked.processed : LET call == checked.processed[i] IN
          call.lost = {} => GradeFromFindings(call.found) = checked.scanScore
    /\ DOMAIN checked.skills = { f.rule : f \in UNION { call.found : call \in ToSet(checked.processed) } }
    /\ \A t \in DOMAIN checked.skills : checked.skills[t] = Cardinality(
          { i \in DOMAIN checked.processed : \E f \in checked.processed[i].found : f.rule = t })

\* MergeFindings, DeduplicateFindings, analyzeAndVerdict: no finding of the scanners is
\* lost or weakened on its way to the verdict, whatever the model says of the same
\* category and however the goroutines end; a finding of the model is lost only behind
\* an earlier one of its own category; and the scanners count
\* as unavailable when no model answered and nothing at all was found.
FindingsSurvive ==
    /\ ScansAgree
    /\ scanOutcome.verdict # "pending" =>
        /\ \A b \in Blocks : \A i \in DOMAIN block[b].det : Covered(block[b].det[i])
        /\ \A b \in Blocks : block[b].llm # Failed =>
              \A i \in DOMAIN block[b].llm :
                  \/ Covered(block[b].llm[i])
                  \/ \E j \in 1 .. i - 1 : block[b].llm[j].cat = block[b].llm[i].cat
        /\ scanOutcome.unavailable <=>
              \A b \in Blocks : block[b].llm = Failed /\ block[b].det = <<>>
================================================================================
