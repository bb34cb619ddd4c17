--------------------------- MODULE ReviewPipeline ---------------------------
(***************************************************************************)
(* The Shift-Zero review (internal/pipeline/review.go): the main LLM writes *)
(* code, the deterministic engine and the validation layers look for        *)
(* issues, five reviewer roles judge (in one call, or in five concurrent    *)
(* ones when that call fails), the evidence is scored, and unless the       *)
(* caller asked for suggestions the code is rewritten and scanned again at  *)
(* most twice.  A version of the code is the number of rewrites behind it.  *)
(***************************************************************************)
EXTENDS Integers, FiniteSets

CONSTANTS Roles, MaxFixes

ASSUME ReviewAssumption == IsFiniteSet(Roles) /\ MaxFixes \in Nat

ReviewModes == {"rewrite", "suggest", "deterministic"}
Severities == {"critical", "medium", "low"}
RoleVerdicts == {"pass", "warn", "fail"}

VARIABLES
    reviewStage,    \* the stage Run is in
    mode,           \* SuggestionMode / DeterministicOnly / neither
    version,        \* the code in mainResponse
    scan,           \* the last scan: the version it looked at and what it found
    verdict,        \* per role, "none" before it answered
    pointed,        \* per role, the line its finding is about, 0 for no line
    llmCalls,       \* calls made to the model router
    report          \* the ReviewReport being filled

reviewVars == <<reviewStage, mode, version, scan, verdict, pointed, llmCalls, report>>

\* The line a finding of each severity is on in the code of the model, and the lines
\* a reviewer may point at: none, and one close to the first two findings.  Where the
\* code is going to be rewritten nothing looks at the reviewers' lines again.
LineOf == [critical |-> 1, medium |-> 4, low |-> 9]
PointedLines == IF mode = "suggest" THEN {0, 3} ELSE {0}

ReviewInit ==
    /\ reviewStage = "main"
    /\ mode \in ReviewModes
    /\ version = 0
    /\ scan = [of |-> 0, found |-> {}]
    /\ verdict = [r \in Roles |-> "none"]
    /\ pointed = [r \in Roles |-> 0]
    /\ llmCalls = 0
    /\ report = [findings |-> {}, suggestions |-> {}, failed |-> FALSE,
                 resolved |-> FALSE, retries |-> 0, output |-> -1]

----------------------------------------------------------------------------
\* engine.Run: what the analyzers find in the code; one that fails or is not
\* installed finds nothing.
Scanned(found) == scan' = [of |-> version, found |-> found]
FindingsOf(v, found) == {<<v, s>> : s \in found}

\* Stage 1.  Code in the request is used as it is, and so is the prompt in
\* deterministic mode; otherwise the main LLM writes it.
UseGiven ==
    /\ reviewStage = "main"
    /\ reviewStage' = "scan"
    /\ UNCHANGED <<mode, version, scan, verdict, pointed, llmCalls, report>>

RunMainLLM(ok) ==
    /\ reviewStage = "main" /\ mode # "deterministic"
    /\ llmCalls' = llmCalls + 1
    /\ reviewStage' = IF ok THEN "scan" ELSE "failed"
    /\ UNCHANGED <<mode, version, scan, verdict, pointed, report>>

\* Stage 2.  The scan, then the validation layers: a layer that does not pass
\* adds its reasons to the findings.
ScanCode(found, reasons) ==
    /\ reviewStage = "scan"
    /\ Scanned(found)
    /\ report' = [report EXCEPT !.findings = FindingsOf(version, found \cup reasons)]
    /\ reviewStage' = IF mode = "deterministic" THEN "score" ELSE "review"
    /\ UNCHANGED <<mode, version, verdict, pointed, llmCalls>>

NormalizeRoleName(labels) == labels \cap Roles

\* Stage 3.  One call plays every role; the roles it names are recorded and
\* the unknown ones dropped.  An error, or an answer that does not parse or
\* names no role, falls back to one call per role.
SingleCall(answers, line) ==
    LET named == NormalizeRoleName(DOMAIN answers) IN
    /\ reviewStage = "review" /\ named # {}
    /\ llmCalls' = llmCalls + 1
    /\ verdict' = [r \in Roles |-> IF r \in named THEN answers[r] ELSE "none"]
    /\ pointed' = [r \in Roles |-> IF r \in named THEN line ELSE 0]
    /\ reviewStage' = "score"
    /\ UNCHANGED <<mode, version, scan, report>>

SingleCallFails ==
    /\ reviewStage = "review"
    /\ llmCalls' = llmCalls + 1
    /\ reviewStage' = "parallel"
    /\ UNCHANGED <<mode, version, scan, verdict, pointed, report>>

\* What a reviewer's prose says: its verdict line, and whether it has words of alarm,
\* of reassurance and of warning.  A line that says pass does not end the reading.
Prose == [line : RoleVerdicts \cup {"none"}, alarm : BOOLEAN, calm : BOOLEAN, warning : BOOLEAN]

ParseReviewerOutput(a) ==
    IF a.line \in {"fail", "warn"} THEN a.line
    ELSE IF a.alarm /\ ~a.calm THEN "fail"
    ELSE IF a.warning THEN "warn" ELSE "pass"

\* A reviewer goroutine returns, at the latest when its 30 s are over.
ReviewerReturns(r, answer) ==
    /\ reviewStage = "parallel" /\ verdict[r] = "none"
    /\ llmCalls' = llmCalls + 1
    /\ verdict' = [verdict EXCEPT ![r] = answer]
    /\ UNCHANGED <<reviewStage, mode, version, scan, pointed, report>>

\* wg.Wait: every goroutine has appended its output.
ReviewersDone ==
    /\ reviewStage = "parallel" /\ \A r \in Roles : verdict[r] # "none"
    /\ reviewStage' = "score"
    /\ UNCHANGED <<mode, version, scan, verdict, pointed, llmCalls, report>>

\* Every finding with a line becomes a suggestion, the scanner's first; a reviewer's
\* is corroborated by a finding of the scanner at most two lines away.
Near(l) == \E s \in scan.found : LineOf[s] - l \in -2 .. 2

BuildSuggestions ==
    {[role |-> "deterministic", line |-> LineOf[s], of |-> scan.of, corroborated |-> FALSE] :
        s \in scan.found}
    \cup {[role |-> r, line |-> pointed[r], of |-> scan.of, corroborated |-> Near(pointed[r])] :
        r \in {q \in Roles : pointed[q] # 0}}

\* Critical and high findings and failing reviewers are failing evidence.
AggregateEvidence ==
    {IF s = "critical" THEN "fail" ELSE IF s = "medium" THEN "warn" ELSE "pass" : s \in scan.found}
    \cup {verdict[r] : r \in Roles}

\* The services of the built-in rules and the controls each must come with.
RequiredControls ==
    [payment |-> {"audit log", "encryption", "rate limiting", "fraud detection"},
     auth |-> {"session management", "mfa", "password policy"},
     admin |-> {"access control", "audit log", "mfa"},
     database |-> {"encryption at rest", "backup", "access control"},
     api |-> {"rate limiting", "input validation", "authentication"}]

\* The warnings about a text that mentions these services and controls.
ValidateKnowledgeGraph(services, controls) ==
    UNION {{<<s, c>> : c \in RequiredControls[s] \ controls} : s \in services}

\* Stages 4 to 8.  A knowledge graph warning is a warning among the evidence.
ScoreEvidence(services, controls) ==
    LET warns == ValidateKnowledgeGraph(services, controls) # {}
        fails == "fail" \in AggregateEvidence \cup IF warns THEN {"warn"} ELSE {}
    IN
    /\ reviewStage = "score"
    /\ report' = [report EXCEPT !.suggestions = BuildSuggestions, !.failed = fails]
    /\ reviewStage' = IF mode # "suggest" /\ fails THEN "fix" ELSE "summary"
    /\ UNCHANGED <<mode, version, scan, verdict, pointed, llmCalls>>

\* Stage 9.  runSecurityFix: an error ends the loop and keeps the code.
FixFails ==
    /\ reviewStage = "fix"
    /\ report.retries < MaxFixes
    /\ llmCalls' = llmCalls + 1
    /\ reviewStage' = "summary"
    /\ UNCHANGED <<mode, version, scan, verdict, pointed, report>>

FixCode ==
    /\ reviewStage = "fix"
    /\ report.retries < MaxFixes
    /\ llmCalls' = llmCalls + 1
    /\ version' = version + 1
    /\ report' = [report EXCEPT !.retries = @ + 1]
    /\ reviewStage' = "rescan"
    /\ UNCHANGED <<mode, scan, verdict, pointed>>

\* Mutant: the findings are replaced only when issues remain.
RescanKeepsOld(found) ==
    /\ reviewStage = "rescan"
    /\ Scanned(found)
    /\ report' = [report EXCEPT !.resolved = found = {},
                    !.findings = IF found = {} THEN @ ELSE FindingsOf(version, found)]
    /\ reviewStage' = IF found = {} THEN "summary" ELSE "fix"
    /\ UNCHANGED <<mode, version, verdict, pointed, llmCalls>>

\* The fixed code is scanned again: without findings the issues are reported
\* as resolved, with any the loop goes on.
Rescan(found) ==
    /\ reviewStage = "rescan"
    /\ Scanned(found)
    /\ report' = [report EXCEPT !.resolved = found = {}, !.findings = FindingsOf(version, found)]
    /\ reviewStage' = IF found = {} THEN "summary" ELSE "fix"
    /\ UNCHANGED <<mode, version, verdict, pointed, llmCalls>>


FixesUsedUp ==
    /\ reviewStage = "fix" /\ report.retries >= MaxFixes
    /\ reviewStage' = "summary"
    /\ UNCHANGED <<mode, version, scan, verdict, pointed, llmCalls, report>>

BuildSummary ==
    /\ reviewStage = "summary"
    /\ report' = [report EXCEPT !.output = version]
    /\ reviewStage' = "done"
    /\ UNCHANGED <<mode, version, scan, verdict, pointed, llmCalls>>

ReviewStep ==
    \/ UseGiven
    \/ \E ok \in BOOLEAN : RunMainLLM(ok)
    \/ \E found \in SUBSET Severities, reasons \in SUBSET {"reason"} : ScanCode(found, reasons)
    \/ \E labels \in SUBSET (Roles \cup {"unknown"}) :
          \E a \in [labels -> RoleVerdicts], l \in PointedLines : SingleCall(a, l)
    \/ SingleCallFails
    \/ \E r \in Roles : ReviewerReturns(r, "error")
    \/ \E r \in Roles, a \in Prose : ReviewerReturns(r, ParseReviewerOutput(a))
    \/ ReviewersDone
    \/ \E services \in {{}, {"auth", "api"}} : ScoreEvidence(services, {"mfa"})
    \/ FixFails \/ FixCode \/ FixesUsedUp
    \/ \E found \in SUBSET Severities : Rescan(found)
    \/ BuildSummary

ReviewSpec == ReviewInit /\ [][ReviewStep]_reviewVars

----------------------------------------------------------------------------
\* The report is about the code it returns: the last scan looked at that very
\* version, the findings are that version's, "all issues resolved" is only
\* said of a scan without findings, in suggestion mode the suggestions are on the
\* lines of the returned code and a corroborated one has a finding of the report
\* next to it, code is rewritten only after failing evidence (which a warning of
\* the knowledge graph is not), and the calls a review may cost are bounded.
ReportMatchesOutput ==
    /\ reviewStage = "done" =>
         /\ report.output = version /\ scan.of = version
         /\ \A f \in report.findings : f[1] = version
         /\ report.resolved => report.findings = {} /\ scan.found = {}
         /\ mode = "suggest" => \A s \in report.suggestions :
              /\ s.of = report.output
              /\ s.corroborated => \E f \in report.findings :
                    f[2] \in Severities /\ LineOf[f[2]] - s.line \in -2 .. 2
         /\ version > 0 => report.failed
         /\ report.retries = version
    /\ llmCalls <= 2 + Cardinality(Roles) + MaxFixes

\* A review ends: with a report, or with the error of the main LLM.
ReviewEnds == <>(reviewStage \in {"done", "failed"})

=============================================================================
