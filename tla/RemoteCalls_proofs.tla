--------------------------- MODULE RemoteCalls_proofs ---------------------------
(***************************************************************************)
(* What is left of calls to somebody else's process when it fails.         *)
(*                                                                         *)
(* The circuit breaker's safety properties for any number of callers and   *)
(* any threshold.  TypeOK, HalfOpenHasProbe and CountMatchesState are      *)
(* inductive together and not one by one: that a returning call leaves the *)
(* half-open state needs the failure count to be at the threshold, and the *)
(* count stays there because only a success resets it.                     *)
(*                                                                         *)
(* The editor's automatic review and its MCP client, for any edits, any    *)
(* number of calls and of starts: what a late result, answer or exit finds *)
(* is told from what is current by a version or an id that is used once.   *)
(***************************************************************************)
EXTENDS MCRemoteCalls, FiniteSetTheorems, SequenceTheorems, TLAPS

--------------------------------------------------------------------------------
(* The circuit breaker *)

Inv == TypeOK /\ HalfOpenHasProbe /\ CountMatchesState

\* What the lock sections return is a breaker (circuit_breaker.go:46-107).
LEMMA BreakerTyping ==
    ASSUME NEW b \in Breakers
    PROVE  /\ Admitted(b) \in Breakers
           /\ Failed(b) \in Breakers
           /\ Succeeded(b) \in Breakers
           /\ ResetBreaker(b) \in Breakers
  <1>1. /\ b.state \in { "closed", "open", "halfopen" }
        /\ b.failCount \in 0 .. MaxFails
        /\ b.probes \in { 0, 1 }
    BY DEF Breakers
  <1>2. Count(b.failCount) \in 0 .. MaxFails
    BY <1>1, ThresholdAssumption DEF Count
  <1> QED
    BY <1>1, <1>2, ThresholdAssumption
    DEF Breakers, Admitted, Failed, Succeeded, ResetBreaker

\* One more failure reaches the threshold from Threshold - 1 on, and a count at
\* the threshold stays there (circuit_breaker.go:76-81).
LEMMA CountReaches ==
    ASSUME NEW n \in 0 .. MaxFails
    PROVE  /\ Count(n) \in 0 .. MaxFails
           /\ n >= Threshold => Count(n) >= Threshold
  BY ThresholdAssumption DEF Count

\* A new breaker is closed with no failures (circuit_breaker.go:34-41).
LEMMA InitInv == Init => Inv
  BY ThresholdAssumption
  DEF Init, Inv, TypeOK, HalfOpenHasProbe, CountMatchesState, NewBreaker, Breakers

\* Every lock section and the passing of the timeout keep the invariant.
LEMMA NextInv == Inv /\ [Next]_vars => Inv'
  <1> SUFFICES ASSUME Inv, [Next]_vars PROVE Inv'
    OBVIOUS
  <1> USE DEF Inv
  <1>0. /\ cb \in Breakers
        /\ cb.state \in { "closed", "open", "halfopen" }
        /\ cb.failCount \in 0 .. MaxFails
        /\ Count(cb.failCount) \in 0 .. MaxFails
        /\ cb.failCount >= Threshold => Count(cb.failCount) >= Threshold
    BY CountReaches DEF TypeOK, Breakers
  <1>1. ASSUME NEW k \in Callers, Enter(k) PROVE Inv'
    <2>1. TypeOK'
      BY <1>0, <1>1, BreakerTyping DEF Enter, TypeOK
    <2>2. cb'.state = "halfopen" => cb'.probes = 1 /\ prober' = k /\ cb.state # "closed"
      BY <1>0, <1>1 DEF Enter, Admitted, Breakers
    <2>3. HalfOpenHasProbe'
      BY <1>1, <2>2 DEF Enter, HalfOpenHasProbe
    <2>4. /\ cb'.failCount = cb.failCount
          /\ cb'.state = "closed" <=> cb.state = "closed"
      BY <1>0, <1>1 DEF Enter, Admitted, Breakers
    <2>5. CountMatchesState'
      BY <2>4 DEF CountMatchesState
    <2> QED
      BY <2>1, <2>3, <2>5
  <1>2. ASSUME NEW k \in Callers, ExitFailure(k) PROVE Inv'
    <2>1. cb' \in Breakers
      BY <1>0, <1>2, BreakerTyping DEF ExitFailure
    <2>2. TypeOK'
      BY <1>2, <2>1 DEF ExitFailure, TypeOK
    <2>3. /\ cb'.failCount = Count(cb.failCount)
          /\ cb'.state = IF Count(cb.failCount) >= Threshold THEN "open" ELSE cb.state
      BY <1>0, <1>2 DEF ExitFailure, Failed, Breakers
    <2>4. cb'.state # "halfopen"
      BY <1>0, <2>3, ThresholdAssumption DEF CountMatchesState
    <2>5. CountMatchesState'
      BY <1>0, <2>3, ThresholdAssumption DEF CountMatchesState
    <2> QED
      BY <2>2, <2>4, <2>5 DEF HalfOpenHasProbe
  <1>3. ASSUME NEW k \in Callers, ExitSuccess(k) PROVE Inv'
    <2>1. TypeOK'
      BY <1>0, <1>3, BreakerTyping, ThresholdAssumption DEF ExitSuccess, TypeOK
    <2>2. \/ cb.state = "halfopen" /\ cb'.state = "closed" /\ cb'.failCount = 0
          \/ cb.state # "halfopen" /\ cb' = cb
      BY <1>0, <1>3 DEF ExitSuccess, Succeeded, ResetBreaker, Breakers
    <2>3. HalfOpenHasProbe' /\ CountMatchesState'
      BY <2>2, ThresholdAssumption DEF HalfOpenHasProbe, CountMatchesState
    <2> QED
      BY <2>1, <2>3
  <1>4. ASSUME Reset PROVE Inv'
    <2>1. TypeOK'
      BY <1>0, <1>4, BreakerTyping, ThresholdAssumption DEF Reset, TypeOK
    <2>2. cb'.state = "closed" /\ cb'.failCount = 0
      BY <1>0, <1>4 DEF Reset, ResetBreaker, Breakers
    <2> QED
      BY <2>1, <2>2, ThresholdAssumption DEF HalfOpenHasProbe, CountMatchesState
  <1>5. ASSUME CoolDown PROVE Inv'
    BY <1>5 DEF CoolDown, TypeOK, HalfOpenHasProbe, CountMatchesState
  <1>6. ASSUME UNCHANGED vars PROVE Inv'
    BY <1>6 DEF vars, TypeOK, HalfOpenHasProbe, CountMatchesState
  <1> QED
    BY <1>1, <1>2, <1>3, <1>4, <1>5, <1>6 DEF Next, Exit

\* The breaker's fields keep their types, counter and probe slot included.
THEOREM TypeCorrect == Spec => []TypeOK
  <1>1. Inv => TypeOK
    BY DEF Inv
  <1> QED
    BY InitInv, NextInv, <1>1, PTL DEF Spec

(***************************************************************************)
(* circuit_breaker.go:59-90.  A half-open breaker has its probe in flight: *)
(* it can never be wedged half-open with every caller refused.             *)
(***************************************************************************)
THEOREM ProbeInFlight == Spec => []HalfOpenHasProbe
  <1>1. Inv => HalfOpenHasProbe
    BY DEF Inv
  <1> QED
    BY InitInv, NextInv, <1>1, PTL DEF Spec

(***************************************************************************)
(* circuit_breaker.go:76-89.  State and failure count agree, whichever     *)
(* calls are still returning.                                              *)
(***************************************************************************)
THEOREM StateMatchesCount == Spec => []CountMatchesState
  <1>1. Inv => CountMatchesState
    BY DEF Inv
  <1> QED
    BY InitInv, NextInv, <1>1, PTL DEF Spec

(***************************************************************************)
(* circuit_breaker.go:59.  Nobody joins the probe of a half-open period.   *)
(***************************************************************************)
THEOREM SingleProbe == Spec => OneProbe
  <1>1. Inv /\ [Next]_vars =>
            [cb.state = "halfopen" /\ cb'.state = "halfopen" =>
                prober' = prober /\ running' \subseteq running]_vars
    <2> SUFFICES ASSUME Inv, Next, cb.state = "halfopen", cb'.state = "halfopen"
                 PROVE  prober' = prober /\ running' \subseteq running
      OBVIOUS
    <2>1. cb \in Breakers /\ cb.probes = 1
      BY DEF Inv, TypeOK, HalfOpenHasProbe
    <2>2. ASSUME NEW k \in Callers, Enter(k) PROVE FALSE
      BY <2>1, <2>2 DEF Enter, Admits
    <2>3. ASSUME NEW k \in Callers, ExitFailure(k) PROVE running' \subseteq running
      BY <2>3 DEF ExitFailure
    <2>4. ASSUME NEW k \in Callers, ExitFailure(k) PROVE prober' = prober
      BY <2>4 DEF ExitFailure, IsOpen
    <2>5. ASSUME NEW k \in Callers, ExitSuccess(k) PROVE FALSE
      BY <2>1, <2>5 DEF ExitSuccess, Succeeded, ResetBreaker, Breakers
    <2>6. ASSUME Reset PROVE FALSE
      BY <2>1, <2>6 DEF Reset, ResetBreaker, Breakers
    <2> QED
      BY <2>2, <2>3, <2>4, <2>5, <2>6 DEF Next, Exit, CoolDown
  <1> QED
    BY InitInv, NextInv, <1>1, PTL DEF Spec, OneProbe

(***************************************************************************)
(* circuit_breaker.go:46-107.  The three facts together, as the run checks *)
(* them on four callers.                                                   *)
(***************************************************************************)
THEOREM BreakerAlwaysConsistent == Spec => []BreakerConsistent
  <1>1. Inv => BreakerConsistent
    BY DEF Inv, BreakerConsistent
  <1> QED
    BY InitInv, NextInv, <1>1, PTL DEF Spec

--------------------------------------------------------------------------------
(* The automatic review *)

DocFields == { "open", "life", "version", "text" }
ScanFields ==
    { "version", "text", "code", "entry", "block", "phase", "sent", "closed" }

\* A scan of the open document is of a version it had, of its text if it still has
\* that version, and not the one an armed timer is about to make.
ScanKnown(s) ==
    s.closed = "no" =>
        /\ doc.open /\ s.version <= doc.version
        /\ s.version = doc.version => s.text = doc.text
        /\ timer => sched.version # s.version

(***************************************************************************)
(* PendingKept and ShownOnScannedText rest on the versions of the scans in *)
(* flight; LabelsRight on the block that is pending with a matched entry,  *)
(* and that a scan takes along.                                            *)
(***************************************************************************)
ReviewInv ==
    /\ doc = [f \in DocFields |-> doc[f]] /\ doc.open \in BOOLEAN /\ doc.version \in Nat
    /\ registry \in Seq(Blocks)
    /\ sched = NoSchedule \/ sched.version \in Nat \ { 0 }
    /\ ~doc.open => ~timer
    /\ timer /\ sched # NoSchedule => (sched.matched => gateway # NoBlock)
    /\ \A s \in scans :
          /\ s = [f \in ScanFields |-> s[f]] /\ s.version \in Nat \ { 0 }
          /\ s.entry.matched => s.block # NoBlock
          /\ ScanKnown(s)
    /\ PendingKept /\ LabelsRight

LEMMA ReviewStart == AutoVerifyInit => ReviewInv
<1> SUFFICES ASSUME AutoVerifyInit PROVE ReviewInv
  OBVIOUS
<1>1. <<>> \in Seq(Blocks)
  BY EmptySeq
<1> QED
  BY <1>1 DEF AutoVerifyInit, ReviewInv, DocFields, PendingKept, LabelsRight, NoSchedule, NoRecord

\* An edit is a version nobody has scanned.
LEMMA EditKeeps ==
    ASSUME ReviewInv, NEW E \in EditKinds, NEW burst, NEW t, Edit(E, burst, t)
    PROVE  ReviewInv'
<1> DEFINE version == doc.version + 1
           undo == isLikelyUndoRedo(t, version)
           kept == { c \in E : ~Vetoed(c, undo) }
           matched == { c \in kept : Matches(c) }
<1>1. /\ doc.open /\ doc' = [doc EXCEPT !.version = version, !.text = t]
      /\ UNCHANGED <<registry, scans, record, sugg, dismissed, crossed>>
  BY DEF Edit, shownVars
<1>2. doc' = [f \in DocFields |-> doc'[f]] /\ doc'.open = doc.open /\ doc'.version = doc.version + 1
  BY <1>1 DEF ReviewInv, DocFields
<1>3. \/ UNCHANGED <<gateway, sched, timer>>
      \/ CancelPending
      \/ /\ gateway' \in IF matched = {} THEN { gateway } ELSE { c.block : c \in matched }
         /\ timer' = TRUE /\ sched'.version = version /\ sched'.matched = (matched # {})
      \/ matched = {} /\ gateway' = gateway /\ UNCHANGED <<sched, timer>>
  <2>1. CASE ~enabled
    BY <2>1 DEF Edit
  <2>2. CASE enabled
    <3>1. /\ gateway' \in IF matched = {} THEN { gateway } ELSE { c.block : c \in matched }
          /\ IF matched # {} \/ \E c \in kept : ScanWorthy(c, burst)
             THEN /\ timer' = TRUE
                  /\ sched' = [version |-> version, region |-> regionFromChanges(E),
                               inserted |-> Inserted(E), matched |-> matched # {}]
             ELSE IF kept # E THEN CancelPending ELSE UNCHANGED <<sched, timer>>
      BY <2>2 DEF Edit
    <3> HIDE DEF matched, kept, version
    <3> QED
      BY <3>1
  <2> QED
    BY <2>1, <2>2
<1>4. \A c \in matched : c.block # NoBlock
  BY AutoVerifyAssumption DEF Matches, ReviewInv
<1> HIDE DEF matched
<1>5. CASE UNCHANGED <<gateway, sched, timer>> \/ CancelPending
  <2>1. timer' => timer /\ UNCHANGED <<gateway, sched>>
    BY <1>5 DEF CancelPending
  <2>2. sched' = NoSchedule \/ sched' = sched
    BY <1>5 DEF CancelPending
  <2>3. ASSUME NEW s \in scans PROVE ScanKnown(s)'
    <3>1. ScanKnown(s) /\ s.version \in Nat /\ doc.version \in Nat
      BY DEF ReviewInv
    <3>2. s.closed = "no" => doc.open /\ s.version <= doc.version /\ s.version # doc.version + 1
      BY <3>1 DEF ScanKnown
    <3> QED
      BY <1>1, <1>2, <2>1, <3>1, <3>2 DEF ScanKnown
  <2>4. PendingKept' /\ LabelsRight'
    BY <1>1, <2>1 DEF ReviewInv, PendingKept, LabelsRight
  <2>5. timer' /\ sched' # NoSchedule => (sched'.matched => gateway' # NoBlock)
    BY <2>1 DEF ReviewInv
  <2>6. ~doc'.open => ~timer'
    BY <1>1, <1>2
  <2>7. sched' = NoSchedule \/ sched'.version \in Nat \ { 0 }
    BY <2>2 DEF ReviewInv
  <2>8. /\ doc' = [f \in DocFields |-> doc'[f]] /\ doc'.open \in BOOLEAN /\ doc'.version \in Nat
        /\ registry' \in Seq(Blocks)
    <3>1. doc.open \in BOOLEAN /\ doc.version \in Nat /\ registry \in Seq(Blocks)
      BY DEF ReviewInv
    <3>2. doc' = [f \in DocFields |-> doc'[f]]
      BY <1>2
    <3>3. doc'.version \in Nat
      BY <1>2, <3>1
    <3>4. doc'.open \in BOOLEAN
      BY <1>2, <3>1
    <3>5. registry' = registry
      BY <1>1
    <3> QED
      BY <3>1, <3>2, <3>3, <3>4, <3>5
  <2>9. ASSUME NEW x \in scans'
        PROVE  /\ x = [f \in ScanFields |-> x[f]] /\ x.version \in Nat \ { 0 }
               /\ x.entry.matched => x.block # NoBlock
               /\ ScanKnown(x)'
    BY <1>1, <2>3 DEF ReviewInv
  <2> QED
    BY <2>4, <2>5, <2>6, <2>7, <2>8, <2>9 DEF ReviewInv
<1>6. CASE /\ gateway' \in IF matched = {} THEN { gateway } ELSE { c.block : c \in matched }
           /\ timer' = TRUE /\ sched'.version = version /\ sched'.matched = (matched # {})
  <2>1. sched'.matched => gateway' # NoBlock
    BY <1>4, <1>6
  <2>2. sched' # NoSchedule /\ sched'.version \in Nat \ { 0 }
    BY <1>6 DEF NoSchedule, ReviewInv
  <2>3. ASSUME NEW s \in scans PROVE ScanKnown(s)'
    <3>1. s.version \in Nat /\ (s.closed = "no" => s.version <= doc.version) /\ doc.version \in Nat
      BY DEF ReviewInv, ScanKnown
    <3>2. s.closed = "no" => s.version # doc.version + 1
      BY <3>1
    <3> QED
      BY <1>1, <1>2, <1>6, <3>1, <3>2 DEF ScanKnown
  <2>4. PendingKept' /\ LabelsRight'
    BY <1>1, <2>2 DEF ReviewInv, PendingKept, LabelsRight
  <2> QED
    BY <1>1, <1>2, <1>6, <2>1, <2>2, <2>3, <2>4 DEF ReviewInv
<1> QED
  BY <1>3, <1>5, <1>6

\* The timer fires: its entry becomes a scan.
LEMMA AnalyzeKeeps == ASSUME ReviewInv, Analyze PROVE ReviewInv'
<1>1. /\ timer /\ timer' = FALSE
      /\ UNCHANGED <<doc, registry, sched, record, sugg, dismissed, crossed>>
  BY DEF Analyze, shownVars
<1> DEFINE n == [version |-> doc.version, text |-> doc.text, code |-> LinesOf(sched.region),
                 entry |-> sched, block |-> gateway, phase |-> "verify", sent |-> healed,
                 closed |-> "no"]
<1>2. CASE scans' = scans
  BY <1>1, <1>2 DEF ReviewInv, ScanKnown, PendingKept, LabelsRight
<1>3. CASE sched # NoSchedule /\ doc.version = sched.version /\ scans' = scans \cup { n }
  <2>1. doc'.open /\ n.version <= doc'.version /\ n.text = doc'.text /\ ~timer'
    BY <1>1 DEF ReviewInv
  <2>2. n = [f \in ScanFields |-> n[f]] /\ n.version \in Nat \ { 0 } /\ (n.entry.matched => n.block # NoBlock)
    BY <1>1, <1>3 DEF ReviewInv, ScanFields
  <2> HIDE DEF n
  <2>3. ASSUME NEW s \in scans PROVE ScanKnown(s)'
    BY <1>1 DEF ReviewInv, ScanKnown
  <2>4. PendingKept' /\ LabelsRight'
    BY <1>1 DEF ReviewInv, PendingKept, LabelsRight
  <2>5. /\ doc' = [f \in DocFields |-> doc'[f]] /\ doc'.open \in BOOLEAN /\ doc'.version \in Nat
        /\ registry' \in Seq(Blocks) /\ (sched' = NoSchedule \/ sched'.version \in Nat \ { 0 })
    BY <1>1 DEF ReviewInv
  <2>6. ASSUME NEW x \in scans'
        PROVE  /\ x = [f \in ScanFields |-> x[f]] /\ x.version \in Nat \ { 0 }
               /\ x.entry.matched => x.block # NoBlock
               /\ ScanKnown(x)'
    <3>1. CASE x = n
      BY <2>1, <2>2, <3>1 DEF ScanKnown
    <3>2. CASE x \in scans
      BY <2>3, <3>2 DEF ReviewInv
    <3> QED
      BY <1>3, <3>1, <3>2
  <2> QED
    BY <1>1, <2>4, <2>5, <2>6 DEF ReviewInv
<1> QED
  BY <1>2, <1>3 DEF Analyze

\* A scan ends.
LEMMA FinallyKeeps ==
    ASSUME ReviewInv, NEW s \in scans, Finally(s), UNCHANGED <<doc, registry, gateway, timer>>,
           LabelsRight'
    PROVE  ReviewInv'
<1>1. scans' \subseteq scans /\ (sched' = sched \/ sched' = NoSchedule)
  BY DEF Finally
<1>2. ASSUME NEW x \in scans PROVE ScanKnown(x)'
  BY <1>1 DEF ReviewInv, ScanKnown, NoSchedule
<1>3. PendingKept'
  <2>1. CASE OwnsEntry(s) /\ timer
    <3>1. s.closed # "no"
      BY <2>1 DEF ReviewInv, ScanKnown, OwnsEntry
    <3> QED
      BY <2>1, <3>1 DEF Finally, PendingKept
  <2>2. CASE ~(OwnsEntry(s) /\ timer)
    BY <2>2 DEF Finally, PendingKept, ReviewInv
  <2> QED
    BY <2>1, <2>2
<1> QED
  BY <1>1, <1>2, <1>3 DEF ReviewInv

\* A request is sent once more, or to the other endpoint.
LEMMA ScanGoesOn ==
    ASSUME ReviewInv, NEW s \in scans, NEW n,
           n = [s EXCEPT !.sent = n.sent, !.phase = n.phase], scans' = (scans \ { s }) \cup { n },
           UNCHANGED <<doc, registry, gateway, timer, sched, crossed, shownVars>>
    PROVE  ReviewInv'
<1>1. /\ n = [f \in ScanFields |-> n[f]] /\ n.version = s.version /\ n.entry = s.entry
      /\ n.block = s.block /\ n.text = s.text /\ n.closed = s.closed
  <2>1. s = [f \in ScanFields |-> s[f]]
    BY DEF ReviewInv
  <2> QED
    BY <2>1 DEF ScanFields
<1>2. ScanKnown(n)'
  BY <1>1 DEF ReviewInv, ScanKnown
<1>3. ASSUME NEW x \in scans PROVE ScanKnown(x)'
  BY DEF ReviewInv, ScanKnown
<1> QED
  BY <1>1, <1>2, <1>3 DEF ReviewInv, PendingKept, LabelsRight, shownVars

\* What an ended scan shows, it shows on the text it is of.
LEMMA ScanKeeps ==
    ASSUME ReviewInv, NEW s, ScanStep(s)
    PROVE  ReviewInv' /\ ShownOnScannedText
<1>1. PICK a : VerifyReturns(s, a) \/ FallbackReturns(s, a)
  BY DEF ScanStep
<1>2. /\ s \in scans /\ UNCHANGED <<doc, registry, gateway, timer>>
  BY <1>1 DEF VerifyReturns, FallbackReturns
<1>3. CASE Resend(s, a)
  <2>1. PICK now : /\ scans' = (scans \ { s }) \cup { [s EXCEPT !.sent = now] }
                   /\ UNCHANGED <<sched, crossed, shownVars>>
    BY <1>3 DEF Resend
  <2> DEFINE n == [s EXCEPT !.sent = now]
  <2>2. n = [s EXCEPT !.sent = n.sent, !.phase = n.phase]
    BY <1>2 DEF ReviewInv, ScanFields
  <2> HIDE DEF n
  <2>3. ReviewInv'
    BY <1>2, <2>1, <2>2, ScanGoesOn DEF n
  <2> QED
    BY <2>1, <2>3 DEF ShownOnScannedText, shownVars
<1>4. CASE /\ scans' = (scans \ { s }) \cup { [s EXCEPT !.phase = "fallback", !.sent = healed] }
           /\ UNCHANGED <<sched, crossed, shownVars>>
  <2> DEFINE n == [s EXCEPT !.phase = "fallback", !.sent = healed]
  <2>2. n = [s EXCEPT !.sent = n.sent, !.phase = n.phase]
    BY <1>2 DEF ReviewInv, ScanFields
  <2> HIDE DEF n
  <2>3. ReviewInv'
    BY <1>2, <1>4, <2>2, ScanGoesOn DEF n
  <2> QED
    BY <1>4, <2>3 DEF ShownOnScannedText, shownVars
<1>5. ASSUME Finally(s), Stale(s) => diag' = diag, LabelsRight'
      PROVE  ReviewInv' /\ ShownOnScannedText
  <2>1. ReviewInv'
    BY <1>2, <1>5, FinallyKeeps
  <2>2. scans \ scans' \subseteq { s }
    BY <1>5 DEF Finally
  <2>3. s.closed = "no" /\ ~Stale(s) => doc.open /\ doc.text = s.text
    BY <1>2 DEF Stale, ReviewInv, ScanKnown
  <2> QED
    BY <1>5, <2>1, <2>2, <2>3 DEF ShownOnScannedText
<1>6. CASE Finally(s) /\ UNCHANGED dismissed /\ Stale(s) /\ UNCHANGED <<diag, sugg, record>>
  BY <1>5, <1>6 DEF ReviewInv, LabelsRight
<1>7. CASE /\ Finally(s) /\ UNCHANGED dismissed /\ ~Stale(s)
           /\ \E ids \in SUBSET SuggestionIds :
                 /\ sugg' = ids \ dismissed
                 /\ record' = [verified |-> s.block # NoBlock, matched |-> s.entry.matched]
  <2>1. s.entry.matched => s.block # NoBlock
    BY <1>2 DEF ReviewInv
  <2>2. PICK ids \in SUBSET SuggestionIds :
           /\ sugg' = ids \ dismissed
           /\ record' = [verified |-> s.block # NoBlock, matched |-> s.entry.matched]
    BY <1>7
  <2>3. record'.matched => record'.verified
    BY <2>1, <2>2
  <2>4. sugg' \cap dismissed' = {}
    BY <1>7, <2>2
  <2> QED
    BY <1>5, <1>7, <2>3, <2>4 DEF LabelsRight
<1>8. CASE /\ Finally(s) /\ UNCHANGED <<dismissed, sugg, record>>
           /\ diag' = diag \/ ~Stale(s)
  BY <1>5, <1>8 DEF ReviewInv, LabelsRight
<1>9. CASE VerifyReturns(s, a)
  <2>1. CASE Heals(s, a)
    BY <1>9, <1>3, <2>1 DEF VerifyReturns
  <2>2. CASE ~Heals(s, a) /\ a # "ok"
    BY <1>9, <1>4, <2>2 DEF VerifyReturns
  <2>3. CASE ~Heals(s, a) /\ a = "ok"
    BY <1>9, <1>6, <1>7, <2>3 DEF VerifyReturns
  <2> QED
    BY <2>1, <2>2, <2>3
<1>10. CASE FallbackReturns(s, a)
  <2>1. CASE Heals(s, a)
    BY <1>10, <1>3, <2>1 DEF FallbackReturns
  <2>2. CASE ~Heals(s, a)
    BY <1>10, <1>8, <2>2 DEF FallbackReturns
  <2> QED
    BY <2>1, <2>2
<1> QED
  BY <1>1, <1>9, <1>10

\* The document is closed, or opened again: no scan of it is in flight then.
LEMMA CloseKeeps ==
    ASSUME ReviewInv, Close \/ Open
    PROVE  ReviewInv' /\ ShownOnScannedText
<1>1. CASE Close
  <2>1. /\ doc.open /\ doc' = [doc EXCEPT !.open = FALSE] /\ timer' = FALSE /\ sched' = NoSchedule
        /\ sugg' = {} /\ UNCHANGED <<registry, record, dismissed, crossed>>
        /\ scans' = { IF s.closed # "no" THEN s
                      ELSE [s EXCEPT !.closed = IF Stale(s) THEN "stale" ELSE "fresh"] : s \in scans }
    BY <1>1 DEF Close, CancelPending
  <2>2. doc' = [f \in DocFields |-> doc'[f]] /\ doc'.open = FALSE /\ doc'.version = doc.version
    BY <2>1 DEF ReviewInv, DocFields
  <2>3. ASSUME NEW n \in scans'
        PROVE  /\ n = [f \in ScanFields |-> n[f]] /\ n.version \in Nat \ { 0 } /\ n.closed # "no"
               /\ n.entry.matched => n.block # NoBlock
    <3>1. PICK s \in scans : n = IF s.closed # "no" THEN s
                      ELSE [s EXCEPT !.closed = IF Stale(s) THEN "stale" ELSE "fresh"]
      BY <2>1
    <3>2. /\ s = [f \in ScanFields |-> s[f]] /\ s.version \in Nat \ { 0 }
          /\ s.entry.matched => s.block # NoBlock
      BY DEF ReviewInv
    <3> QED
      BY <3>1, <3>2 DEF ScanFields
  <2>4. ReviewInv'
    BY <2>1, <2>2, <2>3 DEF ReviewInv, ScanKnown, PendingKept, LabelsRight
  <2> QED
    BY <2>1, <2>2, <2>4 DEF ShownOnScannedText
<1>2. CASE Open
  <2>1. /\ ~doc.open /\ doc'.open /\ doc'.version = 1 /\ doc' = [f \in DocFields |-> doc'[f]]
        /\ doc'.open \in BOOLEAN
        /\ UNCHANGED <<registry, gateway, sched, timer, scans, dismissed, diag, sugg, record, crossed>>
    BY <1>2 DEF Open, shownVars, DocFields
  <2>2. \A s \in scans : s.closed # "no"
    BY <2>1 DEF ReviewInv, ScanKnown
  <2> QED
    BY <2>1, <2>2 DEF ReviewInv, ScanKnown, PendingKept, LabelsRight, ShownOnScannedText
<1> QED
  BY <1>1, <1>2

\* What the user does besides, and the responses of the gateway.
LEMMA OthersKeep ==
    ASSUME ReviewInv,
           \/ Configure \/ CommandReturns
           \/ \E b \in Blocks : GatewayChat(b)
           \/ \E kind \in { "verify", "scan" } : RunCommand(kind)
           \/ \E id \in SuggestionIds : Dismiss(id)
    PROVE  ReviewInv' /\ ShownOnScannedText
<1>1. UNCHANGED <<doc, gateway, sched, timer, scans, crossed>>
  BY DEF Configure, CommandReturns, GatewayChat, RunCommand, Dismiss, Move, shownVars
<1>2. registry' \in Seq(Blocks)
  <2>1. ASSUME NEW b \in Blocks, GatewayChat(b) PROVE registry' \in Seq(Blocks)
    <3> DEFINE r == <<b>> \o registry
    <3>1. r \in Seq(Blocks)
      BY DEF ReviewInv
    <3>2. registry' = SubSeq(r, 1, IF Len(r) > RegistryCap THEN RegistryCap ELSE Len(r))
      BY <2>1 DEF GatewayChat, FirstOf
    <3> HIDE DEF r
    <3> QED
      BY <3>1, <3>2, SubSeqProperties, LenProperties, AutoVerifyAssumption
  <2>2. CASE UNCHANGED registry
    BY <2>2 DEF ReviewInv
  <2> QED
    BY <2>1, <2>2 DEF Configure, CommandReturns, GatewayChat, RunCommand, Dismiss
<1>3. LabelsRight'
  <2>1. LabelsRight
    BY DEF ReviewInv
  <2>2. CASE Configure
    BY <2>1, <2>2 DEF Configure, LabelsRight
  <2>3. CASE CommandReturns
    <3>1. UNCHANGED record \/ record' = NoRecord
      BY <2>3 DEF CommandReturns
    <3>2. UNCHANGED <<sugg, dismissed>> \/ \E ids : sugg' = ids \ dismissed /\ dismissed' = dismissed
      BY <2>3 DEF CommandReturns
    <3>3. record'.matched => record'.verified
      BY <2>1, <3>1 DEF LabelsRight, NoRecord
    <3>4. sugg' \cap dismissed' = {}
      BY <2>1, <3>2 DEF LabelsRight
    <3> QED
      BY <3>3, <3>4 DEF LabelsRight
  <2>4. CASE \E b \in Blocks : GatewayChat(b)
    BY <2>1, <2>4 DEF GatewayChat, shownVars, LabelsRight
  <2>5. CASE \E kind \in { "verify", "scan" } : RunCommand(kind)
    BY <2>1, <2>5 DEF RunCommand, LabelsRight
  <2>6. ASSUME NEW id, Dismiss(id) PROVE LabelsRight'
    BY <2>1, <2>6 DEF Dismiss, LabelsRight
  <2> QED
    BY <2>2, <2>3, <2>4, <2>5, <2>6
<1> QED
  BY <1>1, <1>2, <1>3 DEF ReviewInv, ScanKnown, PendingKept, ShownOnScannedText

LEMMA ReviewKept ==
    ASSUME ReviewInv, AutoVerifyNext \/ UNCHANGED verifyVars
    PROVE  ReviewInv' /\ ShownOnScannedText
<1>1. CASE UNCHANGED verifyVars
  BY <1>1 DEF verifyVars, ReviewInv, ScanKnown, PendingKept, LabelsRight, ShownOnScannedText
<1>2. ASSUME NEW E \in EditKinds, NEW burst \in BOOLEAN, NEW t \in 0 .. MaxEdits, Edit(E, burst, t)
      PROVE  ReviewInv' /\ ShownOnScannedText
  <2>1. ReviewInv'
    BY <1>2, EditKeeps
  <2>2. scans' = scans
    BY <1>2 DEF Edit
  <2> QED
    BY <2>1, <2>2 DEF ShownOnScannedText
<1>3. CASE Analyze
  <2>1. scans \ scans' = {}
    BY <1>3 DEF Analyze
  <2> QED
    BY <1>3, <2>1, AnalyzeKeeps DEF ShownOnScannedText
<1>4. CASE AutoVerifyNext
  BY <1>2, <1>3, <1>4, ScanKeeps, CloseKeeps, OthersKeep DEF AutoVerifyNext, ReviewGoesOn
<1> QED
  BY <1>1, <1>4

--------------------------------------------------------------------------------
(* The MCP client *)

CallFields == { "st", "n", "id", "got", "tool" }
StartFields == { "st", "id", "key" }
JobFields == { "id", "who", "tool", "at", "llm" }

LineKinds == { "init", "torn", "auth", "error" } \cup { t.answer : t \in ChatTools }
Lines == [id : Nat, who : ToolCalls \cup Starts \cup { 0 }, kind : LineKinds]

\* The shape of the client's state: every update is of a field that is there.
McpShape ==
    /\ call = [c \in ToolCalls |-> call[c]] /\ start = [n \in Starts |-> start[n]]
    /\ os = [n \in Starts |-> os[n]] /\ jobs = [n \in Starts |-> jobs[n]]
    /\ out \in [Starts -> Seq(Lines)]
    /\ \A c \in ToolCalls : call[c] = [f \in CallFields |-> call[c][f]]
    /\ \A n \in Starts : start[n] = [f \in StartFields |-> start[n][f]]
    /\ \A n \in Starts : \A j \in jobs[n] : j = [f \in JobFields |-> j[f]]
    /\ started \in Nat /\ nextId \in Nat \ { 0 } /\ proc \in Starts \cup { 0 }

Waits(c) == call[c].st = "wait"
Asks(n) == start[n].st = "handshake"
OfId(c, id) == Waits(c) /\ call[c].id = id

(***************************************************************************)
(* An id is given once: what the processes still work on or have written   *)
(* under the id of a call that waits is that call's own.                   *)
(***************************************************************************)
IdsInv ==
    /\ \A c \in ToolCalls : Waits(c) => call[c].id \in 1 .. (nextId - 1) /\ call[c].n \in Starts
    /\ \A n \in Starts : Asks(n) => start[n].id \in 1 .. (nextId - 1)
    /\ \A c \in ToolCalls, n \in Starts : Asks(n) => ~OfId(c, start[n].id)
    /\ \A c \in ToolCalls : call[c].st \in { "ensure", "wait" } => call[c].tool \in ChatTools
    /\ \A n \in Starts : \A j \in jobs[n] :
          /\ j.id \in 1 .. (nextId - 1) /\ j.who \in ToolCalls /\ j.tool \in ChatTools
          /\ \A c \in ToolCalls : OfId(c, j.id) => j.who = c
    /\ \A n \in Starts : \A i \in 1 .. Len(out[n]) :
          /\ out[n][i].id < nextId
          /\ \A c \in ToolCalls : OfId(c, out[n][i].id) => out[n][i].who = c
    /\ OwnAnswer

Alive(n) == os[n] = "alive"
ReadsKeys(n) == start[n].st = "keys"
Forgotten == ready = 0 /\ ~disposed

(***************************************************************************)
(* While no handshake timed out, the client lets no living process out of  *)
(* its sight: it starts another one only when there is none, and the keys  *)
(* of one start only are being read.                                       *)
(***************************************************************************)
OneProcess ==
    /\ \A n \in Starts : Alive(n) => n = proc
    /\ \A m, n \in Starts : ReadsKeys(m) => ~Alive(n)
    /\ Forgotten => \A n \in Starts : ~Alive(n)
    /\ \A m, n \in Starts : ReadsKeys(m) /\ ReadsKeys(n) => m = n
    /\ \A m \in Starts : ReadsKeys(m) => ready = m \/ disposed
    /\ \A m \in Starts : ReadsKeys(m) \/ Forgotten => proc = 0 \/ proc \in exitSeen

\* Nor does anything wait for an answer, unless a call was repeated with another key.
NothingWaits ==
    /\ \A m \in Starts : ReadsKeys(m) \/ Forgotten =>
          (\A c \in ToolCalls : ~Waits(c)) /\ (\A n \in Starts : ~Asks(n))

McpInv ==
    /\ McpShape /\ IdsInv
    /\ ~slow => OneProcess
    /\ ~slow /\ ~fallback => NothingWaits

--------------------------------------------------------------------------------

\* The ids of a set of calls are fresh, and differ.
LEMMA NumbersFresh ==
    ASSUME NEW W, IsFiniteSet(W), nextId \in Nat
    PROVE  /\ Len(SetToSeq(W)) \in Nat
           /\ \A c \in W : Numbers(W)[c] \in nextId .. (nextId + Len(SetToSeq(W)) - 1)
           /\ \A c, d \in W : Numbers(W)[c] = Numbers(W)[d] => c = d
<1> DEFINE q == SetToSeq(W)
<1>1. Cardinality(W) \in Nat /\ \E f : f \in Bijection(1 .. Cardinality(W), W)
  BY FS_CardinalityType DEF ExistsBijection
<1>2. PICK f : f \in Bijection(1 .. Cardinality(W), W)
  BY <1>1
<1>3. f \in [1 .. Cardinality(W) -> W] /\ IsInjective(f)
  BY <1>2 DEF Bijection, Injection
<1>4. q \in [1 .. Cardinality(W) -> W] /\ IsInjective(q)
  BY <1>3 DEF SetToSeq
<1> HIDE DEF q
<1>5. Len(q) = Cardinality(W) /\ DOMAIN q = 1 .. Cardinality(W)
  BY <1>1, <1>4
<1>6. q \in Bijection(1 .. Cardinality(W), W)
  <2>1. q \in Injection(1 .. Cardinality(W), W)
    BY <1>4 DEF Injection
  <2> QED
    <3>1. Cardinality(1 .. Cardinality(W)) = Cardinality(W)
      BY <1>1, FS_Interval
    <3>2. q \in Surjection(1 .. Cardinality(W), W)
      BY <2>1, <3>1, FS_Injection
    <3> QED
      BY <2>1, <3>2 DEF Bijection
<1>7. ASSUME NEW c \in W PROVE \E i \in DOMAIN q : q[i] = c
  BY <1>5, <1>6 DEF Bijection, Surjection
<1> DEFINE at(c) == CHOOSE i \in DOMAIN q : q[i] = c
<1>8. ASSUME NEW c \in W PROVE at(c) \in 1 .. Cardinality(W) /\ q[at(c)] = c
  BY <1>5, <1>7
<1>9. Numbers(W) = [c \in W |-> nextId - 1 + at(c)]
  BY DEF Numbers, q
<1> HIDE DEF at
<1>10. ASSUME NEW c \in W, NEW d \in W, Numbers(W)[c] = Numbers(W)[d] PROVE c = d
  <2>1. at(c) = at(d)
    BY <1>1, <1>8, <1>9, <1>10
  <2> QED
    BY <1>8, <2>1
<1>11. \A c \in W : Numbers(W)[c] \in nextId .. (nextId + Len(q) - 1)
  BY <1>1, <1>5, <1>8, <1>9
<1> QED
  BY <1>1, <1>5, <1>10, <1>11 DEF q

\* A step that asks nothing of a process but of a new one to initialize.
LEMMA IdsKept ==
    ASSUME McpShape, IdsInv, nextId' \in Nat, nextId <= nextId', OwnAnswer',
           \A c \in ToolCalls : Waits(c)' =>
               Waits(c) /\ call'[c].id = call[c].id /\ call'[c].n = call[c].n,
           \A n \in Starts : Asks(n)' =>
               \/ Asks(n) /\ start'[n].id = start[n].id
               \/ start'[n].id = nextId /\ nextId < nextId',
           \A c \in ToolCalls : call'[c].st \in { "ensure", "wait" } => call'[c].tool \in ChatTools,
           \A n \in Starts : \A j \in jobs'[n] : \E k \in jobs[n] :
               j.id = k.id /\ j.who = k.who /\ j.tool = k.tool,
           \A n \in Starts : \A i \in 1 .. Len(out'[n]) :
               \/ \E k \in 1 .. Len(out[n]) : out'[n][i] = out[n][k]
               \/ \E j \in jobs[n] : out'[n][i].id = j.id /\ out'[n][i].who = j.who
               \/ out'[n][i].id \in { 0, nextId } /\ out'[n][i].id < nextId'
    PROVE  IdsInv'
<1>0. nextId \in Nat \ { 0 }
  BY DEF McpShape
<1>1. \A c \in ToolCalls : Waits(c)' => call'[c].id \in 1 .. (nextId - 1) /\ call'[c].n \in Starts
  BY DEF IdsInv
<1>2. \A n \in Starts : Asks(n)' => start'[n].id \in 1 .. (nextId' - 1)
  BY <1>0 DEF IdsInv
<1>4. \A c \in ToolCalls, n \in Starts : Asks(n)' /\ Waits(c)' => call'[c].id # start'[n].id
  BY <1>0, <1>1 DEF IdsInv, OfId
<1>5. ASSUME NEW n \in Starts, NEW j \in jobs'[n]
      PROVE  /\ j.id \in 1 .. (nextId' - 1) /\ j.who \in ToolCalls /\ j.tool \in ChatTools
             /\ \A c \in ToolCalls : Waits(c)' /\ call'[c].id = j.id => j.who = c
  <2>1. PICK k \in jobs[n] : j.id = k.id /\ j.who = k.who /\ j.tool = k.tool
    OBVIOUS
  <2>2. /\ k.id \in 1 .. (nextId - 1) /\ k.who \in ToolCalls /\ k.tool \in ChatTools
        /\ \A c \in ToolCalls : Waits(c) /\ call[c].id = k.id => k.who = c
    BY DEF IdsInv, OfId
  <2> QED
    BY <1>0, <2>1, <2>2
<1>6. ASSUME NEW n \in Starts, NEW i \in 1 .. Len(out'[n])
      PROVE  /\ out'[n][i].id < nextId'
             /\ \A c \in ToolCalls : Waits(c)' /\ call'[c].id = out'[n][i].id => out'[n][i].who = c
  <2>1. CASE \E k \in 1 .. Len(out[n]) : out'[n][i] = out[n][k]
    <3>1. PICK k \in 1 .. Len(out[n]) : out'[n][i] = out[n][k]
      BY <2>1
    <3>2. out[n] \in Seq(Lines)
      BY DEF McpShape
    <3>3. out[n][k] \in Lines
      BY <3>2, ElementOfSeq
    <3>4. out[n][k].id \in Nat
      BY <3>3 DEF Lines
    <3>5. /\ out[n][k].id < nextId
          /\ \A c \in ToolCalls : Waits(c) /\ call[c].id = out[n][k].id => out[n][k].who = c
      BY DEF IdsInv, OfId
    <3> QED
      BY <1>0, <3>1, <3>4, <3>5
  <2>2. CASE \E j \in jobs[n] : out'[n][i].id = j.id /\ out'[n][i].who = j.who
    <3>1. PICK j \in jobs[n] : out'[n][i].id = j.id /\ out'[n][i].who = j.who
      BY <2>2
    <3>2. /\ j.id \in 1 .. (nextId - 1)
          /\ \A c \in ToolCalls : Waits(c) /\ call[c].id = j.id => j.who = c
      BY DEF IdsInv, OfId
    <3> QED
      BY <1>0, <3>1, <3>2
  <2>3. CASE out'[n][i].id \in { 0, nextId } /\ out'[n][i].id < nextId'
    BY <1>0, <1>1, <2>3
  <2> QED
    BY <2>1, <2>2, <2>3
<1>7. \A c \in ToolCalls : Waits(c)' => call'[c].id \in 1 .. (nextId' - 1) /\ call'[c].n \in Starts
  BY <1>0, <1>1
<1> QED
  BY <1>2, <1>4, <1>5, <1>6, <1>7 DEF IdsInv, OfId

\* A step that makes requests for the calls of W.
LEMMA IdsAsked ==
    ASSUME McpShape, IdsInv, NEW W \in SUBSET ToolCalls, NEW toolOf, Request(W, toolOf),
           \A c \in W : toolOf[c] \in ChatTools, OwnAnswer',
           \A n \in Starts : \A i \in 1 .. Len(out'[n]) :
               \E k \in 1 .. Len(out[n]) : out'[n][i] = out[n][k],
           \A c \in ToolCalls : Waits(c)' =>
               \/ Waits(c) /\ call'[c].id = call[c].id /\ call'[c].n = call[c].n
               \/ c \in W /\ call'[c].id = Numbers(W)[c] /\ call'[c].n \in Starts,
           \A n \in Starts : Asks(n)' => Asks(n) /\ start'[n].id = start[n].id,
           \A c \in ToolCalls : call'[c].st \in { "ensure", "wait" } => call'[c].tool \in ChatTools
    PROVE  IdsInv'
<1> DEFINE l == Len(SetToSeq(W))
<1>0. nextId \in Nat \ { 0 }
  BY DEF McpShape
<1>1. IsFiniteSet(W)
  BY McpAssumption, FS_Subset
<1>2. /\ l \in Nat
      /\ \A c \in W : Numbers(W)[c] \in nextId .. (nextId + l - 1)
      /\ \A c, d \in W : Numbers(W)[c] = Numbers(W)[d] => c = d
  BY <1>0, <1>1, NumbersFresh
<1>3. nextId' = nextId + l
  BY DEF Request
<1> HIDE DEF l
<1>4. \A c \in ToolCalls : Waits(c)' => call'[c].id \in 1 .. (nextId' - 1) /\ call'[c].n \in Starts
  BY <1>0, <1>2, <1>3 DEF IdsInv
<1>5. \A c \in ToolCalls : Waits(c)' =>
         \/ Waits(c) /\ call'[c].id = call[c].id /\ call[c].id < nextId
         \/ c \in W /\ call'[c].id = Numbers(W)[c] /\ nextId <= call'[c].id
  BY <1>0, <1>2 DEF IdsInv
<1>6. \A n \in Starts : Asks(n)' => start'[n].id \in 1 .. (nextId - 1)
  BY DEF IdsInv
<1>7. \A c \in ToolCalls, n \in Starts : Asks(n)' /\ Waits(c)' => call'[c].id # start'[n].id
  BY <1>0, <1>5, <1>6 DEF IdsInv, OfId
<1>8. ASSUME NEW n \in Starts, NEW j \in jobs'[n]
      PROVE  /\ j.id \in 1 .. (nextId' - 1) /\ j.who \in ToolCalls /\ j.tool \in ChatTools
             /\ \A c \in ToolCalls : Waits(c)' /\ call'[c].id = j.id => j.who = c
  <2>1. jobs = [m \in Starts |-> jobs[m]]
    BY DEF McpShape
  <2>2. j \in jobs[n] \/ \E d \in W : j = Job(Numbers(W)[d], d, toolOf[d], TRUE)
    BY <2>1 DEF Request
  <2>3. CASE j \in jobs[n]
    <3>1. /\ j.id \in 1 .. (nextId - 1) /\ j.who \in ToolCalls /\ j.tool \in ChatTools
          /\ \A c \in ToolCalls : Waits(c) /\ call[c].id = j.id => j.who = c
      BY <2>3 DEF IdsInv, OfId
    <3> QED
      BY <1>0, <1>2, <1>3, <1>5, <3>1
  <2>4. CASE \E d \in W : j = Job(Numbers(W)[d], d, toolOf[d], TRUE)
    <3>1. PICK d \in W : j = Job(Numbers(W)[d], d, toolOf[d], TRUE)
      BY <2>4
    <3>2. j.id = Numbers(W)[d] /\ j.who = d /\ j.tool = toolOf[d]
      BY <3>1 DEF Job
    <3>3. j.id \in nextId .. (nextId' - 1)
      BY <1>0, <1>2, <1>3, <3>2
    <3> QED
      BY <1>0, <1>2, <1>5, <3>2, <3>3
  <2> QED
    BY <2>2, <2>3, <2>4
<1>9. ASSUME NEW n \in Starts, NEW i \in 1 .. Len(out'[n])
      PROVE  /\ out'[n][i].id < nextId'
             /\ \A c \in ToolCalls : Waits(c)' /\ call'[c].id = out'[n][i].id => out'[n][i].who = c
  <2>0. PICK k \in 1 .. Len(out[n]) : out'[n][i] = out[n][k]
    OBVIOUS
  <2>1. out[n] \in Seq(Lines)
    BY DEF McpShape
  <2>2. out[n][k] \in Lines
    BY <2>1, ElementOfSeq
  <2>3. out[n][k].id \in Nat
    BY <2>2 DEF Lines
  <2>4. /\ out[n][k].id < nextId
        /\ \A c \in ToolCalls : Waits(c) /\ call[c].id = out[n][k].id => out[n][k].who = c
    BY DEF IdsInv, OfId
  <2> QED
    BY <1>0, <1>2, <1>3, <1>5, <2>0, <2>3, <2>4
<1>10. \A n \in Starts : Asks(n)' => start'[n].id \in 1 .. (nextId' - 1)
  BY <1>0, <1>2, <1>3, <1>6
<1> QED
  BY <1>4, <1>7, <1>8, <1>9, <1>10 DEF IdsInv, OfId

\* What a rejection leaves of the calls and the starts.
LEMMA RejectFacts ==
    ASSUME McpShape, NEW I, Reject(I)
    PROVE  /\ call' = [c \in ToolCalls |-> call'[c]] /\ start' = [n \in Starts |-> start'[n]]
           /\ \A c \in ToolCalls : call'[c] = [f \in CallFields |-> call'[c][f]]
           /\ \A n \in Starts : start'[n] = [f \in StartFields |-> start'[n][f]]
           /\ \A c \in ToolCalls : call'[c] = call[c] \/ call'[c].st = "failed"
           /\ \A c \in ToolCalls : Waits(c)' => call'[c] = call[c] /\ call[c].id \notin I
           /\ \A n \in Starts : start'[n] = start[n] \/ (n \in Lost(I) /\ start'[n].st = "failed")
           /\ \A n \in Starts : Asks(n)' => start'[n] = start[n] /\ start[n].id \notin I
<1>1. ASSUME NEW c \in ToolCalls
      PROVE  /\ call'[c] = [f \in CallFields |-> call'[c][f]]
             /\ call'[c] = call[c] \/ call'[c].st = "failed"
             /\ Waits(c)' => call'[c] = call[c] /\ call[c].id \notin I
  <2>1. call'[c] = IF \/ call[c].st = "wait" /\ call[c].id \in I
                      \/ call[c].st = "ensure" /\ call[c].n \in Lost(I)
                   THEN Rejected ELSE call[c]
    BY DEF Reject
  <2>2. Rejected = [f \in CallFields |-> Rejected[f]] /\ Rejected.st = "failed"
    BY DEF Rejected, Idle, CallFields
  <2>3. call[c] = [f \in CallFields |-> call[c][f]]
    BY DEF McpShape
  <2> QED
    BY <2>1, <2>2, <2>3 DEF Waits
<1>2. ASSUME NEW n \in Starts
      PROVE  /\ start'[n] = [f \in StartFields |-> start'[n][f]]
             /\ start'[n] = start[n] \/ (n \in Lost(I) /\ start'[n].st = "failed")
             /\ Asks(n)' => start'[n] = start[n] /\ start[n].id \notin I
  <2>1. start'[n] = IF n \in Lost(I) THEN [start[n] EXCEPT !.st = "failed"] ELSE start[n]
    BY DEF Reject
  <2>2. start[n] = [f \in StartFields |-> start[n][f]]
    BY DEF McpShape
  <2>3. [start[n] EXCEPT !.st = "failed"] = [f \in StartFields |-> [start[n] EXCEPT !.st = "failed"][f]]
        /\ [start[n] EXCEPT !.st = "failed"].st = "failed"
    BY <2>2 DEF StartFields
  <2>4. CASE n \in Lost(I)
    BY <2>1, <2>3, <2>4 DEF Asks
  <2>5. CASE n \notin Lost(I)
    <3>1. start'[n] = start[n]
      BY <2>1, <2>5
    <3>2. start[n].st = "handshake" => start[n].id \notin I
      BY <2>5 DEF Lost
    <3>3. start'[n] = [f \in StartFields |-> start'[n][f]]
      BY <2>2, <3>1
    <3>4. Asks(n)' => start[n].id \notin I
      BY <3>1, <3>2 DEF Asks
    <3> QED
      BY <3>1, <3>3, <3>4 DEF Asks
  <2> QED
    BY <2>4, <2>5
<1>3. call' = [c \in ToolCalls |-> call'[c]] /\ start' = [n \in Starts |-> start'[n]]
  BY DEF Reject
<1> QED
  BY <1>1, <1>2, <1>3

\* Requests are rejected, and perhaps a start is forgotten.
LEMMA RejectKeeps ==
    ASSUME McpShape, IdsInv, NEW I, Reject(I),
           UNCHANGED <<os, jobs, out, started, nextId>>, proc' \in { proc, 0 }
    PROVE  McpShape' /\ IdsInv'
<1>1. McpShape'
  BY RejectFacts DEF McpShape
<1>2. IdsInv'
  <2>1. OwnAnswer'
    BY RejectFacts DEF IdsInv, OwnAnswer
  <2>2. \A c \in ToolCalls : call'[c].st \in { "ensure", "wait" } => call'[c].tool \in ChatTools
    BY RejectFacts DEF IdsInv
  <2>3. nextId \in Nat
    BY DEF McpShape
  <2> QED
    BY <2>1, <2>2, <2>3, RejectFacts, IdsKept DEF Waits, Asks
<1> QED
  BY <1>1, <1>2

\* request's timer: a call alone is rejected, and a start with what awaits it.
LEMMA TimeoutKeeps ==
    ASSUME McpInv, \/ \E c \in ToolCalls : TimeoutCall(c)
                   \/ \E n \in Starts : TimeoutStart(n)
    PROVE  McpInv'
<1>1. PICK id : /\ Reject({ id }) /\ Forget({ id })
                /\ UNCHANGED <<os, exitSeen, jobs, out, started, proc, nextId, disposed, fallback>>
  BY DEF TimeoutCall, TimeoutStart, Timeout
<1>2. McpShape' /\ IdsInv'
  BY <1>1, RejectKeeps DEF McpInv
<1>3. CASE \E n \in Starts : TimeoutStart(n)
  BY <1>2, <1>3 DEF TimeoutStart, McpInv
<1>4. ASSUME NEW c \in ToolCalls, TimeoutCall(c)
      PROVE  (~slow' => OneProcess') /\ (~slow' /\ ~fallback' => NothingWaits')
  <2>1. /\ Waits(c) /\ Reject({ call[c].id }) /\ Forget({ call[c].id })
        /\ UNCHANGED <<os, exitSeen, proc, disposed, fallback, slow>>
    BY <1>4 DEF TimeoutCall, Timeout, Waits
  <2>2. Lost({ call[c].id }) = {}
    BY <2>1 DEF Lost, McpInv, IdsInv, Asks, OfId
  <2>3. UNCHANGED ready
    BY <2>1, <2>2 DEF Forget
  <2>4. \A n \in Starts : start'[n] = start[n]
    BY <2>1, <2>2, RejectFacts DEF McpInv
  <2>5. \A d \in ToolCalls : Waits(d)' => Waits(d)
    BY <2>1, RejectFacts DEF McpInv, Waits
  <2>6. OneProcess => OneProcess'
    BY <2>1, <2>3, <2>4 DEF OneProcess, Alive, ReadsKeys, Forgotten
  <2>7. NothingWaits => NothingWaits'
    BY <2>1, <2>3, <2>4, <2>5 DEF NothingWaits, ReadsKeys, Forgotten, Asks
  <2> QED
    BY <2>1, <2>6, <2>7 DEF McpInv
<1> QED
  BY <1>2, <1>3, <1>4 DEF McpInv

\* The keys cannot be read.
LEMMA StartFailsKeeps == ASSUME McpInv, NEW n \in Starts, StartFails(n) PROVE McpInv'
<1>1. /\ ReadsKeys(n) /\ start' = [start EXCEPT ![n].st = "failed"] /\ ready' = 0
      /\ UNCHANGED <<os, exitSeen, jobs, out, started, proc, nextId, disposed, fallback, slow>>
  BY DEF StartFails, ReadsKeys
<1>2. \A m \in Starts : /\ start'[m] = [f \in StartFields |-> start'[m][f]]
                        /\ m # n => start'[m] = start[m]
                        /\ m = n => start'[m].st = "failed"
  BY <1>1 DEF McpInv, McpShape, StartFields
<1>3. /\ call' = [c \in ToolCalls |-> call'[c]]
      /\ \A c \in ToolCalls : call'[c] = Rejected \/ call'[c] = call[c]
  BY DEF StartFails
<1>4. Rejected = [f \in CallFields |-> Rejected[f]] /\ Rejected.st = "failed"
  BY DEF Rejected, Idle, CallFields
<1>5. McpShape'
  BY <1>1, <1>2, <1>3, <1>4 DEF McpInv, McpShape
<1>6. IdsInv'
  <2>1. McpShape /\ IdsInv /\ nextId \in Nat
    BY DEF McpInv, McpShape
  <2>2. OwnAnswer' /\ \A c \in ToolCalls : call'[c].st \in { "ensure", "wait" } => call'[c].tool \in ChatTools
    BY <1>3, <1>4, <2>1 DEF IdsInv, OwnAnswer
  <2>3. \A c \in ToolCalls : Waits(c)' => Waits(c) /\ call'[c].id = call[c].id /\ call'[c].n = call[c].n
    BY <1>3, <1>4 DEF Waits
  <2>4. \A m \in Starts : Asks(m)' => Asks(m) /\ start'[m].id = start[m].id
    BY <1>2 DEF Asks
  <2> QED
    BY <1>1, <2>1, <2>2, <2>3, <2>4, IdsKept
<1>7. ASSUME OneProcess PROVE OneProcess'
  <2>1. \A m \in Starts : ~Alive(m)
    BY <1>1, <1>7 DEF OneProcess
  <2>2. \A m \in Starts : ~ReadsKeys(m)'
    BY <1>1, <1>2, <1>7 DEF OneProcess, ReadsKeys
  <2>3. proc = 0 \/ proc \in exitSeen
    BY <1>1, <1>7 DEF OneProcess
  <2> QED
    BY <1>1, <2>1, <2>2, <2>3 DEF OneProcess, Alive, ReadsKeys
<1>8. NothingWaits => NothingWaits'
  BY <1>1, <1>2, <1>3, <1>4 DEF NothingWaits, ReadsKeys, Forgotten, Asks, Waits
<1> QED
  BY <1>1, <1>5, <1>6, <1>7, <1>8 DEF McpInv

\* A process is spawned: it is the only one.
LEMMA SpawnKeeps == ASSUME McpInv, NEW n \in Starts, Spawn(n) PROVE McpInv'
<1> DEFINE line == [id |-> nextId, who |-> n, kind |-> "init"]
<1>1. /\ ReadsKeys(n) /\ proc' = n /\ nextId' = nextId + 1
      /\ os' \in { [os EXCEPT ![n] = "alive"], [os EXCEPT ![n] = "nospawn"] }
      /\ start' = [start EXCEPT ![n].st = "handshake", ![n].id = nextId]
      /\ out' = IF os'[n] = "alive" THEN [out EXCEPT ![n] = <<line>>] ELSE out
      /\ UNCHANGED <<call, exitSeen, jobs, started, ready, disposed, fallback, slow>>
  BY DEF Spawn, ReadsKeys
<1>2. /\ start' = [m \in Starts |-> start'[m]]
      /\ \A m \in Starts : /\ start'[m] = [f \in StartFields |-> start'[m][f]]
                           /\ m # n => start'[m] = start[m]
                           /\ m = n => start'[m].st = "handshake" /\ start'[m].id = nextId
  <2>1. /\ start = [m \in Starts |-> start[m]]
        /\ \A m \in Starts : start[m] = [f \in StartFields |-> start[m][f]]
    BY DEF McpInv, McpShape
  <2> DEFINE s == [start[n] EXCEPT !.st = "handshake", !.id = nextId]
  <2>2. start' = [start EXCEPT ![n] = s]
    BY <1>1, <2>1
  <2>3. s = [f \in StartFields |-> s[f]] /\ s.st = "handshake" /\ s.id = nextId
    BY <2>1 DEF StartFields
  <2> HIDE DEF s
  <2> QED
    BY <2>1, <2>2, <2>3
<1>3. /\ os' = [m \in Starts |-> os'[m]]
      /\ \A m \in Starts : m # n => os'[m] = os[m]
  BY <1>1 DEF McpInv, McpShape
<1>4. nextId \in Nat /\ nextId' \in Nat \ { 0 } /\ line \in Lines
  BY <1>1 DEF McpInv, McpShape, Lines, LineKinds
<1> HIDE DEF line
<1>5. <<line>> \in Seq(Lines) /\ Len(<<line>>) = 1 /\ <<line>>[1] = line
  BY <1>4
<1>6. /\ out' \in [Starts -> Seq(Lines)]
      /\ \A m \in Starts : out'[m] = out[m] \/ out'[m] = <<line>>
  BY <1>1, <1>5 DEF McpInv, McpShape
<1>7. McpShape'
  <2>1. UNCHANGED <<call, jobs, started>> /\ nextId' \in Nat \ { 0 } /\ proc' \in Starts \cup { 0 }
    BY <1>1, <1>4
  <2>2. McpShape
    BY DEF McpInv
  <2> QED
    BY <1>2, <1>3, <1>6, <2>1, <2>2 DEF McpShape
<1>8. IdsInv'
  <2>1. OwnAnswer' /\ \A c \in ToolCalls : call'[c].st \in { "ensure", "wait" } => call'[c].tool \in ChatTools
    BY <1>1 DEF McpInv, IdsInv, OwnAnswer
  <2>2. \A c \in ToolCalls : Waits(c)' => Waits(c) /\ call'[c].id = call[c].id /\ call'[c].n = call[c].n
    BY <1>1 DEF Waits
  <2>3. ASSUME NEW m \in Starts
        PROVE  Asks(m)' => \/ Asks(m) /\ start'[m].id = start[m].id
                           \/ start'[m].id = nextId /\ nextId < nextId'
    <3>1. nextId < nextId'
      BY <1>1, <1>4
    <3>2. CASE m = n
      BY <1>2, <3>1, <3>2
    <3>3. CASE m # n
      BY <1>2, <3>3 DEF Asks
    <3> QED
      BY <3>2, <3>3
  <2>4. line.id = nextId
    BY DEF line
  <2>5. \A m \in Starts : \A i \in 1 .. Len(out'[m]) :
           \/ \E k \in 1 .. Len(out[m]) : out'[m][i] = out[m][k]
           \/ out'[m][i].id \in { 0, nextId } /\ out'[m][i].id < nextId'
    BY <1>1, <1>4, <1>5, <1>6, <2>4
  <2>6. \A m \in Starts : \A j \in jobs'[m] : \E k \in jobs[m] :
           j.id = k.id /\ j.who = k.who /\ j.tool = k.tool
    BY <1>1
  <2>7. McpShape /\ IdsInv /\ nextId' \in Nat /\ nextId <= nextId'
    BY <1>1, <1>4 DEF McpInv
  <2> QED
    BY <2>1, <2>2, <2>3, <2>5, <2>6, <2>7, IdsKept
<1>9. ASSUME OneProcess PROVE OneProcess'
  <2>1. \A m \in Starts : ~ReadsKeys(m)'
    BY <1>1, <1>2, <1>9 DEF OneProcess, ReadsKeys
  <2>2. \A m \in Starts : Alive(m)' => m = n
    BY <1>1, <1>3, <1>9 DEF OneProcess, Alive
  <2>3. ~Forgotten'
    BY <1>1, <1>9 DEF OneProcess, Forgotten, Starts
  <2> QED
    BY <1>1, <2>1, <2>2, <2>3 DEF OneProcess
<1>10. ASSUME OneProcess, NothingWaits PROVE NothingWaits'
  <2>1. \A m \in Starts : ~ReadsKeys(m)'
    BY <1>1, <1>2, <1>10 DEF OneProcess, ReadsKeys
  <2>2. ~Forgotten'
    BY <1>1, <1>10 DEF OneProcess, Forgotten, Starts
  <2> QED
    BY <2>1, <2>2 DEF NothingWaits
<1> QED
  BY <1>1, <1>7, <1>8, <1>9, <1>10 DEF McpInv

\* A process works, or dies: no call learns of it yet.
LEMMA JobKeeps == ASSUME McpInv, NEW n \in Starts, JobStep(n) PROVE McpInv'
<1>1. PICK j \in jobs[n] :
         IF Finished(j)
         THEN /\ jobs' = [jobs EXCEPT ![n] = @ \ { j }]
              /\ out' = [out EXCEPT ![n] = Append(@, Answer(j, j.tool.answer))]
         ELSE \E r \in Replies(KeyRejected /\ start[n].key = "stored") :
                IF r = "ok" \/ Repeats(j, r)
                THEN /\ jobs' = [jobs EXCEPT ![n] = (@ \ { j }) \cup { JobNext(j, r) }]
                     /\ UNCHANGED out
                ELSE /\ jobs' = [jobs EXCEPT ![n] = @ \ { j }]
                     /\ \E k \in Kinds(r) : out' = [out EXCEPT ![n] = Append(@, Answer(j, k))]
  BY DEF JobStep
<1>2. UNCHANGED <<call, start, os, exitSeen, started, ready, proc, nextId, disposed, fallback, slow>>
  BY DEF JobStep
<1>3. /\ j = [f \in JobFields |-> j[f]] /\ j.id \in Nat /\ j.who \in ToolCalls
      /\ j.tool \in ChatTools /\ nextId \in Nat
  BY DEF McpInv, McpShape, IdsInv
<1>4. ASSUME NEW r PROVE /\ JobNext(j, r) = [f \in JobFields |-> JobNext(j, r)[f]]
                         /\ JobNext(j, r).id = j.id /\ JobNext(j, r).who = j.who
                         /\ JobNext(j, r).tool = j.tool
  BY <1>3 DEF JobNext, JobFields
<1>5. ASSUME NEW k \in LineKinds, out' = [out EXCEPT ![n] = Append(@, Answer(j, k))]
      PROVE  /\ out' \in [Starts -> Seq(Lines)]
             /\ \A m \in Starts : \A i \in 1 .. Len(out'[m]) :
                   \/ \E h \in 1 .. Len(out[m]) : out'[m][i] = out[m][h]
                   \/ \E h \in jobs[m] : out'[m][i].id = h.id /\ out'[m][i].who = h.who
  <2> DEFINE a == Answer(j, k)
  <2>1. a \in Lines /\ a.id = j.id /\ a.who = j.who
    BY <1>3 DEF Answer, Lines
  <2> HIDE DEF a
  <2>2. out \in [Starts -> Seq(Lines)] /\ out[n] \in Seq(Lines)
    BY DEF McpInv, McpShape
  <2>3. /\ Append(out[n], a) \in Seq(Lines) /\ Len(Append(out[n], a)) = Len(out[n]) + 1
        /\ \A i \in 1 .. Len(out[n]) : Append(out[n], a)[i] = out[n][i]
        /\ Append(out[n], a)[Len(out[n]) + 1] = a
    BY <2>1, <2>2, AppendProperties
  <2>4. Len(out[n]) \in Nat
    BY <2>2, LenProperties
  <2>5. out' = [out EXCEPT ![n] = Append(out[n], a)]
    BY <1>5 DEF a
  <2>6. out' \in [Starts -> Seq(Lines)]
    BY <2>2, <2>3, <2>5
  <2>7. ASSUME NEW i \in 1 .. Len(out'[n])
        PROVE  \/ \E h \in 1 .. Len(out[n]) : out'[n][i] = out[n][h]
               \/ \E h \in jobs[n] : out'[n][i].id = h.id /\ out'[n][i].who = h.who
    <3>1. out'[n] = Append(out[n], a)
      BY <2>2, <2>5
    <3>2. i \in 1 .. Len(out[n]) \/ i = Len(out[n]) + 1
      BY <2>3, <2>4, <3>1
    <3> QED
      BY <2>1, <2>3, <3>1, <3>2
  <2>8. \A m \in Starts : m # n => out'[m] = out[m]
    BY <2>2, <2>5
  <2>9. ASSUME NEW m \in Starts, NEW i \in 1 .. Len(out'[m])
        PROVE  \/ \E h \in 1 .. Len(out[m]) : out'[m][i] = out[m][h]
               \/ \E h \in jobs[m] : out'[m][i].id = h.id /\ out'[m][i].who = h.who
    <3>1. CASE m = n
      BY <2>7, <3>1
    <3>2. CASE m # n
      BY <2>8, <3>2
    <3> QED
      BY <3>1, <3>2
  <2> QED
    BY <2>6, <2>9
<1>6. /\ jobs' = [m \in Starts |-> jobs'[m]]
      /\ \A m \in Starts : \A h \in jobs'[m] :
            /\ h = [f \in JobFields |-> h[f]]
            /\ \E k \in jobs[m] : h.id = k.id /\ h.who = k.who /\ h.tool = k.tool
  <2>1. PICK K : /\ jobs' = [jobs EXCEPT ![n] = K]
                 /\ \A h \in K : h \in jobs[n] \/ \E r : h = JobNext(j, r)
    BY <1>1
  <2>2. jobs = [m \in Starts |-> jobs[m]] /\ \A m \in Starts : \A h \in jobs[m] : h = [f \in JobFields |-> h[f]]
    BY DEF McpInv, McpShape
  <2>3. jobs' = [m \in Starts |-> jobs'[m]] /\ jobs'[n] = K /\ \A m \in Starts : m # n => jobs'[m] = jobs[m]
    BY <2>1, <2>2
  <2>4. \A h \in K : /\ h = [f \in JobFields |-> h[f]]
                     /\ \E k \in jobs[n] : h.id = k.id /\ h.who = k.who /\ h.tool = k.tool
    BY <1>4, <2>1, <2>2
  <2> QED
    BY <2>2, <2>3, <2>4
<1>7. j.tool.answer \in LineKinds /\ \A r : Kinds(r) \subseteq LineKinds
  BY <1>3 DEF LineKinds, Kinds
<1>8. /\ out' \in [Starts -> Seq(Lines)]
      /\ \A m \in Starts : \A i \in 1 .. Len(out'[m]) :
            \/ \E h \in 1 .. Len(out[m]) : out'[m][i] = out[m][h]
            \/ \E h \in jobs[m] : out'[m][i].id = h.id /\ out'[m][i].who = h.who
  <2>1. CASE UNCHANGED out
    BY <2>1 DEF McpInv, McpShape
  <2>2. CASE \E k \in LineKinds : out' = [out EXCEPT ![n] = Append(@, Answer(j, k))]
    BY <1>5, <2>2
  <2> QED
    BY <1>1, <1>7, <2>1, <2>2
<1>9. McpShape'
  BY <1>2, <1>6, <1>8 DEF McpInv, McpShape
<1>10. IdsInv'
  <2>1. OwnAnswer' /\ \A c \in ToolCalls : call'[c].st \in { "ensure", "wait" } => call'[c].tool \in ChatTools
    BY <1>2 DEF McpInv, IdsInv, OwnAnswer
  <2>2. \A c \in ToolCalls : Waits(c)' => Waits(c) /\ call'[c].id = call[c].id /\ call'[c].n = call[c].n
    BY <1>2 DEF Waits
  <2>3. \A m \in Starts : Asks(m)' => Asks(m) /\ start'[m].id = start[m].id
    BY <1>2 DEF Asks
  <2>4. McpShape /\ IdsInv /\ nextId' \in Nat /\ nextId <= nextId'
    BY <1>2, <1>3 DEF McpInv
  <2>5. \A m \in Starts : \A h \in jobs'[m] : \E k \in jobs[m] :
           h.id = k.id /\ h.who = k.who /\ h.tool = k.tool
    BY <1>6
  <2>6. \A m \in Starts : \A i \in 1 .. Len(out'[m]) :
           \/ \E h \in 1 .. Len(out[m]) : out'[m][i] = out[m][h]
           \/ \E h \in jobs[m] : out'[m][i].id = h.id /\ out'[m][i].who = h.who
    BY <1>8
  <2> QED
    BY <2>1, <2>2, <2>3, <2>4, <2>5, <2>6, IdsKept
<1> QED
  BY <1>2, <1>9, <1>10 DEF McpInv, OneProcess, NothingWaits, Alive, ReadsKeys, Forgotten, Asks, Waits

\* Its last line may be cut short.
LEMMA DiesKeeps == ASSUME McpInv, NEW n \in Starts, ProcDies(n) PROVE McpInv'
<1> DEFINE line == [id |-> 0, who |-> 0, kind |-> "torn"]
<1>1. /\ os' = [os EXCEPT ![n] = "dead"] /\ jobs' = [jobs EXCEPT ![n] = {}]
      /\ UNCHANGED out \/ out' = [out EXCEPT ![n] = Append(@, line)]
      /\ UNCHANGED <<call, start, exitSeen, started, ready, proc, nextId, disposed, fallback, slow>>
  BY DEF ProcDies
<1>2. McpShape /\ IdsInv /\ nextId \in Nat \ { 0 } /\ out \in [Starts -> Seq(Lines)]
  BY DEF McpInv, McpShape
<1>3. line \in Lines /\ line.id = 0
  BY DEF Lines, LineKinds
<1> HIDE DEF line
<1>4. /\ out' \in [Starts -> Seq(Lines)]
      /\ \A m \in Starts : \A i \in 1 .. Len(out'[m]) :
            \/ \E h \in 1 .. Len(out[m]) : out'[m][i] = out[m][h]
            \/ out'[m][i].id = 0
  <2>1. CASE UNCHANGED out
    BY <1>2, <2>1
  <2>2. CASE out' = [out EXCEPT ![n] = Append(@, line)]
    <3>1. out[n] \in Seq(Lines) /\ Len(out[n]) \in Nat
      BY <1>2, LenProperties
    <3>2. /\ Append(out[n], line) \in Seq(Lines)
          /\ Len(Append(out[n], line)) = Len(out[n]) + 1
          /\ \A i \in 1 .. Len(out[n]) : Append(out[n], line)[i] = out[n][i]
          /\ Append(out[n], line)[Len(out[n]) + 1] = line
      BY <1>3, <3>1, AppendProperties
    <3>3. out' = [out EXCEPT ![n] = Append(out[n], line)]
      BY <2>2
    <3>4. ASSUME NEW m \in Starts, NEW i \in 1 .. Len(out'[m])
          PROVE  \/ \E h \in 1 .. Len(out[m]) : out'[m][i] = out[m][h]
                 \/ out'[m][i].id = 0
      <4>1. CASE m = n
        <5>1. out'[n] = Append(out[n], line)
          BY <1>2, <3>3
        <5>2. i \in 1 .. Len(out[n]) \/ i = Len(out[n]) + 1
          BY <3>1, <3>2, <4>1, <5>1
        <5> QED
          BY <1>3, <3>2, <4>1, <5>1, <5>2
      <4>2. CASE m # n
        BY <1>2, <3>3, <4>2
      <4> QED
        BY <4>1, <4>2
    <3> QED
      BY <1>2, <3>2, <3>3, <3>4
  <2> QED
    BY <1>1, <2>1, <2>2
<1>5. /\ os' = [m \in Starts |-> os'[m]] /\ \A m \in Starts : os'[m] = "alive" => os[m] = "alive"
      /\ jobs' = [m \in Starts |-> jobs'[m]] /\ \A m \in Starts : jobs'[m] \subseteq jobs[m]
  BY <1>1, <1>2 DEF McpShape
<1>6. McpShape'
  BY <1>1, <1>2, <1>4, <1>5 DEF McpShape
<1>7. IdsInv'
  <2>1. OwnAnswer' /\ \A c \in ToolCalls : call'[c].st \in { "ensure", "wait" } => call'[c].tool \in ChatTools
    BY <1>1, <1>2 DEF IdsInv, OwnAnswer
  <2>2. \A c \in ToolCalls : Waits(c)' => Waits(c) /\ call'[c].id = call[c].id /\ call'[c].n = call[c].n
    BY <1>1 DEF Waits
  <2>3. \A m \in Starts : Asks(m)' => Asks(m) /\ start'[m].id = start[m].id
    BY <1>1 DEF Asks
  <2>4. \A m \in Starts : \A i \in 1 .. Len(out'[m]) :
           \/ \E h \in 1 .. Len(out[m]) : out'[m][i] = out[m][h]
           \/ out'[m][i].id \in { 0, nextId } /\ out'[m][i].id < nextId'
    BY <1>1, <1>2, <1>4
  <2>5. \A m \in Starts : \A h \in jobs'[m] : \E k \in jobs[m] :
           h.id = k.id /\ h.who = k.who /\ h.tool = k.tool
    BY <1>5
  <2>6. nextId' \in Nat /\ nextId <= nextId'
    BY <1>1, <1>2
  <2> QED
    BY <1>2, <2>1, <2>2, <2>3, <2>4, <2>5, <2>6, IdsKept
<1>8. OneProcess => OneProcess'
  BY <1>1, <1>5 DEF OneProcess, Alive, ReadsKeys, Forgotten
<1>9. NothingWaits => NothingWaits'
  BY <1>1 DEF NothingWaits, ReadsKeys, Forgotten, Asks, Waits
<1> QED
  BY <1>1, <1>6, <1>7, <1>8, <1>9 DEF McpInv

\* Everything that waits is rejected, with the start under way.
LEMMA RejectAllFacts ==
    ASSUME McpInv, RejectAll
    PROVE  (\A c \in ToolCalls : ~Waits(c)') /\ (\A n \in Starts : ~Asks(n)')
<1>1. nextId \in Nat
  BY DEF McpInv, McpShape
<1>2. McpShape /\ IdsInv /\ Reject(1 .. nextId)
  BY DEF McpInv, RejectAll
<1>3. ASSUME NEW c \in ToolCalls, Waits(c)' PROVE FALSE
  <2>1. call'[c] = call[c] /\ call[c].id \notin 1 .. nextId
    BY <1>2, <1>3, RejectFacts
  <2> QED
    BY <1>1, <1>2, <1>3, <2>1 DEF IdsInv, Waits
<1>4. ASSUME NEW n \in Starts, Asks(n)' PROVE FALSE
  <2>1. start'[n] = start[n] /\ start[n].id \notin 1 .. nextId
    BY <1>2, <1>4, RejectFacts
  <2> QED
    BY <1>1, <1>2, <1>4, <2>1 DEF IdsInv, Asks
<1> QED
  BY <1>3, <1>4

\* The exit, or the error, of the process the client has takes nothing along that lives.
LEMMA ExitKeeps ==
    ASSUME McpInv, NEW n \in Starts, ExitEvent(n) \/ ErrorEvent(n)
    PROVE  McpInv' /\ ExitHarmless
<1>1. /\ os[n] # "alive" /\ n \notin exitSeen /\ n # 0 /\ exitSeen' = exitSeen \cup { n }
      /\ UNCHANGED <<os, jobs, out, started, nextId, disposed, fallback, slow>>
  BY DEF ExitEvent, ErrorEvent, Starts
<1>2. \/ /\ UNCHANGED <<call, start, ready, proc>>
         /\ proc # n \/ disposed
      \/ proc = n /\ RejectAll /\ proc' \in { proc, 0 } /\ ready' \in { ready, 0 }
  BY DEF ExitEvent, ErrorEvent, ExitHandled, Forget
<1>3. CASE UNCHANGED <<call, start, ready, proc>> /\ (proc # n \/ disposed)
  <2>1. McpShape'
    BY <1>1, <1>3 DEF McpInv, McpShape
  <2>2. IdsInv'
    BY <1>1, <1>3 DEF McpInv, IdsInv, Waits, Asks, OfId, OwnAnswer
  <2>3. OneProcess => OneProcess'
    BY <1>1, <1>3 DEF OneProcess, Alive, ReadsKeys, Forgotten
  <2>4. NothingWaits => NothingWaits'
    BY <1>1, <1>3 DEF NothingWaits, ReadsKeys, Forgotten, Asks, Waits
  <2>5. ExitHarmless
    BY <1>3 DEF ExitHarmless
  <2> QED
    BY <1>1, <2>1, <2>2, <2>3, <2>4, <2>5 DEF McpInv
<1>4. CASE proc = n /\ RejectAll /\ proc' \in { proc, 0 } /\ ready' \in { ready, 0 }
  <2>1. McpShape' /\ IdsInv'
    BY <1>1, <1>4, RejectKeeps DEF McpInv, RejectAll
  <2>2. (\A c \in ToolCalls : ~Waits(c)') /\ (\A m \in Starts : ~Asks(m)')
    BY <1>4, RejectAllFacts
  <2>3. \A m \in Starts : ReadsKeys(m)' => ReadsKeys(m)
    BY <1>4, RejectFacts DEF McpInv, RejectAll, ReadsKeys
  <2>4. ASSUME OneProcess PROVE OneProcess'
    <3>1. \A m \in Starts : ~Alive(m)
      BY <1>1, <1>4, <2>4 DEF OneProcess, Alive
    <3>2. proc' = 0 \/ proc' \in exitSeen'
      BY <1>1, <1>4
    <3>3. \A m \in Starts : ReadsKeys(m)' => ready' = m \/ disposed'
      BY <1>1, <1>4, <2>3, <2>4 DEF OneProcess
    <3> QED
      BY <1>1, <2>3, <2>4, <3>1, <3>2, <3>3 DEF OneProcess, Alive
  <2>5. NothingWaits'
    BY <2>2 DEF NothingWaits
  <2>6. ExitHarmless
    <3>1. ~slow => \A m \in Starts : os[m] = "alive" => m = proc
      BY DEF McpInv, OneProcess, Alive
    <3>2. \A c \in ToolCalls : call[c].st = "wait" => call[c].n \in Starts
      BY DEF McpInv, IdsInv, Waits
    <3> QED
      BY <1>1, <1>4, <3>1, <3>2 DEF ExitHarmless
  <2> QED
    BY <1>1, <2>1, <2>4, <2>5, <2>6 DEF McpInv
<1> QED
  BY <1>2, <1>3, <1>4

\* A process may be given jobs.
LEMMA RequestShape ==
    ASSUME McpShape, NEW W, NEW toolOf, Request(W, toolOf)
    PROVE  /\ jobs' = [n \in Starts |-> jobs'[n]]
           /\ \A n \in Starts : \A j \in jobs'[n] : j = [f \in JobFields |-> j[f]]
<1> DEFINE asked == { Job(Numbers(W)[c], c, toolOf[c], TRUE) : c \in W }
<1>1. UNCHANGED jobs \/ jobs' = [jobs EXCEPT ![proc] = @ \cup asked]
  BY DEF Request
<1>2. \A j \in asked : j = [f \in JobFields |-> j[f]]
  BY DEF Job, JobFields
<1> HIDE DEF asked
<1>3. /\ jobs = [n \in Starts |-> jobs[n]]
      /\ \A n \in Starts : \A j \in jobs[n] : j = [f \in JobFields |-> j[f]]
  BY DEF McpShape
<1>4. CASE jobs' = [jobs EXCEPT ![proc] = @ \cup asked]
  <2>1. \A n \in Starts : jobs'[n] = jobs[n] \/ jobs'[n] = jobs[n] \cup asked
    BY <1>3, <1>4
  <2>2. jobs' = [n \in Starts |-> jobs'[n]]
    BY <1>3, <1>4
  <2> QED
    BY <1>2, <1>3, <2>1, <2>2
<1> QED
  BY <1>1, <1>3, <1>4

\* A call that finds the client started asks at once, any other awaits the start.
LEMMA CallKeeps ==
    ASSUME McpInv, NEW c \in ToolCalls, NEW t \in ChatTools, CallTool(c, t)
    PROVE  McpInv'
<1>1. /\ ~disposed /\ UNCHANGED <<os, exitSeen, out, proc, fallback, slow>> /\ EnsureStarted
      /\ call[c].st = "idle"
  BY DEF CallTool
<1>2. /\ started' \in Nat /\ start' = [n \in Starts |-> start'[n]] /\ ~disposed'
      /\ \A n \in Starts :
            /\ start'[n] = [f \in StartFields |-> start'[n][f]]
            /\ \/ start'[n] = start[n]
               \/ start'[n].st = "keys" /\ ready = 0 /\ n = ready'
      /\ ready' = ready \/ (ready = 0 /\ ready' # 0)
  <2>1. CASE ready = 0
    <3> DEFINE s == [st |-> "keys", id |-> 0, key |-> IF fallback' THEN "local" ELSE "stored"]
    <3>1. started' = started + 1 /\ ready' = started + 1 /\ disposed' = FALSE
          /\ start' = [start EXCEPT ![started + 1] = s]
      BY <1>1, <2>1 DEF EnsureStarted
    <3>2. s = [f \in StartFields |-> s[f]] /\ s.st = "keys"
      BY DEF StartFields
    <3> HIDE DEF s
    <3>3. /\ start = [n \in Starts |-> start[n]] /\ started \in Nat
          /\ \A n \in Starts : start[n] = [f \in StartFields |-> start[n][f]]
      BY DEF McpInv, McpShape
    <3> QED
      BY <2>1, <3>1, <3>2, <3>3
  <2>2. CASE ready # 0
    BY <1>1, <2>2 DEF EnsureStarted, McpInv, McpShape
  <2> QED
    BY <2>1, <2>2
<1>3. McpShape /\ IdsInv /\ IsFiniteSet({ c })
  BY FS_Singleton DEF McpInv
<1>4. \A n \in Starts : Asks(n)' => Asks(n) /\ start'[n].id = start[n].id
  BY <1>2 DEF Asks
<1>5. \A n \in Starts : ReadsKeys(n)' => ReadsKeys(n) \/ (ready = 0 /\ n = ready')
  BY <1>2 DEF ReadsKeys
<1>6. ASSUME OneProcess PROVE OneProcess'
  <2>1. CASE ready = 0
    <3>1. \A m \in Starts : ~Alive(m) /\ ~ReadsKeys(m)
      BY <1>1, <1>6, <2>1 DEF OneProcess, Forgotten, Starts
    <3>2. \A m \in Starts : ReadsKeys(m)' => m = ready'
      BY <1>5, <3>1
    <3>3. proc' = 0 \/ proc' \in exitSeen'
      <4>1. 1 \in Starts
        BY McpAssumption DEF Starts
      <4> QED
        BY <1>1, <1>6, <2>1, <4>1 DEF OneProcess, Forgotten
    <3> QED
      BY <1>1, <3>1, <3>2, <3>3 DEF OneProcess, Alive
  <2>2. CASE ready # 0
    <3>1. ready' = ready /\ \A m \in Starts : ReadsKeys(m)' => ReadsKeys(m)
      BY <1>2, <1>5, <2>2
    <3> QED
      BY <1>1, <1>2, <1>6, <2>2, <3>1 DEF OneProcess, Alive, Forgotten
  <2> QED
    BY <2>1, <2>2
<1>7. CASE ready # 0 /\ start[ready].st = "up"
  <2> DEFINE a == Asked(c, { c })
             toolOf == [d \in { c } |-> t]
  <2>1. call' = [call EXCEPT ![c] = [a EXCEPT !.tool = t]] /\ Request({ c }, toolOf)
    BY <1>7 DEF CallTool
  <2>2. /\ a = [f \in CallFields |-> a[f]]
        /\ \/ a.st = "failed"
           \/ proc # 0 /\ a.st = "wait" /\ a.n = proc /\ a.id = Numbers({ c })[c]
    <3>1. call[c] = [f \in CallFields |-> call[c][f]]
      BY <1>3 DEF McpShape
    <3>2. CASE proc = 0
      BY <3>2 DEF Asked, Rejected, Idle, CallFields
    <3>3. CASE proc # 0
      BY <3>1, <3>3 DEF Asked, CallFields
    <3> QED
      BY <3>2, <3>3
  <2> HIDE DEF a
  <2> DEFINE b == [a EXCEPT !.tool = t]
  <2>3. /\ b = [f \in CallFields |-> b[f]]
        /\ \/ b.st = "failed"
           \/ proc # 0 /\ b.st = "wait" /\ b.n = proc /\ b.id = Numbers({ c })[c] /\ b.tool = t
    BY <2>2 DEF CallFields
  <2>4. call' = [call EXCEPT ![c] = b]
    BY <2>1
  <2> HIDE DEF b, toolOf
  <2>5. /\ call' = [d \in ToolCalls |-> call'[d]] /\ call'[c] = b
        /\ \A d \in ToolCalls : d # c => call'[d] = call[d]
    BY <1>3, <2>4 DEF McpShape
  <2>6. OwnAnswer' /\ \A d \in ToolCalls : call'[d].st \in { "ensure", "wait" } => call'[d].tool \in ChatTools
    BY <1>3, <2>3, <2>5 DEF IdsInv, OwnAnswer
  <2>7. \A d \in ToolCalls : Waits(d)' =>
           \/ Waits(d) /\ call'[d].id = call[d].id /\ call'[d].n = call[d].n
           \/ d \in { c } /\ call'[d].id = Numbers({ c })[d] /\ call'[d].n \in Starts
    BY <1>3, <2>3, <2>5 DEF Waits, McpShape
  <2>8. IdsInv'
    <3>1. \A d \in { c } : toolOf[d] \in ChatTools
      BY DEF toolOf
    <3>2. /\ { c } \in SUBSET ToolCalls
          /\ \A n \in Starts : \A i \in 1 .. Len(out'[n]) :
                \E k \in 1 .. Len(out[n]) : out'[n][i] = out[n][k]
      BY <1>1
    <3> QED
      BY <1>3, <1>4, <2>1, <2>6, <2>7, <3>1, <3>2, IdsAsked
  <2>9. McpShape'
    <3>1. nextId' \in Nat \ { 0 }
      BY <1>3, <2>1, NumbersFresh DEF Request, McpShape
    <3>2. /\ jobs' = [n \in Starts |-> jobs'[n]]
          /\ \A n \in Starts : \A j \in jobs'[n] : j = [f \in JobFields |-> j[f]]
      BY <1>3, <2>1, RequestShape DEF McpShape
    <3>3. ASSUME NEW d \in ToolCalls PROVE call'[d] = [f \in CallFields |-> call'[d][f]]
      <4>1. call[d] = [f \in CallFields |-> call[d][f]]
        BY <1>3 DEF McpShape
      <4> QED
        BY <2>3, <2>5, <4>1
    <3> QED
      BY <1>1, <1>2, <1>3, <2>5, <3>1, <3>2, <3>3 DEF McpShape
  <2>10. ASSUME OneProcess, NothingWaits PROVE NothingWaits'
    <3>1. \A m \in Starts : ~ReadsKeys(m)
      BY <1>1, <1>7, <2>10 DEF OneProcess, ReadsKeys
    <3> QED
      BY <1>1, <1>2, <1>5, <1>7, <3>1 DEF NothingWaits, Forgotten
  <2> QED
    BY <1>1, <1>6, <2>8, <2>9, <2>10 DEF McpInv
<1>8. CASE ~(ready # 0 /\ start[ready].st = "up")
  <2> DEFINE b == [Idle EXCEPT !.st = "ensure", !.n = NextStart, !.tool = t]
  <2>1. call' = [call EXCEPT ![c] = b] /\ UNCHANGED <<nextId, jobs>>
    BY <1>8 DEF CallTool
  <2>2. b = [f \in CallFields |-> b[f]] /\ b.st = "ensure" /\ b.tool = t
    BY DEF Idle, CallFields
  <2> HIDE DEF b
  <2>3. /\ call' = [d \in ToolCalls |-> call'[d]] /\ call'[c] = b
        /\ \A d \in ToolCalls : d # c => call'[d] = call[d]
    BY <1>3, <2>1 DEF McpShape
  <2>4. McpShape'
    BY <1>1, <1>2, <1>3, <2>1, <2>2, <2>3 DEF McpShape
  <2>5. \A d \in ToolCalls : Waits(d)' => Waits(d) /\ call'[d].id = call[d].id /\ call'[d].n = call[d].n
    BY <2>2, <2>3 DEF Waits
  <2>6. IdsInv'
    <3>1. OwnAnswer' /\ \A d \in ToolCalls : call'[d].st \in { "ensure", "wait" } => call'[d].tool \in ChatTools
      BY <1>3, <2>2, <2>3 DEF IdsInv, OwnAnswer
    <3>2. nextId' \in Nat /\ nextId <= nextId'
      BY <1>3, <2>1 DEF McpShape
    <3> QED
      BY <1>1, <1>3, <1>4, <2>1, <2>5, <3>1, <3>2, IdsKept
  <2>7. NothingWaits => NothingWaits'
    BY <1>1, <1>2, <1>4, <1>5, <2>5 DEF NothingWaits, Forgotten
  <2> QED
    BY <1>1, <1>6, <2>4, <2>6, <2>7 DEF McpInv
<1> QED
  BY <1>7, <1>8

\* dispose: the process is killed.
LEMMA DisposeKeeps == ASSUME McpInv, Dispose PROVE McpInv'
<1>1. /\ disposed' = TRUE /\ proc' = 0 /\ ready' = 0
      /\ os' = IF proc # 0 /\ os[proc] = "alive" THEN [os EXCEPT ![proc] = "killed"] ELSE os
      /\ UNCHANGED <<call, start, exitSeen, jobs, out, started, nextId, fallback, slow>>
  BY DEF Dispose
<1>2. McpShape'
  BY <1>1 DEF McpInv, McpShape
<1>3. IdsInv'
  BY <1>1 DEF McpInv, IdsInv, Waits, Asks, OfId, OwnAnswer
<1>4. ASSUME OneProcess PROVE OneProcess'
  <2>1. ASSUME NEW m \in Starts, Alive(m)' PROVE FALSE
    BY <1>1, <1>4, <2>1 DEF OneProcess, Alive, McpInv, McpShape, Starts
  <2> QED
    BY <1>1, <1>4, <2>1 DEF OneProcess, ReadsKeys, Forgotten
<1>5. NothingWaits => NothingWaits'
  BY <1>1 DEF NothingWaits, ReadsKeys, Forgotten, Asks, Waits
<1> QED
  BY <1>1, <1>2, <1>3, <1>4, <1>5 DEF McpInv

\* A line is read: what is left was there before.
LEMMA ReadFacts ==
    ASSUME McpShape, NEW n \in Starts, out[n] # <<>>, out' = [out EXCEPT ![n] = Tail(@)]
    PROVE  /\ out' \in [Starts -> Seq(Lines)]
           /\ \A m \in Starts : \A i \in 1 .. Len(out'[m]) :
                 \E k \in 1 .. Len(out[m]) : out'[m][i] = out[m][k]
           /\ 1 \in 1 .. Len(out[n]) /\ Head(out[n]) = out[n][1]
<1>1. out \in [Starts -> Seq(Lines)] /\ out[n] \in Seq(Lines) /\ Len(out[n]) \in Nat \ { 0 }
  BY EmptySeq DEF McpShape
<1>2. /\ Tail(out[n]) \in Seq(Lines) /\ Len(Tail(out[n])) = Len(out[n]) - 1
      /\ \A i \in 1 .. Len(Tail(out[n])) : Tail(out[n])[i] = out[n][i + 1]
  BY <1>1, HeadTailProperties
<1>3. /\ out' \in [Starts -> Seq(Lines)] /\ out'[n] = Tail(out[n])
      /\ \A m \in Starts : m # n => out'[m] = out[m]
  BY <1>1, <1>2
<1>4. ASSUME NEW m \in Starts, NEW i \in 1 .. Len(out'[m])
      PROVE  \E k \in 1 .. Len(out[m]) : out'[m][i] = out[m][k]
  <2>1. CASE m = n
    <3>1. i \in 1 .. Len(Tail(out[n])) /\ i + 1 \in 1 .. Len(out[n])
      BY <1>1, <1>2, <1>3, <2>1
    <3> QED
      BY <1>2, <1>3, <2>1, <3>1
  <2>2. CASE m # n
    BY <1>3, <2>2
  <2> QED
    BY <2>1, <2>2
<1> QED
  BY <1>1, <1>3, <1>4

\* A call is repeated with another key: the process it was rejected by is killed, and
\* no start is under way.
LEMMA HealKeeps ==
    ASSUME McpInv, NEW c \in ToolCalls, Waits(c), CanHeal, Heal(c), slow' = slow,
           UNCHANGED <<exitSeen, nextId>>
    PROVE  /\ (~slow' => OneProcess') /\ (~slow' /\ ~fallback' => NothingWaits')
           /\ call' = [d \in ToolCalls |-> call'[d]] /\ start' = [m \in Starts |-> start'[m]]
           /\ os' = [m \in Starts |-> os'[m]] /\ started' \in Nat /\ proc' = 0
           /\ \A d \in ToolCalls : /\ call'[d] = [f \in CallFields |-> call'[d][f]]
                                   /\ call'[d].tool = call[d].tool
                                   /\ d # c => call'[d] = call[d]
                                   /\ d = c => call'[d].st = "ensure"
           /\ \A m \in Starts : /\ start'[m] = [f \in StartFields |-> start'[m][f]]
                                /\ start'[m] = start[m] \/ start'[m].st = "keys"
<1> DEFINE s == [st |-> "keys", id |-> 0, key |-> "local"]
           b == [call[c] EXCEPT !.st = "ensure", !.n = started + 1, !.id = 0]
<1>1. /\ ~fallback /\ fallback' = TRUE /\ proc' = 0 /\ started' = started + 1
      /\ ready' = started + 1 /\ disposed' = FALSE
      /\ os' = IF proc # 0 /\ os[proc] = "alive" THEN [os EXCEPT ![proc] = "killed"] ELSE os
      /\ start' = [start EXCEPT ![started + 1] = s]
      /\ call' = [call EXCEPT ![c] = b]
  BY DEF Heal, CanHeal
<1>2. McpShape /\ started \in Nat
  BY DEF McpInv, McpShape
<1>3. s = [f \in StartFields |-> s[f]] /\ s.st = "keys"
  BY DEF StartFields
<1>4. b = [f \in CallFields |-> b[f]] /\ b.st = "ensure" /\ b.tool = call[c].tool
  <2>1. call[c] = [f \in CallFields |-> call[c][f]]
    BY <1>2 DEF McpShape
  <2> QED
    BY <2>1 DEF CallFields
<1> HIDE DEF s, b
<1>5. /\ start' = [m \in Starts |-> start'[m]]
      /\ \A m \in Starts : /\ start'[m] = [f \in StartFields |-> start'[m][f]]
                           /\ \/ start'[m] = start[m]
                              \/ start'[m].st = "keys" /\ m = ready'
  BY <1>1, <1>2, <1>3 DEF McpShape
<1>6. /\ call' = [d \in ToolCalls |-> call'[d]] /\ call'[c] = b
      /\ \A d \in ToolCalls : d # c => call'[d] = call[d]
  BY <1>1, <1>2 DEF McpShape
<1>7. \A d \in ToolCalls : call'[d] = [f \in CallFields |-> call'[d][f]] /\ call'[d].tool = call[d].tool
  BY <1>2, <1>4, <1>6 DEF McpShape
<1>8. os' = [m \in Starts |-> os'[m]]
  BY <1>1, <1>2 DEF McpShape
<1>9. ASSUME ~slow PROVE OneProcess'
  <2>1. OneProcess /\ \A m \in Starts : ~ReadsKeys(m)
    BY <1>1, <1>9 DEF McpInv, NothingWaits
  <2>2. ASSUME NEW m \in Starts, Alive(m)' PROVE FALSE
    BY <1>1, <1>2, <2>1, <2>2 DEF OneProcess, Alive, McpShape, Starts
  <2>3. \A m \in Starts : ReadsKeys(m)' => m = ready'
    BY <1>5, <2>1 DEF ReadsKeys
  <2>4. ~Forgotten'
    BY <1>1, <1>2 DEF Forgotten
  <2> QED
    BY <1>1, <2>2, <2>3, <2>4 DEF OneProcess
<1> QED
  BY <1>1, <1>2, <1>4, <1>5, <1>6, <1>7, <1>8, <1>9

\* A call is answered.
LEMMA AnsweredKeeps ==
    ASSUME McpInv, NEW n \in Starts, out[n] # <<>>, out' = [out EXCEPT ![n] = Tail(@)],
           NEW c \in ToolCalls, OfId(c, Head(out[n]).id), Answered(c, Head(out[n])),
           UNCHANGED <<exitSeen, slow>>
    PROVE  McpInv'
<1> DEFINE a == Head(out[n])
<1>1. McpShape /\ IdsInv /\ nextId \in Nat \ { 0 } /\ Waits(c)
  BY DEF McpInv, McpShape, OfId
<1>2. /\ out' \in [Starts -> Seq(Lines)]
      /\ \A m \in Starts : \A i \in 1 .. Len(out'[m]) :
            \E k \in 1 .. Len(out[m]) : out'[m][i] = out[m][k]
      /\ 1 \in 1 .. Len(out[n]) /\ a = out[n][1]
  BY <1>1, ReadFacts
<1>3. a.who = c
  BY <1>1, <1>2 DEF IdsInv
<1> HIDE DEF a
<1>4. Answered(c, a) /\ UNCHANGED <<nextId, jobs>>
  BY DEF a, Answered
<1>5. ASSUME call' = [d \in ToolCalls |-> call'[d]], start' = [m \in Starts |-> start'[m]],
             os' = [m \in Starts |-> os'[m]], started' \in Nat, proc' \in { proc, 0 },
             \A d \in ToolCalls : /\ call'[d] = [f \in CallFields |-> call'[d][f]]
                                  /\ d # c => call'[d] = call[d],
             call'[c].st # "wait", call'[c].st = "ok" => call'[c].got = c,
             call'[c].st \in { "ensure", "wait" } => call'[c].tool \in ChatTools,
             \A m \in Starts : /\ start'[m] = [f \in StartFields |-> start'[m][f]]
                               /\ start'[m] = start[m] \/ start'[m].st = "keys"
      PROVE  McpShape' /\ IdsInv'
  <2>1. McpShape'
    <3>1. proc' \in Starts \cup { 0 } /\ nextId' \in Nat \ { 0 } /\ jobs' = jobs
      BY <1>1, <1>4, <1>5 DEF McpShape
    <3> QED
      BY <1>1, <1>2, <1>5, <3>1 DEF McpShape
  <2>2. OwnAnswer' /\ \A d \in ToolCalls : call'[d].st \in { "ensure", "wait" } => call'[d].tool \in ChatTools
    BY <1>1, <1>5 DEF IdsInv, OwnAnswer
  <2>3. \A d \in ToolCalls : Waits(d)' => Waits(d) /\ call'[d].id = call[d].id /\ call'[d].n = call[d].n
    BY <1>5 DEF Waits
  <2>4. \A m \in Starts : Asks(m)' => Asks(m) /\ start'[m].id = start[m].id
    BY <1>5 DEF Asks
  <2>5. nextId' \in Nat /\ nextId <= nextId'
    BY <1>1, <1>4
  <2>6. IdsInv'
    BY <1>1, <1>2, <1>4, <2>2, <2>3, <2>4, <2>5, IdsKept
  <2> QED
    BY <2>1, <2>6
<1>6. CASE a.kind = "auth" /\ CanHeal
  <2>1. Heal(c)
    BY <1>4, <1>6 DEF Answered
  <2>2. /\ (~slow' => OneProcess') /\ (~slow' /\ ~fallback' => NothingWaits')
        /\ call' = [d \in ToolCalls |-> call'[d]] /\ start' = [m \in Starts |-> start'[m]]
        /\ os' = [m \in Starts |-> os'[m]] /\ started' \in Nat /\ proc' = 0
        /\ \A d \in ToolCalls : /\ call'[d] = [f \in CallFields |-> call'[d][f]]
                                /\ call'[d].tool = call[d].tool
                                /\ d # c => call'[d] = call[d]
                                /\ d = c => call'[d].st = "ensure"
        /\ \A m \in Starts : /\ start'[m] = [f \in StartFields |-> start'[m][f]]
                             /\ start'[m] = start[m] \/ start'[m].st = "keys"
    BY <1>1, <1>4, <1>6, <2>1, HealKeeps
  <2>3. call'[c].tool \in ChatTools
    BY <1>1, <2>2 DEF IdsInv, Waits
  <2> QED
    BY <1>5, <2>2, <2>3 DEF McpInv
<1>7. CASE ~(a.kind = "auth" /\ CanHeal)
  <2> DEFINE b == IF a.kind = "json" THEN Settled(a.who) ELSE Rejected
  <2>1. call' = [call EXCEPT ![c] = b] /\ UNCHANGED <<fallback, os, proc, started, ready, disposed, start>>
    BY <1>4, <1>7 DEF Answered
  <2>2. b = [f \in CallFields |-> b[f]] /\ (b.st = "failed" \/ (b.st = "ok" /\ b.got = c))
    BY <1>3 DEF Settled, Rejected, Idle, CallFields
  <2> HIDE DEF b
  <2>3. /\ call' = [d \in ToolCalls |-> call'[d]] /\ call'[c] = b
        /\ \A d \in ToolCalls : d # c => call'[d] = call[d]
    BY <1>1, <2>1 DEF McpShape
  <2>4. McpShape' /\ IdsInv'
    BY <1>1, <1>5, <2>1, <2>2, <2>3 DEF McpShape
  <2>5. \A d \in ToolCalls : Waits(d)' => Waits(d)
    BY <2>2, <2>3 DEF Waits
  <2>6. OneProcess => OneProcess'
    BY <2>1 DEF OneProcess, Alive, ReadsKeys, Forgotten
  <2>7. NothingWaits => NothingWaits'
    BY <2>1, <2>5 DEF NothingWaits, ReadsKeys, Forgotten, Asks
  <2> QED
    BY <2>1, <2>4, <2>6, <2>7 DEF McpInv
<1> QED
  BY <1>6, <1>7

\* A start is answered: what awaits it asks the process the client has now.
LEMMA InitializedKeeps ==
    ASSUME McpInv, NEW n \in Starts, out[n] # <<>>, out' = [out EXCEPT ![n] = Tail(@)],
           NEW m \in Starts, Asks(m), Initialized(m), UNCHANGED <<exitSeen, slow>>
    PROVE  McpInv'
<1> DEFINE W == { c \in ToolCalls : call[c].st = "ensure" /\ call[c].n = m }
           toolOf == [c \in W |-> call[c].tool]
<1>1. McpShape /\ IdsInv /\ nextId \in Nat \ { 0 }
  BY DEF McpInv, McpShape
<1>2. /\ start' = [start EXCEPT ![m].st = "up"]
      /\ call' = [c \in ToolCalls |-> IF c \in W THEN Asked(c, W) ELSE call[c]]
      /\ Request(W, toolOf)
      /\ UNCHANGED <<fallback, os, proc, started, ready, disposed>>
  BY DEF Initialized
<1>3. W \in SUBSET ToolCalls /\ IsFiniteSet(W) /\ \A c \in W : toolOf[c] \in ChatTools
  <2>1. W \in SUBSET ToolCalls /\ \A c \in W : toolOf[c] \in ChatTools
    BY <1>1 DEF IdsInv
  <2> QED
    BY <2>1, McpAssumption, FS_Subset
<1>4. \A c \in W : call[c].tool \in ChatTools
  BY <1>1 DEF IdsInv
<1> HIDE DEF W, toolOf
<1>5. /\ out' \in [Starts -> Seq(Lines)]
      /\ \A k \in Starts : \A i \in 1 .. Len(out'[k]) :
            \E h \in 1 .. Len(out[k]) : out'[k][i] = out[k][h]
  BY <1>1, ReadFacts
<1>6. /\ start' = [k \in Starts |-> start'[k]]
      /\ \A k \in Starts : /\ start'[k] = [f \in StartFields |-> start'[k][f]]
                           /\ k # m => start'[k] = start[k]
                           /\ k = m => start'[k].st = "up"
  <2>1. /\ start = [k \in Starts |-> start[k]]
        /\ \A k \in Starts : start[k] = [f \in StartFields |-> start[k][f]]
    BY <1>1 DEF McpShape
  <2> DEFINE s == [start[m] EXCEPT !.st = "up"]
  <2>2. start' = [start EXCEPT ![m] = s]
    BY <1>2, <2>1
  <2>3. s = [f \in StartFields |-> s[f]] /\ s.st = "up"
    BY <2>1 DEF StartFields
  <2> HIDE DEF s
  <2> QED
    BY <2>1, <2>2, <2>3
<1>7. call' = [c \in ToolCalls |-> call'[c]]
  BY <1>2
<1>8. ASSUME NEW c \in ToolCalls
      PROVE  /\ call'[c] = [f \in CallFields |-> call'[c][f]]
             /\ \/ call'[c] = call[c]
                \/ call'[c].st = "failed"
                \/ /\ c \in W /\ proc # 0 /\ call'[c].st = "wait" /\ call'[c].n = proc
                   /\ call'[c].id = Numbers(W)[c] /\ call'[c].tool = call[c].tool
  <2>1. call[c] = [f \in CallFields |-> call[c][f]]
    BY <1>1 DEF McpShape
  <2>2. CASE c \notin W
    BY <1>2, <2>1, <2>2
  <2>3. CASE c \in W /\ proc = 0
    <3>1. call'[c] = Rejected
      BY <1>2, <2>3 DEF Asked
    <3> QED
      BY <3>1 DEF Rejected, Idle, CallFields
  <2>4. CASE c \in W /\ proc # 0
    <3>1. call'[c] = [call[c] EXCEPT !.st = "wait", !.n = proc, !.id = Numbers(W)[c]]
      BY <1>2, <2>4 DEF Asked
    <3> QED
      BY <2>1, <2>4, <3>1 DEF CallFields
  <2> QED
    BY <2>2, <2>3, <2>4
<1>9. McpShape'
  <2>1. nextId' \in Nat \ { 0 }
    BY <1>1, <1>2, <1>3, NumbersFresh DEF Request
  <2>2. /\ jobs' = [k \in Starts |-> jobs'[k]]
        /\ \A k \in Starts : \A j \in jobs'[k] : j = [f \in JobFields |-> j[f]]
    BY <1>1, <1>2, RequestShape
  <2> QED
    BY <1>1, <1>2, <1>5, <1>6, <1>7, <1>8, <2>1, <2>2 DEF McpShape
<1>10. OwnAnswer' /\ \A c \in ToolCalls : call'[c].st \in { "ensure", "wait" } =>
                                            call'[c].tool \in ChatTools
  BY <1>1, <1>4, <1>8 DEF IdsInv, OwnAnswer
<1>11. \A c \in ToolCalls : Waits(c)' =>
          \/ Waits(c) /\ call'[c].id = call[c].id /\ call'[c].n = call[c].n
          \/ c \in W /\ call'[c].id = Numbers(W)[c] /\ call'[c].n \in Starts
  BY <1>1, <1>8 DEF Waits, McpShape
<1>12. \A k \in Starts : Asks(k)' => Asks(k) /\ start'[k].id = start[k].id
  BY <1>6 DEF Asks
<1>13. IdsInv'
  BY <1>1, <1>2, <1>3, <1>5, <1>10, <1>11, <1>12, IdsAsked
<1>14. \A k \in Starts : ReadsKeys(k)' => ReadsKeys(k)
  BY <1>6 DEF ReadsKeys
<1>15. OneProcess => OneProcess'
  BY <1>2, <1>14 DEF OneProcess, Alive, Forgotten
<1>16. ASSUME NothingWaits PROVE NothingWaits'
  BY <1>2, <1>14, <1>16 DEF NothingWaits, Forgotten
<1> QED
  BY <1>2, <1>9, <1>13, <1>15, <1>16 DEF McpInv

\* A line of no use.
LEMMA IgnoredKeeps ==
    ASSUME McpInv, NEW n \in Starts, out[n] # <<>>, out' = [out EXCEPT ![n] = Tail(@)],
           UNCHANGED <<call, start, started, ready, proc, nextId, jobs, os, disposed, fallback,
                       exitSeen, slow>>
    PROVE  McpInv'
<1>1. McpShape /\ IdsInv /\ nextId \in Nat \ { 0 }
  BY DEF McpInv, McpShape
<1>2. /\ out' \in [Starts -> Seq(Lines)]
      /\ \A m \in Starts : \A i \in 1 .. Len(out'[m]) :
            \E k \in 1 .. Len(out[m]) : out'[m][i] = out[m][k]
  BY <1>1, ReadFacts
<1>3. McpShape'
  BY <1>1, <1>2 DEF McpShape
<1>4. IdsInv'
  <2>1. /\ OwnAnswer'
        /\ \A d \in ToolCalls : call'[d].st \in { "ensure", "wait" } => call'[d].tool \in ChatTools
    BY <1>1 DEF IdsInv, OwnAnswer
  <2>2. \A d \in ToolCalls : Waits(d)' =>
           Waits(d) /\ call'[d].id = call[d].id /\ call'[d].n = call[d].n
    BY DEF Waits
  <2>3. \A m \in Starts : Asks(m)' => Asks(m) /\ start'[m].id = start[m].id
    BY DEF Asks
  <2>4. nextId' \in Nat /\ nextId <= nextId'
    BY <1>1
  <2> QED
    BY <1>1, <1>2, <2>1, <2>2, <2>3, <2>4, IdsKept
<1>5. OneProcess => OneProcess'
  BY DEF OneProcess, Alive, ReadsKeys, Forgotten
<1>6. NothingWaits => NothingWaits'
  BY DEF NothingWaits, ReadsKeys, Forgotten, Asks, Waits
<1> QED
  BY <1>3, <1>4, <1>5, <1>6 DEF McpInv

LEMMA OnDataKeeps == ASSUME McpInv, NEW n \in Starts, OnData(n) PROVE McpInv'
<1> DEFINE a == Head(out[n])
           owners == { c \in ToolCalls : call[c].st = "wait" /\ call[c].id = a.id }
           begun == { m \in Starts : start[m].st = "handshake" /\ start[m].id = a.id }
<1>1. /\ out[n] # <<>> /\ out' = [out EXCEPT ![n] = Tail(@)] /\ UNCHANGED <<exitSeen, slow>>
      /\ \/ UNCHANGED <<call, start, started, ready, proc, nextId, jobs, os, disposed, fallback>>
         \/ \E c \in owners : Answered(c, a)
         \/ \E m \in begun : Initialized(m)
  BY DEF OnData
<1>2. CASE UNCHANGED <<call, start, started, ready, proc, nextId, jobs, os, disposed, fallback>>
  BY <1>1, <1>2, IgnoredKeeps
<1>3. CASE \E c \in owners : Answered(c, a)
  <2>1. PICK c \in owners : Answered(c, a)
    BY <1>3
  <2>2. c \in ToolCalls /\ OfId(c, a.id)
    BY DEF OfId, Waits
  <2> QED
    BY <1>1, <2>1, <2>2, AnsweredKeeps
<1>4. CASE \E m \in begun : Initialized(m)
  <2>1. PICK m \in begun : Initialized(m)
    BY <1>4
  <2>2. m \in Starts /\ Asks(m)
    BY DEF Asks
  <2> QED
    BY <1>1, <2>1, <2>2, InitializedKeeps
<1> QED
  BY <1>1, <1>2, <1>3, <1>4

LEMMA McpStart == McpInit => McpInv
<1> SUFFICES ASSUME McpInit PROVE McpInv
  OBVIOUS
<1>1. <<>> \in Seq(Lines) /\ Len(<<>>) = 0
  BY EmptySeq
<1>2. \A c \in ToolCalls : call[c] = Idle /\ Idle = [f \in CallFields |-> Idle[f]] /\ Idle.st = "idle"
  BY DEF McpInit, Idle, CallFields
<1>3. /\ \A n \in Starts : start[n] = NoStart /\ os[n] = "none" /\ jobs[n] = {} /\ out[n] = <<>>
      /\ NoStart = [f \in StartFields |-> NoStart[f]] /\ NoStart.st = "none"
  BY DEF McpInit, NoStart, StartFields
<1>4. McpShape
  BY <1>1, <1>2, <1>3 DEF McpInit, McpShape
<1>5. IdsInv
  BY <1>1, <1>2, <1>3 DEF IdsInv, Waits, Asks, OwnAnswer
<1>6. OneProcess /\ NothingWaits
  BY <1>2, <1>3 DEF McpInit, OneProcess, NothingWaits, Alive, ReadsKeys, Forgotten, Waits, Asks
<1> QED
  BY <1>4, <1>5, <1>6 DEF McpInv

LEMMA McpKept ==
    ASSUME McpInv, McpNext \/ UNCHANGED mcpVars
    PROVE  McpInv' /\ ExitHarmless
<1>1. CASE UNCHANGED mcpVars
  <2>1. McpShape' /\ IdsInv'
    BY <1>1 DEF mcpVars, McpInv, McpShape, IdsInv, Waits, Asks, OfId, OwnAnswer
  <2>2. (OneProcess => OneProcess') /\ (NothingWaits => NothingWaits')
    BY <1>1 DEF mcpVars, OneProcess, NothingWaits, Alive, ReadsKeys, Forgotten, Waits, Asks
  <2> QED
    BY <1>1, <2>1, <2>2 DEF McpInv, mcpVars, ExitHarmless
<1>2. ASSUME NEW c \in ToolCalls, TimeoutCall(c) \/ \E t \in ChatTools : CallTool(c, t)
      PROVE  McpInv' /\ ExitHarmless
  <2>1. McpInv'
    BY <1>2, TimeoutKeeps, CallKeeps
  <2>2. exitSeen' = exitSeen
    BY <1>2 DEF TimeoutCall, Timeout, CallTool
  <2> QED
    BY <2>1, <2>2 DEF ExitHarmless
<1>3. ASSUME NEW n \in Starts,
             \/ Spawn(n) \/ StartFails(n) \/ TimeoutStart(n) \/ JobStep(n) \/ ProcDies(n)
             \/ OnData(n)
      PROVE  McpInv' /\ ExitHarmless
  <2>1. McpInv'
    BY <1>3, SpawnKeeps, StartFailsKeeps, TimeoutKeeps, JobKeeps, DiesKeeps, OnDataKeeps
  <2>2. exitSeen' = exitSeen
    BY <1>3 DEF Spawn, StartFails, TimeoutStart, Timeout, JobStep, ProcDies, OnData
  <2> QED
    BY <2>1, <2>2 DEF ExitHarmless
<1>4. CASE Dispose
  BY <1>4, DisposeKeeps DEF Dispose, ExitHarmless
<1> QED
  BY <1>1, <1>2, <1>3, <1>4, ExitKeeps DEF McpNext

--------------------------------------------------------------------------------
(* The editor *)

RemoteInv == ReviewInv /\ McpInv

(***************************************************************************)
(* autoVerify.ts:271-342, mcpClient.ts:115-191, 204-318.  Whatever is      *)
(* edited, closed, answered late or dies: a pending review keeps its       *)
(* entry, squiggles appear on the text that was scanned, a call is given   *)
(* its own answer, and an exit rejects nothing that lives.                 *)
(***************************************************************************)
THEOREM EditorAlwaysSound == RemoteSpec => EditorSound
<1>1. RemoteInit => RemoteInv
  BY ReviewStart, McpStart DEF RemoteInit, RemoteInv
<1>2. RemoteInv /\ [RemoteNext]_Parts =>
         /\ RemoteInv'
         /\ PendingKept' /\ ShownOnScannedText /\ LabelsRight' /\ OwnAnswer' /\ ExitHarmless
  <2> SUFFICES ASSUME RemoteInv, [RemoteNext]_Parts
               PROVE  /\ RemoteInv' /\ ShownOnScannedText /\ ExitHarmless
                      /\ PendingKept' /\ LabelsRight' /\ OwnAnswer'
    OBVIOUS
  <2>1. AutoVerifyNext \/ UNCHANGED verifyVars
    BY DEF RemoteNext, Parts
  <2>2. McpNext \/ UNCHANGED mcpVars
    BY DEF RemoteNext, Parts
  <2>3. ReviewInv' /\ ShownOnScannedText
    BY <2>1, ReviewKept DEF RemoteInv
  <2>4. McpInv' /\ ExitHarmless
    BY <2>2, McpKept DEF RemoteInv
  <2> QED
    BY <2>3, <2>4 DEF RemoteInv, ReviewInv, McpInv, IdsInv
<1> QED
  BY <1>1, <1>2, PTL DEF RemoteSpec, EditorSound
================================================================================
