------------------------------ MODULE AutoVerify ------------------------------
(***************************************************************************)
(* The editor extension's automatic review, vscode-extension/src:          *)
(* autoVerify.ts with the classifier and the registry of detect.ts, the    *)
(* suggestion store, and the REST client it calls.                         *)
(*                                                                         *)
(* One document is edited, closed and opened again while timers and        *)
(* reviews of earlier versions are under way.  Every await of analyze is   *)
(* a step of its own; what runs between two awaits is one action.  A text  *)
(* is the number of the edit that made it, a line is a number.             *)
(***************************************************************************)
EXTENDS Naturals, Sequences

CONSTANTS
    EditKinds,      \* the edits: sets of content changes
    Blocks,         \* code blocks the gateway generates
    NoBlock,
    SuggestionIds,  \* role and lines, the same in every report
    MaxEdits,       \* bound on edits
    MaxLives,       \* bound on how often the document is opened
    MaxMoves,       \* bound on what else the user does
    SnapshotCap,    \* SNAPSHOT_CAP
    RegistryCap,    \* the registry's cap
    BadKey,         \* the backend rejects the stored API key
    Local           \* the backend is on localhost

ASSUME AutoVerifyAssumption ==
    /\ NoBlock \notin Blocks
    /\ \A c \in UNION EditKinds :
          c \in [start : Nat, end : Nat, newlines : Nat, large : BOOLEAN, added : BOOLEAN,
                 replaces : BOOLEAN, netZero : BOOLEAN, block : Blocks \cup { NoBlock }]
    /\ MaxEdits \in Nat /\ MaxLives \in Nat \ { 0 } /\ MaxMoves \in Nat
    /\ SnapshotCap \in Nat \ { 0 } /\ RegistryCap \in Nat \ { 0 }
    /\ BadKey \in BOOLEAN /\ Local \in BOOLEAN

VARIABLES
    doc,        \* the document: open, life (which opening), version, text
    edits,      \* how many edits were made
    moves,      \* how many other things the user did
    enabled,    \* vigilagent.autoVerify
    snapshots,  \* recent versions with their text
    registry,   \* the gateway's recent blocks, newest first
    gateway,    \* pendingGateway
    sched,      \* scheduledVersions and pendingRegions: at most one entry
    timer,      \* the debounce timer is armed
    scans,      \* the runs of analyze that await an answer
    command,    \* a command of the palette that awaits its answer
    healed,     \* localDevFallbackUsed and llmKeyFallbackUsed of the client
    dismissed,  \* suggestion ids the user dismissed
    diag,       \* the squiggles
    sugg,       \* the stored suggestions
    record,     \* the latest label in the findings view, and what it is about
    crossed     \* history: a scan of a closed document removed a newer entry

verifyVars == <<doc, edits, moves, enabled, snapshots, registry, gateway, sched, timer,
                scans, command, healed, dismissed, diag, sugg, record, crossed>>
shownVars == <<dismissed, diag, sugg, record>>

NoSchedule == [version |-> 0]
NoCommand == [kind |-> "none"]
NoRecord == [verified |-> FALSE, matched |-> FALSE]
NoReport == [ids |-> {}, by |-> "nobody"]
Report(ids, by) == [ids |-> ids, by |-> by]

AutoVerifyInit ==
    /\ doc = [open |-> TRUE, life |-> 1, version |-> 1, text |-> 0]
    /\ edits = 0 /\ moves = 0 /\ enabled = TRUE /\ snapshots = <<>> /\ registry = <<>>
    /\ gateway = NoBlock /\ sched = NoSchedule /\ timer = FALSE /\ scans = {}
    /\ command = NoCommand /\ healed = [auth |-> FALSE, llm |-> FALSE]
    /\ dismissed = {} /\ diag = NoReport /\ sugg = {} /\ record = NoRecord /\ crossed = FALSE

--------------------------------------------------------------------------------

\* A sequence kept to its last, or first, n elements.
LastOf(s, n) == SubSeq(s, IF Len(s) > n THEN Len(s) - n + 1 ELSE 1, Len(s))
FirstOf(s, n) == SubSeq(s, 1, IF Len(s) > n THEN n ELSE Len(s))

\* The text is one a version at least two back had.
isLikelyUndoRedo(text, version) ==
    \E i \in DOMAIN snapshots :
        snapshots[i].text = text /\ version - snapshots[i].version >= 2

\* classifyEdit: its vetoes, and its score against SCAN_THRESHOLD.
Vetoed(c, undo) == undo \/ ~c.added \/ c.netZero

ScanWorthy(c, burst) ==
    (IF c.newlines >= 1 THEN 2 ELSE 0) + (IF c.large THEN 2 ELSE 0)
        + (IF c.replaces THEN 1 ELSE 0) + (IF burst THEN 1 ELSE 0) >= 2

\* GatewayOutputRegistry.match: an insertion of two lines or more of a known block.
Matches(c) == c.newlines >= 1 /\ c.block \in { registry[i] : i \in DOMAIN registry }

\* regionFromChanges: from the first to the last line of the ranges that were replaced.
\* A range is the one before the edit, so the end of an insertion is its start.
regionFromChanges(E) ==
    [start |-> CHOOSE l \in { c.start : c \in E } : \A c \in E : l <= c.start,
     end |-> CHOOSE l \in { c.end : c \in E } : \A c \in E : c.end <= l]

\* getText of a region that ends at the beginning of its last line, and the lines the
\* edit put into the document.
LinesOf(region) == { l \in 0 .. region.end : region.start <= l /\ l < region.end }
Inserted(E) == UNION { c.start .. (c.start + c.newlines) : c \in { d \in E : d.added } }

CancelPending == timer' = FALSE /\ sched' = NoSchedule

\* onDidChangeTextDocument with scheduleAnalysis.  A burst is an edit with none before
\* it in the last moment; a text that is no fresh one comes from undo or redo.
Edit(E, burst, text) ==
    LET version == doc.version + 1
        undo == isLikelyUndoRedo(text, version)
        kept == { c \in E : ~Vetoed(c, undo) }
        matched == { c \in kept : Matches(c) }
    IN  /\ doc.open /\ edits < MaxEdits
        /\ burst \/ doc.version > 1
        /\ text \in { edits + 1 } \cup { snapshots[i].text : i \in DOMAIN snapshots }
        /\ doc' = [doc EXCEPT !.version = version, !.text = text]
        /\ edits' = edits + 1
        /\ IF ~enabled THEN UNCHANGED <<snapshots, gateway, sched, timer>>
           ELSE /\ snapshots' = LastOf(Append(snapshots, [version |-> version, text |-> text]),
                                       SnapshotCap)
                /\ gateway' \in IF matched = {} THEN { gateway } ELSE { c.block : c \in matched }
                /\ IF matched # {} \/ \E c \in kept : ScanWorthy(c, burst)
                   THEN /\ timer' = TRUE
                        /\ sched' = [version |-> version, region |-> regionFromChanges(E),
                                     inserted |-> Inserted(E), matched |-> matched # {}]
                   ELSE IF kept # E THEN CancelPending ELSE UNCHANGED <<sched, timer>>
        /\ UNCHANGED <<moves, enabled, registry, scans, command, healed, shownVars, crossed>>

\* The first part of analyze, up to its first await.
Analyze ==
    /\ timer
    /\ timer' = FALSE
    /\ scans' = IF sched = NoSchedule \/ doc.version # sched.version THEN scans
                ELSE scans \cup { [version |-> doc.version, text |-> doc.text,
                                   code |-> LinesOf(sched.region), entry |-> sched,
                                   block |-> gateway, phase |-> "verify", sent |-> healed,
                                   closed |-> "no"] }
    /\ gateway' = IF sched = NoSchedule THEN gateway ELSE NoBlock
    /\ UNCHANGED <<doc, edits, moves, enabled, snapshots, registry, sched, command, healed, shownVars,
                   crossed>>

\* isStale: the version of a closed document is the one it was closed with.
Stale(s) == IF s.closed = "no" THEN doc.version # s.version ELSE s.closed = "stale"

OwnsEntry(s) == sched.version = s.version

\* The finally block, for the entry this scan owns.
Finally(s) ==
    /\ scans' = scans \ { s }
    /\ sched' = IF OwnsEntry(s) THEN NoSchedule ELSE sched
    /\ crossed' = (crossed \/ (OwnsEntry(s) /\ s.closed # "no"))

\* The answer to a request of the REST client: "ok", or an error it retries at most once
\* for each reason, or one it passes on.  The backend refuses an empty code.
Outcomes(s) ==
    { "error" } \cup (IF BadKey /\ ~s.sent.auth THEN { "auth" }
                      ELSE IF s.code = {} THEN { "refused" } ELSE { "ok", "provider" })

Heals(s, a) ==
    \/ a = "auth" /\ Local /\ ~healed.auth
    \/ a = "provider" /\ ~s.sent.llm /\ ~healed.llm

Resend(s, a) ==
    LET now == IF a = "auth" THEN [healed EXCEPT !.auth = TRUE] ELSE [healed EXCEPT !.llm = TRUE]
    IN  /\ healed' = now
        /\ scans' = (scans \ { s }) \cup { [s EXCEPT !.sent = now] }
        /\ UNCHANGED <<sched, crossed, shownVars>>

\* client.verify returned, or failed and client.dualEngine is tried.
VerifyReturns(s, a) ==
    /\ s \in scans /\ s.phase = "verify" /\ a \in Outcomes(s)
    /\ IF Heals(s, a) THEN Resend(s, a)
       ELSE /\ UNCHANGED healed
            /\ IF a # "ok"
               THEN /\ scans' = (scans \ { s }) \cup { [s EXCEPT !.phase = "fallback",
                                                                 !.sent = healed] }
                    /\ UNCHANGED <<sched, crossed, shownVars>>
               ELSE /\ Finally(s)
                    /\ UNCHANGED dismissed
                    /\ IF Stale(s) THEN UNCHANGED <<diag, sugg, record>>
                       ELSE \E ids \in SUBSET SuggestionIds :
                               /\ sugg' = ids \ dismissed
                               /\ diag' = Report(ids, "auto")
                               /\ record' = [verified |-> s.block # NoBlock,
                                                 matched |-> s.entry.matched]
    /\ UNCHANGED <<doc, edits, moves, enabled, snapshots, registry, gateway, timer, command>>

FallbackReturns(s, a) ==
    /\ s \in scans /\ s.phase = "fallback" /\ a \in Outcomes(s)
    /\ IF Heals(s, a) THEN Resend(s, a)
       ELSE /\ Finally(s)
            /\ diag' = IF a = "ok" /\ ~Stale(s) THEN Report({}, "auto") ELSE diag
            /\ UNCHANGED <<healed, dismissed, sugg, record>>
    /\ UNCHANGED <<doc, edits, moves, enabled, snapshots, registry, gateway, timer, command>>

ScanStep(s) == \E a \in { "ok", "auth", "provider", "refused", "error" } :
                  VerifyReturns(s, a) \/ FallbackReturns(s, a)

--------------------------------------------------------------------------------

\* onDidCloseTextDocument: the scans in flight go on.
Close ==
    /\ doc.open
    /\ doc' = [doc EXCEPT !.open = FALSE]
    /\ CancelPending
    /\ snapshots' = <<>> /\ gateway' = NoBlock /\ diag' = NoReport /\ sugg' = {}
    /\ scans' = { IF s.closed # "no" THEN s
                  ELSE [s EXCEPT !.closed = IF Stale(s) THEN "stale" ELSE "fresh"] : s \in scans }
    /\ UNCHANGED <<edits, moves, enabled, registry, command, healed, dismissed, record, crossed>>

\* It is opened again, perhaps changed by another program meanwhile.
Open ==
    /\ ~doc.open /\ doc.life < MaxLives
    /\ \E text \in { doc.text, edits + 1 } :
          doc' = [open |-> TRUE, life |-> doc.life + 1, version |-> 1, text |-> text]
    /\ edits' = edits + 1
    /\ UNCHANGED <<moves, enabled, snapshots, registry, gateway, sched, timer, scans, command, healed,
                   shownVars, crossed>>

Move == moves < MaxMoves /\ moves' = moves + 1

\* onDidChangeConfiguration: switching off clears what a visible editor shows.
Configure ==
    /\ Move
    /\ enabled' = ~enabled
    /\ \E visible \in BOOLEAN :
          IF enabled /\ visible /\ doc.open THEN diag' = NoReport /\ sugg' = {}
          ELSE UNCHANGED <<diag, sugg>>
    /\ UNCHANGED <<doc, edits, snapshots, registry, gateway, sched, timer, scans, command, healed,
                   dismissed, record, crossed>>

\* A response of the gateway's chat model: its code blocks are registered.
GatewayChat(b) ==
    /\ Move
    /\ registry' = FirstOf(<<b>> \o registry, RegistryCap)
    /\ UNCHANGED <<doc, edits, enabled, snapshots, gateway, sched, timer, scans, command, healed,
                   shownVars, crossed>>

\* verifySelection, and scanCurrentFile or dualEngineAnalysis, which drop the suggestions first.
RunCommand(kind) ==
    /\ Move /\ doc.open /\ command = NoCommand
    /\ command' = [kind |-> kind]
    /\ sugg' = IF kind = "verify" THEN sugg ELSE {}
    /\ UNCHANGED <<doc, edits, enabled, snapshots, registry, gateway, sched, timer, scans, healed,
                   dismissed, diag, record, crossed>>

\* Its answer is shown whatever the document has become; a failure is only reported.
CommandReturns ==
    /\ command # NoCommand
    /\ command' = NoCommand
    /\ \/ UNCHANGED <<diag, sugg, record>>
       \/ /\ record' = NoRecord
          /\ IF command.kind = "verify"
             THEN \E ids \in SUBSET SuggestionIds : /\ sugg' = ids \ dismissed
                                          /\ diag' = Report(ids, "command")
             ELSE UNCHANGED <<diag, sugg>>
    /\ UNCHANGED <<doc, edits, moves, enabled, snapshots, registry, gateway, sched, timer, scans, healed,
                   dismissed, crossed>>

\* dismissSuggestion: the squiggles are rebuilt from the suggestions that remain.
Dismiss(id) ==
    /\ Move /\ id \in sugg
    /\ dismissed' = dismissed \cup { id }
    /\ sugg' = sugg \ { id }
    /\ diag' = Report(sugg', diag.by)
    /\ UNCHANGED <<doc, edits, enabled, snapshots, registry, gateway, sched, timer, scans, command,
                   healed, record, crossed>>

\* What happens by itself, in time.
ReviewGoesOn == Analyze \/ \E s \in scans : ScanStep(s)

AutoVerifyNext ==
    \/ \E E \in EditKinds, burst \in BOOLEAN, t \in 0 .. MaxEdits : Edit(E, burst, t)
    \/ ReviewGoesOn
    \/ Close \/ Open \/ Configure
    \/ \E b \in Blocks : GatewayChat(b)
    \/ \E kind \in { "verify", "scan" } : RunCommand(kind)
    \/ CommandReturns
    \/ \E id \in SuggestionIds : Dismiss(id)

--------------------------------------------------------------------------------

(***************************************************************************)
(* autoVerify.ts:289-293, 336-341.  "The finally block must only delete    *)
(* the entry it owns, otherwise it would wipe the newer pending scan": an  *)
(* armed timer finds its entry, whatever scans of earlier versions end     *)
(* meanwhile.  A scan that outlives its document is told apart by version  *)
(* alone, and the document opened next counts from one: `crossed` excuses  *)
(* that case.                                                              *)
(***************************************************************************)
PendingKept == timer => sched # NoSchedule \/ crossed

(***************************************************************************)
(* autoVerify.ts:299-308, 320-322.  Squiggles of an automatic scan appear  *)
(* only on the text that was scanned, unless its document was closed while *)
(* the scan was in flight.                                                 *)
(***************************************************************************)
ShownOnScannedText ==
    \A s \in scans \ scans' :
        doc' = doc /\ diag' # diag /\ s.closed = "no" => doc.open /\ doc.text = s.text

(***************************************************************************)
(* autoVerify.ts:161-185, 279-280, 344-372; suggestionStore.ts:16-19.  A   *)
(* scan of an insertion the registry knows is recorded as verified, and    *)
(* what the user dismissed is not suggested again.                         *)
(***************************************************************************)
LabelsRight == (record.matched => record.verified) /\ sugg \cap dismissed = {}

\* A review is scheduled or under way.
ReviewsPending == timer \/ scans # {}

(***************************************************************************)
(* autoVerify.ts:216-221: "Compute the union of all changed ranges - this  *)
(* is the bulk-inserted region."  The lines an edit inserted are among the *)
(* lines sent for review.                                                  *)
(***************************************************************************)
InsertedScanned == \A s \in scans : s.entry.inserted \subseteq s.code
===============================================================================
