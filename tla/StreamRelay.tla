------------------------------ MODULE StreamRelay ------------------------------
(***************************************************************************)
(* Streaming one answer (internal/llm/provider.go StreamWithFailover and   *)
(* streamAttempt; the provider adapters' Stream; the readers in agent.go). *)
(* A producer goroutine reads the provider's pieces into the raw channel,  *)
(* a relay goroutine copies them to the wrapped channel, dropping what     *)
(* finds it full, and the agent reads until the finishing chunk or the     *)
(* close.  The context may be cancelled at any moment.                     *)
(*                                                                         *)
(* The adapters differ in how they send: "select" gives up when the        *)
(* context is done, "blocking" does not, and "decoder" is                  *)
(* ParseOpenAIStyleSSE, whose last chunk is sent only if there is room.    *)
(***************************************************************************)
EXTENDS Integers, SequencesExt

CONSTANTS
    Pieces,         \* pieces of content the provider has
    RawSize,        \* room in the adapter's channel (32, deepseek 64)
    WrappedSize,    \* room in the relay's channel (32)
    MaxStreamTries  \* the routed provider and its fallbacks

ASSUME StreamRelayAssumption ==
    { Pieces, RawSize, WrappedSize, MaxStreamTries } \subseteq Nat \ { 0 }

AdapterOf == [anthropic |-> "select", openai |-> "select", cohere |-> "select",
              gemini |-> "blocking", deepseek |-> "blocking", groq |-> "decoder",
              mistral |-> "decoder", nvidia |-> "decoder", openrouter |-> "decoder"]

AdapterKinds == { AdapterOf[p] : p \in DOMAIN AdapterOf }

VARIABLES
    tryNo,          \* the attempt under way
    adapter,        \* the kind of the adapter whose stream opened
    piecesSent,     \* pieces the producer has read and sent
    producer,       \* "unopened", "reading", "sending", "ending", "extra", "over"
    raw, wrapped,   \* the channels: a piece is its number, the finishing chunk 0
    ctxDone,
    relay,          \* "unopened", "relaying", "finished", "failed", "closed"
    listener,       \* "waiting", "reading", "finished", "closed", "refused"
    relayed,        \* what the relay took from raw, in order
    received,       \* what the agent has read, in order
    full,           \* history: the relay has dropped a chunk
    broke,          \* history: the provider's stream ended early
    outcomes,       \* [1 .. MaxStreamTries -> results recorded for the try]
    costs           \* costs recorded with the budget manager

streamChannels == <<raw, wrapped, relayed, received, full>>
relayVars == <<tryNo, adapter, piecesSent, producer, raw, wrapped, ctxDone, relay,
               listener, relayed, received, full, broke, outcomes, costs>>

Finish == 0

StreamRelayInit ==
    /\ tryNo = 1 /\ adapter \in AdapterKinds /\ piecesSent = 0
    /\ producer = "unopened" /\ relay = "unopened" /\ listener = "waiting"
    /\ raw = <<>> /\ wrapped = <<>> /\ relayed = <<>> /\ received = <<>>
    /\ ctxDone = FALSE /\ full = FALSE /\ broke = FALSE /\ costs = 0
    /\ outcomes = [i \in 1 .. MaxStreamTries |-> <<>>]

Records(result) == outcomes' = [outcomes EXCEPT ![tryNo] = Append(@, result)]

--------------------------------------------------------------------------------
(* Opening *)

NextTry ==
    IF tryNo < MaxStreamTries
    THEN tryNo' = tryNo + 1 /\ UNCHANGED listener
    ELSE listener' = "refused" /\ UNCHANGED tryNo

\* Not registered, an open breaker or no budget: nothing is recorded.
TryRefused ==
    /\ listener = "waiting" /\ NextTry
    /\ UNCHANGED <<adapter, piecesSent, producer, streamChannels, ctxDone, relay, broke,
                   outcomes, costs>>

\* provider.Stream returns an error.
TryFails ==
    /\ listener = "waiting" /\ NextTry /\ Records("failure")
    /\ UNCHANGED <<adapter, piecesSent, producer, streamChannels, ctxDone, relay, broke, costs>>

TryOpens ==
    /\ listener = "waiting" /\ ~ctxDone
    /\ listener' = "reading" /\ producer' = "reading" /\ relay' = "relaying"
    /\ UNCHANGED <<tryNo, adapter, piecesSent, streamChannels, ctxDone, broke, outcomes, costs>>

--------------------------------------------------------------------------------
(* The producer *)

RawHasRoom == Len(raw) < RawSize

\* The next piece arrives ...
RecvPiece ==
    /\ producer = "reading" /\ piecesSent < Pieces
    /\ producer' = "sending"
    /\ UNCHANGED <<tryNo, adapter, piecesSent, streamChannels, ctxDone, relay, listener, broke,
                   outcomes, costs>>

\* ... and is sent when there is room.
SendPiece ==
    /\ producer = "sending" /\ RawHasRoom
    /\ raw' = Append(raw, piecesSent + 1) /\ piecesSent' = piecesSent + 1
    /\ producer' = "reading"
    /\ UNCHANGED <<tryNo, adapter, wrapped, ctxDone, relay, listener, relayed, received, full,
                   broke, outcomes, costs>>

\* All pieces were read, or the connection breaks, as it does once the context is done.
UpstreamEnds ==
    /\ producer = "reading"
    /\ producer' = "ending" /\ broke' = (piecesSent < Pieces)
    /\ UNCHANGED <<tryNo, adapter, piecesSent, streamChannels, ctxDone, relay, listener,
                   outcomes, costs>>

\* The finishing chunk, the same after a break as after the end.  Where the provider
\* marks its own end a second one follows it.
SendFinish ==
    /\ producer \in { "ending", "extra" } /\ RawHasRoom
    /\ raw' = Append(raw, Finish)
    /\ producer' \in IF producer = "ending" /\ ~broke THEN { "extra", "over" } ELSE { "over" }
    /\ UNCHANGED <<tryNo, adapter, piecesSent, wrapped, ctxDone, relay, listener, relayed,
                   received, full, broke, outcomes, costs>>

\* send sees ctx.Done in place of room.
SendGivenUp ==
    /\ adapter = "select" /\ ctxDone /\ producer \in { "sending", "ending", "extra" }
    /\ producer' = "over"
    /\ UNCHANGED <<tryNo, adapter, piecesSent, streamChannels, ctxDone, relay, listener,
                   broke, outcomes, costs>>

\* deepseek returns at EOF without a finishing chunk; the deferred one of
\* ParseOpenAIStyleSSE is dropped when the channel is full.
EndUnsaid ==
    /\ \/ adapter = "blocking" /\ producer \in { "ending", "extra" }
       \/ /\ adapter = "decoder" /\ ~RawHasRoom
          /\ producer = "extra" \/ (producer = "ending" /\ broke)
    /\ producer' = "over"
    /\ UNCHANGED <<tryNo, adapter, piecesSent, streamChannels, ctxDone, relay, listener,
                   broke, outcomes, costs>>

--------------------------------------------------------------------------------
(* The relay *)

\* Mutant: the end is noticed only when the finishing chunk could be passed on.
RelayChunkUnsent ==
    /\ relay = "relaying" /\ raw # <<>>
    /\ raw' = Tail(raw) /\ relayed' = Append(relayed, Head(raw))
    /\ IF Len(wrapped) < WrappedSize
       THEN /\ wrapped' = Append(wrapped, Head(raw)) /\ UNCHANGED full
            /\ relay' = IF Head(raw) = Finish THEN "finished" ELSE relay
       ELSE full' = TRUE /\ UNCHANGED <<wrapped, relay>>
    /\ UNCHANGED <<tryNo, adapter, piecesSent, producer, ctxDone, listener, received, broke,
                   outcomes, costs>>

RelayChunk ==
    /\ relay = "relaying" /\ raw # <<>>
    /\ raw' = Tail(raw) /\ relayed' = Append(relayed, Head(raw))
    /\ IF Len(wrapped) < WrappedSize THEN wrapped' = Append(wrapped, Head(raw)) /\ UNCHANGED full
                                     ELSE full' = TRUE /\ UNCHANGED wrapped
    /\ relay' = IF Head(raw) = Finish THEN "finished" ELSE relay
    /\ UNCHANGED <<tryNo, adapter, piecesSent, producer, ctxDone, listener, received, broke,
                   outcomes, costs>>

\* The raw channel is closed and empty, or the context is done.
RelayBreaks ==
    /\ relay = "relaying"
    /\ ctxDone \/ (producer = "over" /\ raw = <<>>)
    /\ relay' = "failed"
    /\ UNCHANGED <<tryNo, adapter, piecesSent, producer, streamChannels, ctxDone, listener,
                   broke, outcomes, costs>>

\* Health, breaker and cost; then the deferred close.
RelayRecords ==
    /\ relay \in { "finished", "failed" }
    /\ Records(IF relay = "finished" THEN "success" ELSE "failure")
    /\ costs' = costs + (IF relay = "finished" THEN 1 ELSE 0)
    /\ relay' = "closed"
    /\ UNCHANGED <<tryNo, adapter, piecesSent, producer, streamChannels, ctxDone, listener, broke>>

--------------------------------------------------------------------------------
(* The agent *)

ReadChunk ==
    /\ listener = "reading" /\ wrapped # <<>>
    /\ wrapped' = Tail(wrapped) /\ received' = Append(received, Head(wrapped))
    /\ listener' = IF Head(wrapped) = Finish THEN "finished" ELSE listener
    /\ UNCHANGED <<tryNo, adapter, piecesSent, producer, raw, ctxDone, relay, relayed, full,
                   broke, outcomes, costs>>

ReadClosed ==
    /\ listener = "reading" /\ wrapped = <<>> /\ relay = "closed"
    /\ listener' = "closed"
    /\ UNCHANGED <<tryNo, adapter, piecesSent, producer, streamChannels, ctxDone, relay, broke,
                   outcomes, costs>>

CancelContext ==
    /\ ~ctxDone /\ ctxDone' = TRUE
    /\ UNCHANGED <<tryNo, adapter, piecesSent, producer, streamChannels, relay, listener, broke,
                   outcomes, costs>>

OpenStep == TryRefused \/ TryFails \/ TryOpens
ProducerStep == RecvPiece \/ SendPiece \/ UpstreamEnds \/ SendFinish \/ SendGivenUp \/ EndUnsaid
RelayStep == RelayChunk \/ RelayBreaks \/ RelayRecords
ReadStep == ReadChunk \/ ReadClosed

StreamRelayNext == OpenStep \/ ProducerStep \/ RelayStep \/ ReadStep \/ CancelContext

StreamRelaySpec == StreamRelayInit /\ [][StreamRelayNext]_relayVars

--------------------------------------------------------------------------------
(* Properties *)

\* StreamWithFailover, streamAttempt: what the agent has read is what the relay took,
\* from the first piece on and without a gap, unless a full channel dropped a chunk;
\* an agent that read the finishing chunk with nothing dropped has the whole answer
\* unless the provider's stream broke off; a try has at most one result on record,
\* the one that opened exactly one once its channel is closed, with its cost if and
\* only if the relay saw the finishing chunk.
StreamAccounted ==
    /\ ~full => IsPrefix(received, relayed)
    /\ listener = "finished" /\ ~full /\ ~broke =>
          received = [i \in 1 .. Pieces + 1 |-> IF i <= Pieces THEN i ELSE Finish]
    /\ \A i \in 1 .. MaxStreamTries : Len(outcomes[i]) <= 1
    /\ relay = "closed" =>
          /\ outcomes[tryNo] = IF Contains(relayed, Finish) THEN <<"success">> ELSE <<"failure">>
          /\ costs = IF Contains(relayed, Finish) THEN 1 ELSE 0

\* The agent's loop over the channel ends, although the finishing chunk may be
\* dropped and the producer of a cancelled stream may block for good.
ListenerEnds == <>(listener \in { "finished", "closed", "refused" })

\* A producer that selects on the context ends with it.
ProducerEnds == adapter = "select" /\ producer # "unopened" ~> producer = "over"
================================================================================
