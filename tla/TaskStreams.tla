------------------------------ MODULE TaskStreams ------------------------------
(***************************************************************************)
(* The event streams of one task: WebSocketManager's single subscriber     *)
(* channel per task (router/websocket.go), createTaskHandler, which        *)
(* registers a channel that nobody reads, and streamTaskHandler, which     *)
(* registers its own and also polls the row (router/tasks.go).  The agent  *)
(* and the HITL handler send; a send on a closed channel panics.           *)
(***************************************************************************)
EXTENDS Naturals

CONSTANTS
    Viewers,        \* requests of GET /tasks/{taskID}/stream
    OwnChannel,     \* the channel of createTaskHandler
    NoChannel,
    BufferSize      \* capacity of a subscriber channel

ASSUME TaskStreamsAssumption ==
    OwnChannel \notin Viewers /\ NoChannel \notin Viewers \cup { OwnChannel } /\ BufferSize \in Nat

VARIABLES
    status,         \* tasks.status
    subscriber,     \* sseSubscribers[taskID]
    closed,         \* channels that are closed
    twice,          \* a closed channel was closed again
    buffer,         \* [channel -> events in it]
    viewer,         \* [Viewers -> where the stream is]
    creating,       \* createTaskHandler has not returned
    agent,          \* the goroutine of the task
    held            \* [sender -> the channel it read under the lock]

streamVars == <<status, subscriber, closed, twice, buffer, viewer, creating, agent, held>>

Channels == Viewers \cup { OwnChannel }
Senders == { "agent", "human" }
Over(s) == s \in { "completed", "failed" }

TaskStreamsInit ==
    /\ status = "pending" /\ subscriber = OwnChannel /\ creating = TRUE
    /\ closed = {} /\ twice = FALSE /\ buffer = [c \in Channels |-> 0]
    /\ viewer = [v \in Viewers |-> "away"]
    /\ agent = "pending" /\ held = [s \in Senders |-> NoChannel]

(* Mutants *)

\* The stream trusts its channel: the row is not read while it is subscribed.
PollWhenCut(v) ==
    /\ viewer[v] = "open" /\ v \in closed
    /\ viewer' = [viewer EXCEPT ![v] = IF Over(status) THEN "done" ELSE "open"]
    /\ UNCHANGED <<status, subscriber, closed, twice, buffer, creating, agent, held>>

--------------------------------------------------------------------------------

SSERegister(c) == subscriber' = c

\* Closes whichever channel is registered by now.
SSEUnregister ==
    /\ closed' = closed \cup ({ subscriber } \ { NoChannel })
    /\ twice' = (twice \/ subscriber \in closed)
    /\ subscriber' = NoChannel

\* SSEBroadcast up to RUnlock.
SSEBroadcast(s) == held' = [held EXCEPT ![s] = subscriber]

\* The non-blocking send that follows: dropped when the buffer is full.
SendTo(c) ==
    buffer' = [buffer EXCEPT ![c] = IF @ < BufferSize THEN @ + 1 ELSE @]

--------------------------------------------------------------------------------
(* createTaskHandler and its goroutine *)

\* The handler answers 201; its deferred call unregisters the task.
CreateReturns ==
    /\ creating /\ creating' = FALSE
    /\ SSEUnregister
    /\ UNCHANGED <<status, buffer, viewer, agent, held>>

\* OnStateChange: a state that is not terminal is written first, a terminal one
\* after ExecuteTask has returned; both are broadcast before.
AgentMoves ==
    /\ agent \in { "pending", "executing" }
    /\ agent' = IF agent = "pending" THEN "starting" ELSE "ending"
    /\ status' = IF agent = "pending" THEN "executing" ELSE status
    /\ SSEBroadcast("agent")
    /\ UNCHANGED <<subscriber, closed, twice, buffer, viewer, creating>>

\* A panic in the send is recovered by the goroutine's defer, which marks the
\* task failed.
AgentSends ==
    LET c == held["agent"] IN
    /\ agent \in { "starting", "ending" }
    /\ held' = [held EXCEPT !["agent"] = NoChannel]
    /\ IF c \in closed
       THEN agent' = "panicked" /\ UNCHANGED buffer
       ELSE /\ agent' = IF agent = "starting" THEN "executing" ELSE "returned"
            /\ IF c = NoChannel THEN UNCHANGED buffer ELSE SendTo(c)
    /\ UNCHANGED <<status, subscriber, closed, twice, viewer, creating>>

AgentSaves ==
    /\ agent \in { "returned", "panicked" }
    /\ agent' = "gone"
    /\ status' \in IF agent = "returned" THEN { "completed", "failed" } ELSE { "failed" }
    /\ UNCHANGED <<subscriber, closed, twice, buffer, viewer, creating, held>>

AgentGoes == AgentMoves \/ AgentSends \/ AgentSaves

--------------------------------------------------------------------------------
(* approveHITLHandler's event; a panic is answered with 500 *)

HumanBroadcasts ==
    /\ held["human"] = NoChannel /\ ~Over(status)
    /\ SSEBroadcast("human")
    /\ UNCHANGED <<status, subscriber, closed, twice, buffer, viewer, creating, agent>>

HumanSends ==
    LET c == held["human"] IN
    /\ c # NoChannel
    /\ held' = [held EXCEPT !["human"] = NoChannel]
    /\ IF c \in closed THEN UNCHANGED buffer ELSE SendTo(c)
    /\ UNCHANGED <<status, subscriber, closed, twice, viewer, creating, agent>>

--------------------------------------------------------------------------------
(* streamTaskHandler *)

OpenStream(v) ==
    /\ viewer[v] = "away"
    /\ viewer' = [viewer EXCEPT ![v] = "open"]
    /\ SSERegister(v)
    /\ UNCHANGED <<status, closed, twice, buffer, creating, agent, held>>

ReadEvent(v) ==
    /\ viewer[v] = "open" /\ buffer[v] > 0
    /\ buffer' = [buffer EXCEPT ![v] = @ - 1]
    /\ UNCHANGED <<status, subscriber, closed, twice, viewer, creating, agent, held>>

\* The ticker's turn: the row is read and a terminal status ends the stream; so
\* does a failed read.
Poll(v) ==
    /\ viewer[v] = "open"
    /\ viewer' = [viewer EXCEPT ![v] = IF Over(status) THEN "done" ELSE "open"]
    /\ UNCHANGED <<status, subscriber, closed, twice, buffer, creating, agent, held>>

PollFails(v) ==
    /\ viewer[v] = "open"
    /\ viewer' = [viewer EXCEPT ![v] = "done"]
    /\ UNCHANGED <<status, subscriber, closed, twice, buffer, creating, agent, held>>

\* The client goes, or the request's 30 seconds are over.
Leave(v) ==
    /\ viewer[v] = "open"
    /\ viewer' = [viewer EXCEPT ![v] = "left"]
    /\ UNCHANGED <<status, subscriber, closed, twice, buffer, creating, agent, held>>

CloseStream(v) ==
    /\ viewer[v] \in { "done", "left" }
    /\ viewer' = [viewer EXCEPT ![v] = "closed"]
    /\ SSEUnregister
    /\ UNCHANGED <<status, buffer, creating, agent, held>>

TaskStreamsNext ==
    \/ CreateReturns \/ AgentGoes \/ HumanBroadcasts \/ HumanSends
    \/ \E v \in Viewers :
          OpenStream(v) \/ ReadEvent(v) \/ Poll(v) \/ PollFails(v) \/ Leave(v) \/ CloseStream(v)

--------------------------------------------------------------------------------
(* Properties *)

(***************************************************************************)
(* router/tasks.go:501-560, websocket.go:124-138.  Every stream that was   *)
(* opened is eventually over and unregistered, although other viewers and  *)
(* the create handler take or close its channel, events are dropped and a  *)
(* panicking send may end the task's goroutine.  And no channel is closed  *)
(* twice, which would panic in a deferred call, whoever unregisters whose. *)
(***************************************************************************)
StreamsEnd ==
    /\ []~twice
    /\ \A v \in Viewers : viewer[v] = "open" ~> viewer[v] = "closed"
================================================================================
