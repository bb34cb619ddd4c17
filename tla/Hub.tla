---------------------------------- MODULE Hub ----------------------------------
(***************************************************************************)
(* The WebSocket endpoint: handleWebSocket with its connection limits      *)
(* (router/websocket.go), the Handler that upgrades, and the Hub whose one *)
(* goroutine owns the connections (websocket/websocket.go).  Registration, *)
(* removal, broadcasts and messages to a user travel through four          *)
(* channels, so their order among each other is Run's select.              *)
(***************************************************************************)
EXTENDS Naturals, FiniteSets

CONSTANTS
    Conns,          \* connections, all of one user
    NoUser, User,
    MaxPerUser,
    SendSize        \* capacity of a connection's send channel

ASSUME HubAssumption ==
    /\ NoUser # User /\ "absent" \notin { NoUser, User }      \* no user id is the marker below
    /\ MaxPerUser \in Nat \ { 0 } /\ SendSize \in Nat \ { 0 }

VARIABLES
    phase,          \* [Conns -> where handler and readPump are]
    userConns,      \* WebSocketManager.userConns of the user
    toRegister, toUnregister,   \* connections in the hub's two channels
    mail,           \* messages for the user in the offline channel, 0 or 1
    meta,           \* [Conns -> UserID in the connection's own meta]
    connections,    \* [Conns -> UserID in the hub's copy, or "absent"]
    send,           \* [Conns -> events in its send channel]
    shut,           \* connections whose send channel is closed
    broken          \* something was sent on a closed channel

hubVars == <<phase, userConns, toRegister, toUnregister, mail, meta, connections, send, shut, broken>>

HubInit ==
    /\ phase = [c \in Conns |-> "new"] /\ userConns = 0
    /\ toRegister = {} /\ toUnregister = {} /\ mail = 0
    /\ meta = [c \in Conns |-> NoUser] /\ connections = [c \in Conns |-> "absent"]
    /\ send = [c \in Conns |-> 0] /\ shut = {} /\ broken = FALSE

Enters(c, s) == phase' = [phase EXCEPT ![c] = s]

(* Mutants *)

\* Authentication changes the connection's own copy only.
RepublishNothing(c) ==
    /\ phase[c] = "authenticating" /\ Enters(c, "ready")
    /\ UNCHANGED <<userConns, toRegister, toUnregister, mail, meta, connections, send, shut, broken>>

--------------------------------------------------------------------------------
(* handleWebSocket: two lock sections, then the upgrade, which returns as    *)
(* soon as the pumps run                                                     *)

CanConnect(c) ==
    /\ phase[c] = "new"
    /\ Enters(c, IF userConns >= MaxPerUser THEN "rejected" ELSE "admitted")
    /\ UNCHANGED <<userConns, toRegister, toUnregister, mail, meta, connections, send, shut, broken>>

RegisterConnection(c) ==
    /\ phase[c] = "admitted" /\ Enters(c, "upgrading")
    /\ userConns' = userConns + 1
    /\ UNCHANGED <<toRegister, toUnregister, mail, meta, connections, send, shut, broken>>

UnregisterConnection == userConns' = IF userConns > 0 THEN userConns - 1 ELSE 0

\* Upgrade, Hub.Register, start of the pumps, and the handler's deferred
\* UnregisterConnection; a failed upgrade leaves out all but the last.
ServeHTTP(c) ==
    /\ phase[c] = "upgrading" /\ UnregisterConnection
    /\ \/ Enters(c, "reading") /\ toRegister' = toRegister \cup { c }
       \/ Enters(c, "gone") /\ UNCHANGED toRegister
    /\ UNCHANGED <<toUnregister, mail, meta, connections, send, shut, broken>>

HandleWebSocket(c) == CanConnect(c) \/ RegisterConnection(c) \/ ServeHTTP(c)

--------------------------------------------------------------------------------
(* readPump *)

Authenticate(c) ==
    /\ phase[c] = "reading" /\ Enters(c, "authenticating")
    /\ meta' = [meta EXCEPT ![c] = User]
    /\ UNCHANGED <<userConns, toRegister, toUnregister, mail, connections, send, shut, broken>>

\* The hub's copy is renewed where the connection is registered already.
Republish(c) ==
    /\ phase[c] = "authenticating" /\ Enters(c, "ready")
    /\ connections' = [connections EXCEPT ![c] = IF @ = "absent" THEN @ ELSE meta[c]]
    /\ UNCHANGED <<userConns, toRegister, toUnregister, mail, meta, send, shut, broken>>

\* A read error, a failed authentication: Hub.Unregister.
ReadEnds(c) ==
    /\ phase[c] \in { "reading", "ready" } /\ Enters(c, "gone")
    /\ toUnregister' = toUnregister \cup { c }
    /\ UNCHANGED <<userConns, toRegister, mail, meta, connections, send, shut, broken>>

\* writePump.
WriteEvent(c) ==
    /\ send[c] > 0
    /\ send' = [send EXCEPT ![c] = @ - 1]
    /\ UNCHANGED <<phase, userConns, toRegister, toUnregister, mail, meta, connections, shut, broken>>

SendToUser ==
    /\ mail = 0 /\ mail' = 1
    /\ UNCHANGED <<phase, userConns, toRegister, toUnregister, meta, connections, send, shut, broken>>

--------------------------------------------------------------------------------
(* Run *)

RunRegister(c) ==
    /\ c \in toRegister /\ toRegister' = toRegister \ { c }
    /\ connections' = [connections EXCEPT ![c] = meta[c]]
    /\ UNCHANGED <<phase, userConns, toUnregister, mail, meta, send, shut, broken>>

RunUnregister(c) ==
    /\ c \in toUnregister /\ toUnregister' = toUnregister \ { c }
    /\ connections' = [connections EXCEPT ![c] = "absent"]
    /\ shut' = IF connections[c] = "absent" THEN shut ELSE shut \cup { c }
    /\ UNCHANGED <<phase, userConns, toRegister, mail, meta, send, broken>>

\* What a non-blocking send to each connection of targets leaves behind.
Offered(targets) ==
    [c \in Conns |-> IF c \in targets /\ c \notin shut /\ send[c] < SendSize
                     THEN send[c] + 1 ELSE send[c]]

RunMail ==
    LET targets == { c \in Conns : connections[c] = User } IN
    /\ mail = 1 /\ mail' = 0
    /\ send' = Offered(targets)
    /\ broken' = (broken \/ targets \cap shut # {})
    /\ UNCHANGED <<phase, userConns, toRegister, toUnregister, meta, connections, shut>>

\* A broadcast reaches every connection that subscribed to nothing or to it.
RunBroadcast ==
    \E targets \in SUBSET { c \in Conns : connections[c] # "absent" } :
        /\ send' = Offered(targets)
        /\ broken' = (broken \/ targets \cap shut # {})
        /\ UNCHANGED <<phase, userConns, toRegister, toUnregister, mail, meta, connections, shut>>

HubNext ==
    \/ \E c \in Conns :
          \/ HandleWebSocket(c) \/ Authenticate(c) \/ Republish(c) \/ ReadEnds(c) \/ WriteEvent(c)
          \/ RunRegister(c) \/ RunUnregister(c)
    \/ SendToUser \/ RunMail \/ RunBroadcast

HubSpec == HubInit /\ [][HubNext]_hubVars

--------------------------------------------------------------------------------
(* Properties *)

(***************************************************************************)
(* websocket.go:107-125, 229-275.  A connection that is authenticated and  *)
(* known to the hub is known under its user, so messages to the user reach *)
(* it, whether Run registered it before, during or after authentication.   *)
(* And Run never sends on a channel it closed, which would stop the hub.   *)
(***************************************************************************)
UserReached ==
    /\ \A c \in Conns : phase[c] = "ready" /\ connections[c] # "absent" => connections[c] = User
    /\ ~broken

================================================================================
