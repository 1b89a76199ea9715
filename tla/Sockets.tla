------------------------------ MODULE Sockets ------------------------------
(***************************************************************************)
(* The connections of the web application that the browser keeps open:     *)
(* the WebSocketManager and the SSEManager of lib/websocket.ts and the     *)
(* hook useSSE of hooks/use-sse.ts.                                        *)
(*                                                                         *)
(* A socket or an event source closes at its own time; its callbacks run   *)
(* whatever the manager has done since, and look at the manager's fields   *)
(* as they are then.  One client of the three is on stage at a time.       *)
(***************************************************************************)
EXTENDS Naturals, FiniteSets

CONSTANTS
    MaxReconnectAttempts,   \* 10 for the WebSocketManager, 5 for useSSE
    MaxSockets              \* bound: connections opened

ASSUME SocketsConstants == {MaxReconnectAttempts, MaxSockets} \subseteq Nat \ {0}

VARIABLES
    client,        \* "ws", "sse" (SSEManager) or "hook" (useSSE)
    conns,         \* connection -> "unused", "connecting", "open", "closing", "closed"
    current,       \* the manager's ws, eventSource or eventSourceRef; 0 for null
    attempts,      \* reconnectAttempts
    timers,        \* reconnect timers running
    wanted,        \* ~isIntentionallyClosed; for useSSE: an effect is mounted
    handlers,      \* SSEManager: subscribed handlers
    listeners      \* SSEManager: <<connection, handler>> added to an event source

socketsVars == <<client, conns, current, attempts, timers, wanted, handlers, listeners>>

ConnIds == 1..MaxSockets
NextConn == {c \in ConnIds : conns[c] = "unused" /\ \A d \in ConnIds : conns[d] = "unused" => c <= d}
Live == {"connecting", "open"}
InUse == {c \in ConnIds : conns[c] \in Live}

SocketsInit ==
    /\ client \in {"ws", "sse", "hook"}
    /\ conns = [c \in ConnIds |-> "unused"] /\ current = 0
    /\ attempts = 0 /\ timers = 0 /\ wanted = FALSE
    /\ handlers = {} /\ listeners = {}

(***************************************************************************)
(* WebSocketManager.                                                       *)
(***************************************************************************)
wsOnly == <<client, handlers, listeners>>

\* a timer still running is cleared first, unless the attempts are used up
scheduleReconnect(left) ==
    IF attempts >= MaxReconnectAttempts THEN timers' = left /\ UNCHANGED attempts
    ELSE attempts' = attempts + 1 /\ timers' = 1

\* A socket that is still connecting is no reason to return: it is left to
\* itself and a second one opened.  The constructor may throw
Connect(left) ==
    IF current # 0 /\ conns[current] = "open"
    THEN timers' = left /\ UNCHANGED <<conns, current, attempts, wanted>>
    ELSE /\ wanted' = TRUE
         /\ \E c \in NextConn :
               \/ /\ conns' = [conns EXCEPT ![c] = "connecting"] /\ current' = c
                  /\ timers' = left /\ UNCHANGED attempts
               \/ /\ scheduleReconnect(left)
                  /\ UNCHANGED <<conns, current>>

\* useWebSocket: every component that mounts asks the one manager to connect
useWebSocket ==
    /\ client = "ws" /\ Connect(timers)
    /\ UNCHANGED wsOnly

ReconnectTimer ==
    /\ client = "ws" /\ timers > 0
    /\ Connect(timers - 1)
    /\ UNCHANGED wsOnly

onopen(c) ==
    /\ conns[c] = "connecting"
    /\ conns' = [conns EXCEPT ![c] = "open"]
    /\ attempts' = 0
    /\ UNCHANGED <<client, current, timers, wanted, handlers, listeners>>

oncloseAlways(c) ==
    /\ client = "ws" /\ conns[c] \in {"connecting", "open", "closing"}
    /\ conns' = [conns EXCEPT ![c] = "closed"]
    /\ scheduleReconnect(timers)
    /\ UNCHANGED <<client, current, wanted, handlers, listeners>>

\* the socket fails, is dropped, or has finished closing; it need not be the
\* manager's any more
onclose(c) ==
    /\ client = "ws" /\ conns[c] \in {"connecting", "open", "closing"}
    /\ conns' = [conns EXCEPT ![c] = "closed"]
    /\ IF wanted THEN scheduleReconnect(timers) ELSE UNCHANGED <<attempts, timers>>
    /\ UNCHANGED <<client, current, wanted, handlers, listeners>>

disconnect ==
    /\ client = "ws"
    /\ wanted' = FALSE /\ timers' = 0
    /\ conns' = IF current # 0 /\ conns[current] \in Live
                THEN [conns EXCEPT ![current] = "closing"] ELSE conns
    /\ current' = 0
    /\ UNCHANGED <<client, attempts, handlers, listeners>>

\* send: what it answers
Sends == current # 0 /\ conns[current] = "open"

(***************************************************************************)
(* SSEManager: an event source that is closed calls nothing any more.      *)
(***************************************************************************)
CloseSource == IF current = 0 THEN conns ELSE [conns EXCEPT ![current] = "closed"]

sseConnect ==
    /\ client = "sse"
    /\ \E c \in NextConn : conns' = [CloseSource EXCEPT ![c] = "connecting"] /\ current' = c
    /\ UNCHANGED <<client, attempts, timers, wanted, handlers, listeners>>

sseDisconnect ==
    /\ client = "sse" /\ current # 0
    /\ conns' = CloseSource /\ current' = 0
    /\ UNCHANGED <<client, attempts, timers, wanted, handlers, listeners>>

\* A custom event is listened to on the present source only, and an
\* unsubscribed handler stays on it
sseSubscribe(h) ==
    /\ client = "sse"
    /\ handlers' = handlers \cup {h}
    /\ listeners' = listeners \cup {<<c, h>> : c \in {current} \ {0}}
    /\ UNCHANGED <<client, conns, current, attempts, timers, wanted>>

sseUnsubscribe(h) ==
    /\ client = "sse" /\ h \in handlers
    /\ handlers' = handlers \ {h}
    /\ UNCHANGED <<client, conns, current, attempts, timers, wanted, listeners>>

\* the handlers a custom event reaches
Reached == {l[2] : l \in {m \in listeners : m[1] = current}}

(***************************************************************************)
(* useSSE.                                                                 *)
(***************************************************************************)
hookOnly == <<client, handlers, listeners>>

\* The effect runs: it opens a source.  The cleanup of the previous one has
\* closed the source and cleared the timer; the attempts are kept
useSSE ==
    /\ client = "hook"
    /\ \E c \in NextConn : conns' = [CloseSource EXCEPT ![c] = "connecting"] /\ current' = c
    /\ wanted' = TRUE /\ timers' = 0
    /\ UNCHANGED <<client, attempts, handlers, listeners>>

SSECleanupKeepsSource ==
    /\ client = "hook" /\ wanted
    /\ current' = 0 /\ timers' = 0 /\ wanted' = FALSE
    /\ UNCHANGED <<client, conns, attempts, handlers, listeners>>

\* the component unmounts, or the hook is disabled
SSECleanup ==
    /\ client = "hook" /\ wanted
    /\ conns' = CloseSource /\ current' = 0 /\ timers' = 0 /\ wanted' = FALSE
    /\ UNCHANGED <<client, attempts, handlers, listeners>>

\* an error closes the source and, up to a limit, waits longer each time
SSEError(c) ==
    /\ client = "hook" /\ wanted /\ c = current /\ conns[c] \in Live
    /\ conns' = [conns EXCEPT ![c] = "closed"]
    /\ IF attempts < MaxReconnectAttempts
       THEN attempts' = attempts + 1 /\ timers' = timers + 1
       ELSE UNCHANGED <<attempts, timers>>
    /\ UNCHANGED <<client, current, wanted, handlers, listeners>>

SSEReconnect ==
    /\ client = "hook" /\ wanted /\ timers > 0
    /\ timers' = timers - 1
    /\ \E c \in NextConn : conns' = [conns EXCEPT ![c] = "connecting"] /\ current' = c
    /\ UNCHANGED <<client, attempts, wanted, handlers, listeners>>

SocketsNext ==
    \/ useWebSocket \/ ReconnectTimer \/ disconnect
    \/ \E c \in ConnIds : onopen(c) \/ onclose(c) \/ SSEError(c)
    \/ sseConnect \/ sseDisconnect
    \/ \E h \in {"h1", "h2"} : sseSubscribe(h) \/ sseUnsubscribe(h)
    \/ useSSE \/ SSECleanup \/ SSEReconnect

SocketsSpec == SocketsInit /\ [][SocketsNext]_socketsVars

(***************************************************************************)
(* Properties.                                                             *)
(***************************************************************************)
\* disconnect() lasts: as long as nobody calls connect() no timer runs that
\* would, whichever sockets of the past close in the meantime.  There is
\* never more than one such timer, and the attempts are limited.  And a
\* component listens to one event source: the hook and the SSEManager never
\* have two open, through errors, reconnections and new effects, and the hook
\* has none, nor a timer, once it is unmounted.
DisconnectLasts ==
    IF client = "ws"
    THEN /\ timers <= 1 /\ attempts <= MaxReconnectAttempts
         /\ ~wanted => timers = 0
    ELSE /\ Cardinality(InUse) <= 1
         /\ client = "hook" /\ ~wanted => InUse = {} /\ timers = 0

\* Not kept: the WebSocketManager leaves sockets behind, which still deliver.
OneWebSocket == client = "ws" => InUse \subseteq {current}
\* Not kept: an unsubscribed handler is still reached, a subscribed one no more.
SubscribersReached == client = "sse" /\ current # 0 => Reached = handlers
=============================================================================
