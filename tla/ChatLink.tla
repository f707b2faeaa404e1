------------------------------ MODULE ChatLink ------------------------------
(***************************************************************************)
(* The chat connection of the IDE page: the page's effect makes a STOMP    *)
(* client when it is mounted and ends it when it is left; the client of    *)
(* the bundle keeps a handler with a WebSocket, reconnects after a delay,  *)
(* subscribes at every connection, and watches the heartbeats if the       *)
(* server agreed to any.                                                   *)
(*                                                                         *)
(* A socket and the handler made for it are one slot.  A slot whose socket *)
(* is closed is used again, so that no bound is put on reconnections.      *)
(* _connect awaits a beforeConnect that does nothing, which no event can   *)
(* come between, and is one step with what calls it.                       *)
(***************************************************************************)
EXTENDS Integers, Sequences, FiniteSets

CONSTANTS
    MaxSockets,    \* slots
    MaxUp,         \* bound: frames on the way to the server
    MaxMessages    \* bound: messages broadcast to the room

ASSUME ChatBounds ==
    MaxSockets \in Nat \ {0} /\ MaxUp \in Nat /\ MaxMessages \in Nat

Sockets == 1 .. MaxSockets
Messages == 1 .. MaxMessages
NoSocket == 0

VARIABLES
    mounted,       \* the page: "before", "mounted" or "left"
    state,         \* ActivationState of the client
    handler,       \* _stompHandler, by its slot, or NoSocket
    reconnector,   \* the reconnection timer is running
    delay,         \* _nextReconnectDelay is not 0
    sock,          \* readyState of each slot's socket
    connected,     \* _connected of each handler
    pinger, ponger,  \* its two timers
    watched,       \* it waits for the receipt of its DISCONNECT
    up, down,      \* frames to the server and from it
    silent,        \* the connection is gone and neither end knows
    subscribed,    \* subscriptions the server has for the connection
    beats,         \* the server agrees to heartbeats (this one does not)
    sent,          \* messages broadcast so far
    shown          \* those the page has shown

clientVars == <<mounted, state, handler, reconnector, delay>>
handlerVars == <<connected, pinger, ponger, watched>>
wireVars == <<up, down, silent, subscribed>>
roomVars == <<beats, sent, shown>>
chatVars == <<clientVars, sock, handlerVars, wireVars, roomVars>>

ToServer == {"connect", "subscribe", "send", "disconnect"}
ToPage == [type : {"CONNECTED", "RECEIPT", "MESSAGE"}, message : 0 .. MaxMessages]
Frame(type, m) == [type |-> type, message |-> m]

ChatTypeOK ==
    /\ mounted \in {"before", "mounted", "left"}
    /\ state \in {"active", "deactivating", "inactive"}
    /\ handler \in 0 .. MaxSockets
    /\ reconnector \in BOOLEAN /\ delay \in BOOLEAN
    /\ sock \in [Sockets -> {"connecting", "open", "closing", "closed"}]
    /\ connected \in [Sockets -> BOOLEAN]
    /\ pinger \in [Sockets -> BOOLEAN] /\ ponger \in [Sockets -> BOOLEAN]
    /\ watched \in [Sockets -> BOOLEAN]
    /\ up \in [Sockets -> Seq(ToServer)]
    /\ down \in [Sockets -> Seq(ToPage)]
    /\ \A s \in Sockets : Len(down[s]) <= MaxMessages + 1
    /\ silent \in [Sockets -> BOOLEAN] /\ subscribed \in [Sockets -> Nat]
    /\ beats \in BOOLEAN
    /\ sent \in 0 .. MaxMessages
    /\ shown \in Seq(Messages)

ChatInit ==
    /\ mounted = "before" /\ state = "inactive" /\ handler = NoSocket
    /\ reconnector = FALSE /\ delay = FALSE
    /\ sock = [s \in Sockets |-> "closed"]
    /\ connected = [s \in Sockets |-> FALSE]
    /\ pinger = [s \in Sockets |-> FALSE] /\ ponger = [s \in Sockets |-> FALSE]
    /\ watched = [s \in Sockets |-> FALSE]
    /\ up = [s \in Sockets |-> <<>>] /\ down = [s \in Sockets |-> <<>>]
    /\ silent = [s \in Sockets |-> FALSE] /\ subscribed = [s \in Sockets |-> 0]
    /\ beats \in BOOLEAN
    /\ sent = 0 /\ shown = <<>>

-----------------------------------------------------------------------------
(* The client.                                                             *)

\* What a handler puts on its socket; a closing one takes it and drops it.
Transmit(s, frames) ==
    up' = IF sock[s] = "open" THEN [up EXCEPT ![s] = @ \o frames] ELSE up

\* A new handler and its socket, with nothing left of the slot's last one.
NewHandler(s) ==
    /\ sock[s] = "closed"
    /\ \A t \in 1 .. s - 1 : sock[t] # "closed"
    /\ handler' = s
    /\ sock' = [sock EXCEPT ![s] = "connecting"]
    /\ connected' = [connected EXCEPT ![s] = FALSE]
    /\ watched' = [watched EXCEPT ![s] = FALSE]
    /\ pinger' = [pinger EXCEPT ![s] = FALSE]
    /\ ponger' = [ponger EXCEPT ![s] = FALSE]
    /\ up' = [up EXCEPT ![s] = <<>>]
    /\ down' = [down EXCEPT ![s] = <<>>]
    /\ silent' = [silent EXCEPT ![s] = FALSE]
    /\ subscribed' = [subscribed EXCEPT ![s] = 0]

\* _connect of a client in the given state.
Connect(activation) ==
    IF handler # NoSocket \/ activation # "active"
    THEN UNCHANGED <<handler, sock, handlerVars, wireVars>>
    ELSE \E s \in Sockets : NewHandler(s)

\* The page is shown: activate().
Mount ==
    /\ mounted = "before"
    /\ mounted' = "mounted"
    /\ state' = "active"
    /\ delay' = TRUE
    /\ Connect("active")
    /\ UNCHANGED <<reconnector, roomVars>>

ReconnectTimer ==
    /\ reconnector
    /\ reconnector' = FALSE
    /\ Connect(state)
    /\ UNCHANGED <<mounted, state, delay, roomVars>>

\* dispose(): a connected handler says goodbye and waits for the receipt, any
\* other closes its socket.
Dispose(s) ==
    IF connected[s]
    THEN /\ watched' = [watched EXCEPT ![s] = TRUE]
         /\ Transmit(s, <<"disconnect">>)
         /\ UNCHANGED sock
    ELSE /\ sock' = [sock EXCEPT ![s] = IF @ \in {"connecting", "open"} THEN "closing"
                                        ELSE @]
         /\ UNCHANGED <<watched, up>>

\* A deactivate() that finds no handler and thinks that nothing is to be done.
LeaveKeepsTimer ==
    /\ mounted = "mounted"
    /\ mounted' = "left"
    /\ IF handler = NoSocket \/ sock[handler] = "closed"
       THEN UNCHANGED <<state, delay, reconnector, sock, watched, up>>
       ELSE /\ state' = "deactivating"
            /\ delay' = FALSE
            /\ reconnector' = FALSE
            /\ Dispose(handler)
    /\ UNCHANGED <<handler, connected, pinger, ponger, down, silent, subscribed,
                   roomVars>>

\* The page is left: deactivate().
Leave ==
    /\ mounted = "mounted"
    /\ mounted' = "left"
    /\ delay' = FALSE
    /\ reconnector' = FALSE
    /\ IF handler = NoSocket \/ sock[handler] = "closed"
       THEN state' = "inactive" /\ UNCHANGED <<sock, watched, up>>
       ELSE state' = "deactivating" /\ Dispose(handler)
    /\ UNCHANGED <<handler, connected, pinger, ponger, down, silent, subscribed,
                   roomVars>>

\* The user says something: the page shows it at once, and publishes it if the
\* client is connected.
Say ==
    /\ mounted = "mounted"
    /\ handler # NoSocket /\ connected[handler]
    /\ Len(up[handler]) < MaxUp
    /\ Transmit(handler, <<"send">>)
    /\ UNCHANGED <<clientVars, sock, handlerVars, down, silent, subscribed, roomVars>>

-----------------------------------------------------------------------------
(* The callbacks of a handler's socket.                                    *)

OnOpen(s) ==
    /\ sock[s] = "connecting"
    /\ sock' = [sock EXCEPT ![s] = "open"]
    /\ up' = [up EXCEPT ![s] = <<"connect">>]
    /\ UNCHANGED <<clientVars, handlerVars, down, silent, subscribed, roomVars>>

Arrives(s) ==
    /\ sock[s] = "open"
    /\ ~silent[s]
    /\ down[s] # <<>>
    /\ down' = [down EXCEPT ![s] = Tail(@)]

\* CONNECTED: the timers, if the server agreed to heartbeats, and onConnect.
OnConnected(s) ==
    /\ Arrives(s)
    /\ Head(down[s]).type = "CONNECTED"
    /\ connected' = [connected EXCEPT ![s] = TRUE]
    /\ pinger' = [pinger EXCEPT ![s] = beats]
    /\ ponger' = [ponger EXCEPT ![s] = beats]
    /\ delay' = TRUE
    /\ Transmit(s, <<"subscribe">>)
    /\ UNCHANGED <<mounted, state, handler, reconnector, sock, watched, silent,
                   subscribed, roomVars>>

OnMessage(s) ==
    /\ Arrives(s)
    /\ Head(down[s]).type = "MESSAGE"
    /\ shown' = Append(shown, Head(down[s]).message)
    /\ UNCHANGED <<clientVars, sock, handlerVars, up, silent, subscribed, beats, sent>>

\* The receipt of DISCONNECT leaves the closing to the server.
OnReceiptWaits(s) ==
    /\ Arrives(s)
    /\ Head(down[s]).type = "RECEIPT"
    /\ watched' = [watched EXCEPT ![s] = FALSE]
    /\ connected' = [connected EXCEPT ![s] = FALSE]
    /\ pinger' = [pinger EXCEPT ![s] = FALSE]
    /\ ponger' = [ponger EXCEPT ![s] = FALSE]
    /\ UNCHANGED <<clientVars, sock, up, silent, subscribed, roomVars>>

\* The receipt of DISCONNECT closes the socket.
OnReceipt(s) ==
    /\ Arrives(s)
    /\ Head(down[s]).type = "RECEIPT"
    /\ watched[s]
    /\ watched' = [watched EXCEPT ![s] = FALSE]
    /\ sock' = [sock EXCEPT ![s] = "closing"]
    /\ connected' = [connected EXCEPT ![s] = FALSE]
    /\ pinger' = [pinger EXCEPT ![s] = FALSE]
    /\ ponger' = [ponger EXCEPT ![s] = FALSE]
    /\ UNCHANGED <<clientVars, up, silent, subscribed, roomVars>>

\* A silent connection is discarded, and the next one made, without waiting
\* for the end of its socket.
HeartbeatDiscards(s) ==
    /\ ponger[s]
    /\ silent[s]
    /\ sock[s] = "open"
    /\ sock' = [sock EXCEPT ![s] = "closing"]
    /\ handler' = NoSocket
    /\ reconnector' = (state = "active" /\ delay)
    /\ UNCHANGED <<mounted, state, delay, handlerVars, wireVars, roomVars>>

\* The ponger finds that nothing came for two periods: the socket is closed,
\* and the timers run on until it is.
HeartbeatLost(s) ==
    /\ ponger[s]
    /\ silent[s]
    /\ sock[s] = "open"
    /\ sock' = [sock EXCEPT ![s] = "closing"]
    /\ UNCHANGED <<clientVars, handlerVars, wireVars, roomVars>>

\* _cleanUp of the handler.
CleanUp(s) ==
    /\ connected' = [connected EXCEPT ![s] = FALSE]
    /\ pinger' = [pinger EXCEPT ![s] = FALSE]
    /\ ponger' = [ponger EXCEPT ![s] = FALSE]

\* ... only if it had been connected.
OnWebSocketCloseOnce ==
    /\ handler' = NoSocket
    /\ state' = IF state = "deactivating" THEN "inactive" ELSE state
    /\ reconnector' = (reconnector
                         \/ (state = "active" /\ delay /\ \E s \in Sockets : connected[s]))

\* onWebSocketClose of the client, whichever handler it comes from: an active
\* client schedules a reconnection.
OnWebSocketClose ==
    /\ handler' = NoSocket
    /\ state' = IF state = "deactivating" THEN "inactive" ELSE state
    /\ reconnector' = (reconnector \/ (state = "active" /\ delay))

\* The socket is closed: after a closing handshake, which a browser gives up
\* on in time, because it could not be opened, or because it broke.
OnClose(s) ==
    /\ sock[s] # "closed"
    /\ sock' = [sock EXCEPT ![s] = "closed"]
    /\ CleanUp(s)
    /\ OnWebSocketClose
    /\ UNCHANGED <<mounted, delay, watched, wireVars, roomVars>>

-----------------------------------------------------------------------------
(* The server and the network.                                             *)

\* The server closes the connection, as when it is stopped.
ServerCloses(s) ==
    /\ sock[s] = "open"
    /\ ~silent[s]
    /\ sock' = [sock EXCEPT ![s] = "closing"]
    /\ UNCHANGED <<clientVars, handlerVars, wireVars, roomVars>>

FallsSilent(s) ==
    /\ sock[s] = "open"
    /\ ~silent[s]
    /\ silent' = [silent EXCEPT ![s] = TRUE]
    /\ down' = [down EXCEPT ![s] = <<>>]
    /\ UNCHANGED <<clientVars, sock, handlerVars, up, subscribed, roomVars>>

\* What the page sends to the room is refused: its body has no user.
ServerTakes(s, frame) ==
    /\ sock[s] = "open"
    /\ ~silent[s]
    /\ up[s] # <<>>
    /\ Head(up[s]) = frame
    /\ up' = [up EXCEPT ![s] = Tail(@)]
    /\ subscribed' = [subscribed EXCEPT ![s] =
          CASE frame = "subscribe" -> @ + 1 [] frame = "disconnect" -> 0
            [] OTHER -> @]
    /\ down' = [down EXCEPT ![s] =
          CASE frame = "connect" -> Append(@, Frame("CONNECTED", 0))
            [] frame = "disconnect" -> Append(@, Frame("RECEIPT", 0))
            [] OTHER -> @]
    /\ UNCHANGED <<clientVars, sock, handlerVars, silent, roomVars>>

\* A message of the room goes out to every connection the server believes in.
Broadcast ==
    /\ sent < MaxMessages
    /\ sent' = sent + 1
    /\ down' = [s \in Sockets |->
          IF sock[s] = "open" /\ ~silent[s]
          THEN down[s] \o [i \in 1 .. subscribed[s] |-> Frame("MESSAGE", sent + 1)]
          ELSE down[s]]
    /\ UNCHANGED <<clientVars, sock, handlerVars, up, silent, subscribed, beats, shown>>

-----------------------------------------------------------------------------
ChatNext ==
    \/ Mount \/ Leave \/ ReconnectTimer \/ Say \/ Broadcast
    \/ \E s \in Sockets :
          \/ OnOpen(s) \/ OnConnected(s) \/ OnMessage(s) \/ OnReceipt(s)
          \/ HeartbeatLost(s) \/ OnClose(s)
          \/ ServerCloses(s) \/ FallsSilent(s)
          \/ \E frame \in ToServer : ServerTakes(s, frame)

\* The browser runs its timers and ends what it began to close.  A connection
\* on which something was sent in vain breaks in time.  The network is not
\* forever down, nor does it break every connection before it is of use.
Fairness ==
    /\ WF_chatVars(ReconnectTimer)
    /\ \A s \in Sockets :
          /\ WF_chatVars(sock[s] = "closing" /\ OnClose(s))
          /\ WF_chatVars(sock[s] = "open" /\ silent[s] /\ up[s] # <<>> /\ OnClose(s))
          /\ WF_chatVars(HeartbeatLost(s))
          /\ WF_chatVars(OnMessage(s)) /\ WF_chatVars(OnReceipt(s))
          /\ SF_chatVars(OnOpen(s)) /\ SF_chatVars(OnConnected(s))
          /\ \A frame \in ToServer : SF_chatVars(ServerTakes(s, frame))

ChatSpec == ChatInit /\ [][ChatNext]_chatVars
FairSpec == ChatSpec /\ Fairness

-----------------------------------------------------------------------------
(* What holds.                                                             *)

Live(s) == sock[s] # "closed"

\* The client has one socket at a time, the one of its handler: a connection
\* that is being closed is waited for, however it came to that.  Its heartbeat
\* timers run for a live, connected handler alone.
OneLink ==
    \A s \in Sockets :
        /\ Live(s) => handler = s
        /\ pinger[s] \/ ponger[s] => Live(s) /\ connected[s]

\* A page that was left makes no connection any more: neither a timer nor the
\* end of the old connection brings the client back.
LeftForGood ==
    [][mounted = "left" => \A s \in Sockets : Live(s)' => Live(s)]_chatVars

\* The connection of s stands, but it is gone, and nothing is there to find
\* out: no heartbeat is watched, and nothing was sent on it in vain.
Unnoticed(s) == sock[s] = "open" /\ silent[s] /\ ~ponger[s] /\ up[s] = <<>>

Listening(s) == sock[s] = "open" /\ connected[s] /\ subscribed[s] > 0 /\ ~silent[s]

\* A mounted page listens to its room again and again, unless it holds an open
\* connection that went silent where no heartbeat is watched: before CONNECTED,
\* since the client has no timeout for that, and whenever the server, like this
\* one, agreed to none.  Then nothing tells the client, and it may wait for
\* ever.  A silence that was noticed, and any other end of a connection, is no
\* excuse: the client must reconnect.
ListensAgain ==
    (mounted = "mounted") ~>
        \/ mounted = "left"
        \/ \E s \in Sockets : Listening(s) \/ Unnoticed(s)

\* A page that was left ends its connection, goodbye or not, and its client
\* comes to rest: unless the receipt of its goodbye was lost that way.
LeaveCompletes ==
    (mounted = "left") ~>
        \/ state = "inactive" /\ \A s \in Sockets : ~Live(s)
        \/ \E s \in Sockets : Unnoticed(s)
=============================================================================
