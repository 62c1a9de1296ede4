----------------------------- MODULE GatewayLink -----------------------------
(***************************************************************************)
(* The gateway connection of the desktop client                            *)
(* (client/src/services/GatewayClient.cpp): one QWebSocket that is opened  *)
(* for the access token of the session, reconnected by a timer, and told   *)
(* again what to subscribe to.  The server is the other end of the socket: *)
(* it looks the user up before it has a session to subscribe               *)
(* (server/src/gateway/gateway.service.ts).                                *)
(***************************************************************************)
EXTENDS Naturals, Sequences

CONSTANTS
    Token, NoToken,     \* access tokens
    Topic,              \* channels and direct threads
    MaxWire,            \* bound: subscribe events under way
    MaxFaults,          \* bound: failures of the network in one behaviour
    LinkScenarios       \* what the environment may do: sets of "early", "expire", "again"

ASSUME LinkAssumption == NoToken \notin Token /\ MaxFaults \in Nat

List == {"channels", "threads"}     \* m_desiredChannelIds, m_desiredDmThreadIds

VARIABLES
    linkEnv,        \* never changes
    socket,         \* QWebSocket: its state, and the token in its URL
    link,           \* members of GatewayClient
    desired,        \* the two lists of ids
    wire,           \* subscribe events under way on the open socket
    server,         \* the server's end: where handleConnection is, subscriptions
    expired,        \* tokens that are too old
    faults

linkVars == <<linkEnv, socket, link, desired, wire, server, expired, faults>>

SocketState == {"unconnected", "connecting", "connected", "closing"}
NoSocket == [state |-> "unconnected", token |-> NoToken]
NoServer == [pc |-> "none", subs |-> {}]

LinkTypeOK ==
    /\ linkEnv \in LinkScenarios
    /\ socket \in [state : SocketState, token : Token \cup {NoToken}]
    /\ link \in [token : Token \cup {NoToken}, manual : BOOLEAN, openAfter : BOOLEAN,
                 timer : BOOLEAN, connected : BOOLEAN,
                 shown : {"disconnected", "connecting", "connected", "reconnecting"}]
    /\ desired \in [List -> SUBSET Topic]
    /\ wire \in Seq([list : List, ids : SUBSET Topic])
    /\ server \in [pc : {"none", "lookup", "in"}, subs : SUBSET (List \X Topic)]
    /\ expired \subseteq Token
    /\ faults \in 0..MaxFaults

LinkInit ==
    /\ linkEnv \in LinkScenarios
    /\ socket = NoSocket
    /\ link = [token |-> NoToken, manual |-> FALSE, openAfter |-> FALSE, timer |-> FALSE,
               connected |-> FALSE, shown |-> "disconnected"]
    /\ desired = [l \in List |-> {}]
    /\ wire = <<>>
    /\ server = NoServer
    /\ expired = {}
    /\ faults = 0

-----------------------------------------------------------------------------
SignedIn(k) == ~k.manual /\ k.token # NoToken

Open(k) == socket' = [state |-> "connecting", token |-> k.token]

\* close() does nothing to a socket that is not open.
Close == socket' = [socket EXCEPT !.state = IF @ = "unconnected" THEN @ ELSE "closing"]

ScheduleReconnect(k) == [k EXCEPT !.shown = "reconnecting", !.timer = TRUE]

\* sendSubscriptions: the lists that are not empty.
Subscriptions ==
    LET Event(l) == IF desired[l] = {} THEN <<>> ELSE <<[list |-> l, ids |-> desired[l]]>>
    IN Event("channels") \o Event("threads")

-----------------------------------------------------------------------------
(* The rest of the client. *)

\* Mutant: the socket of the other token is kept.
ConnectOnce(t) ==
    /\ t \notin expired
    /\ link.token = NoToken \/ "again" \in linkEnv
    /\ socket.state # "connected"
    /\ link' = [link EXCEPT !.token = t, !.manual = FALSE, !.timer = FALSE,
                            !.openAfter = FALSE, !.shown = "connecting"]
    /\ IF socket.state = "unconnected" THEN Open(link') ELSE socket' = socket
    /\ UNCHANGED <<linkEnv, desired, wire, server, expired, faults>>

\* connectToGateway(t), after a sign-in.  The sign-in page is shown while signed
\* out; "again": two sign-ins have been under way at once.
ConnectToGateway(t) ==
    /\ t \notin expired
    /\ link.token = NoToken \/ "again" \in linkEnv
    /\ socket.state = "connected" => link.token # t
    /\ link' = [link EXCEPT !.token = t, !.manual = FALSE, !.timer = FALSE,
                            !.openAfter = socket.state # "unconnected", !.shown = "connecting"]
    /\ IF socket.state = "unconnected" THEN Open(link') ELSE Close
    /\ UNCHANGED <<linkEnv, desired, wire, server, expired, faults>>

\* disconnectFromGateway, by logout and by the end of the application.
DisconnectFromGateway ==
    /\ link' = [link EXCEPT !.manual = TRUE, !.openAfter = FALSE, !.timer = FALSE,
                            !.token = NoToken, !.shown = "disconnected"]
    /\ desired' = [l \in List |-> {}]
    /\ Close
    /\ UNCHANGED <<linkEnv, wire, server, expired, faults>>

\* subscribeChannels, subscribeDmThreads: the list is replaced, and sent if it can
\* be.  Signed in or not: the answer of a list may come after the logout.
SubscribeTo(l, ids) ==
    /\ Len(wire) < MaxWire
    /\ desired' = [desired EXCEPT ![l] = ids]
    /\ wire' = IF socket.state = "connected" THEN Append(wire, [list |-> l, ids |-> ids]) ELSE wire
    /\ UNCHANGED <<linkEnv, socket, link, server, expired, faults>>

-----------------------------------------------------------------------------
(* Signals. *)

TimerFires ==
    /\ link.timer
    /\ link' = [link EXCEPT !.timer = FALSE, !.shown = IF SignedIn(link) THEN "reconnecting" ELSE @]
    /\ IF SignedIn(link) THEN Open(link) ELSE socket' = socket
    /\ UNCHANGED <<linkEnv, desired, wire, server, expired, faults>>

\* QWebSocket::connected: the handshake is done; the server starts handleConnection.
SocketConnected ==
    /\ socket.state = "connecting"
    /\ socket' = [socket EXCEPT !.state = "connected"]
    /\ link' = [link EXCEPT !.timer = FALSE, !.shown = "connected", !.connected = TRUE]
    /\ wire' = Subscriptions
    /\ server' = [pc |-> "lookup", subs |-> {}]
    /\ UNCHANGED <<linkEnv, desired, expired, faults>>

\* errorOccurred: the connection cannot be made or is lost; disconnected follows.
SocketError ==
    /\ socket.state \in {"connecting", "connected"}
    /\ faults < MaxFaults
    /\ faults' = faults + 1
    /\ socket' = [socket EXCEPT !.state = "closing"]
    /\ link' = IF ~link.connected /\ SignedIn(link) /\ ~link.timer
               THEN ScheduleReconnect(link) ELSE link
    /\ UNCHANGED <<linkEnv, desired, wire, server, expired>>

SocketDisconnected ==
    /\ socket.state = "closing"
    /\ wire' = <<>> /\ server' = NoServer
    /\ LET k == [link EXCEPT !.connected = FALSE]
       IN IF link.openAfter /\ SignedIn(link)
          THEN link' = [k EXCEPT !.openAfter = FALSE, !.shown = "connecting"] /\ Open(link)
          ELSE /\ link' = IF SignedIn(link) THEN ScheduleReconnect(k)
                          ELSE [k EXCEPT !.shown = "disconnected"]
               /\ socket' = NoSocket
    /\ UNCHANGED <<linkEnv, desired, expired, faults>>

-----------------------------------------------------------------------------
(* The server. *)

\* handleConnection goes on after the lookup, or refuses an expired token.
Register ==
    /\ server.pc = "lookup" /\ socket.state = "connected"
    /\ IF socket.token \in expired
       THEN socket' = [socket EXCEPT !.state = "closing"] /\ server' = NoServer
       ELSE socket' = socket /\ server' = [server EXCEPT !.pc = "in"]
    /\ UNCHANGED <<linkEnv, link, desired, wire, expired, faults>>

\* A subscribe event that comes before the session is there is dropped ("early").
Receive ==
    /\ wire # <<>> /\ socket.state = "connected"
    /\ server.pc = "in" \/ (server.pc = "lookup" /\ "early" \in linkEnv)
    /\ wire' = Tail(wire)
    /\ server' = IF server.pc = "lookup" THEN server
                 ELSE [server EXCEPT !.subs = @ \cup ({Head(wire).list} \X Head(wire).ids)]
    /\ UNCHANGED <<linkEnv, socket, link, desired, expired, faults>>

Expire(t) ==
    /\ "expire" \in linkEnv
    /\ t \notin expired
    /\ expired' = expired \cup {t}
    /\ UNCHANGED <<linkEnv, socket, link, desired, wire, server, faults>>

LinkNext ==
    \/ \E t \in Token : ConnectToGateway(t) \/ Expire(t)
    \/ DisconnectFromGateway
    \/ \E l \in List, ids \in SUBSET Topic : SubscribeTo(l, ids)
    \/ TimerFires \/ SocketConnected \/ SocketError \/ SocketDisconnected
    \/ Register \/ Receive

LinkSpec == LinkInit /\ [][LinkNext]_linkVars

\* The event loop delivers signals, the timer fires, the server goes on.
LinkStep == TimerFires \/ SocketConnected \/ SocketDisconnected
LinkFairness == WF_linkVars(LinkStep) /\ WF_linkVars(Register) /\ WF_linkVars(Receive)
LinkFairSpec == LinkSpec /\ LinkFairness

-----------------------------------------------------------------------------
(* Properties. *)

\* After disconnectFromGateway nothing is left that would open the socket again:
\* no timer, no open on disconnect, no connection attempt; what a late answer still
\* subscribes to cannot go out.
LoggedOutStaysDown ==
    link.token = NoToken =>
        /\ ~link.timer /\ ~link.openAfter
        /\ socket.state \in {"unconnected", "closing"}

\* A socket that is open, or opening, carries the token of the last sign-in.
SocketOfSession ==
    socket.state \in {"connecting", "connected"} => socket.token = link.token

\* A signed-in client is never stuck: it is connected, or something is under
\* way that will connect it.
NeverStranded ==
    link.token # NoToken => socket.state # "unconnected" \/ link.timer

\* What is shown: "connected" only while the socket is.
ShownConnected ==
    /\ link.shown = "connected" => link.connected
    /\ socket.state = "connected" => link.connected

\* Once the subscribe events have arrived, the server sends all that is wanted,
\* also after a reconnection, if none arrived before the session was there.
Resubscribed ==
    "early" \notin linkEnv /\ server.pc = "in" /\ wire = <<>> /\ socket.state = "connected" =>
        \A l \in List, i \in Topic : i \in desired[l] => <<l, i>> \in server.subs

\* With a token that does not expire a signed-in client gets its session.
GetsSession ==
    link.token # NoToken ~>
        (link.token = NoToken \/ server.pc = "in" \/ linkEnv \cap {"expire", "again"} # {})

\* The connection follows the session: down when signed out, for the right token,
\* never given up, and as the server and the screen see it.
LinkSound ==
    LoggedOutStaysDown /\ SocketOfSession /\ NeverStranded /\ ShownConnected /\ Resubscribed
=============================================================================
