-------------------------- MODULE ClientPartsProofs --------------------------
(***************************************************************************)
(* What holds of parts of the client on their own: of the gateway          *)
(* connection, of calls that are retried, of the playback threads, of      *)
(* audio devices and settings, of the microphone and of the filter on the  *)
(* log, for any number of tokens, channels, calls, tracks, devices,        *)
(* samples and lines, and of failures of the network and the devices.      *)
(***************************************************************************)
EXTENDS GatewayLink, RestCalls, RemotePlayback, AudioSettings, CaptureFrames,
        LogFilter, SequenceTheorems, TLAPS

-----------------------------------------------------------------------------
(* The gateway connection.                                                 *)

LinkEvent == [list : List, ids : SUBSET Topic]

\* Signing out is the only way to forget the token.
ManualSound == link.token # NoToken => ~link.manual

\* What is wanted is known to the server or on its way there.
Announced(wanted, subs, queue) ==
    \A l \in List : \A i \in wanted[l] :
        <<l, i>> \in subs \/ \E k \in DOMAIN queue : queue[k].list = l /\ i \in queue[k].ids

\* Resubscribed is not inductive: from the moment the socket is connected the
\* subscriptions are on the wire.
AllAnnounced ==
    "early" \notin linkEnv /\ socket.state = "connected" /\ server.pc # "none" =>
        Announced(desired, server.subs, wire)

\* The client sees to its own side whatever the server does.
ClientInv ==
    LinkTypeOK /\ ManualSound /\ LoggedOutStaysDown /\ SocketOfSession /\ NeverStranded
    /\ ShownConnected

LinkInv == ClientInv /\ AllAnnounced

-----------------------------------------------------------------------------
\* sendSubscriptions sends all that is wanted.
LEMMA SubscriptionsFacts ==
  ASSUME desired \in [List -> SUBSET Topic], NEW q, q = Subscriptions
  PROVE  q \in Seq(LinkEvent) /\ Announced(desired, {}, q)
<1> DEFINE c == [list |-> "channels", ids |-> desired["channels"]]
           t == [list |-> "threads", ids |-> desired["threads"]]
<1>1. c \in LinkEvent /\ t \in LinkEvent /\ List = {"channels", "threads"}
      /\ c.list = "channels" /\ c.ids = desired["channels"]
      /\ t.list = "threads" /\ t.ids = desired["threads"]
  BY DEF LinkEvent, List
<1>2. q = (IF desired["channels"] = {} THEN <<>> ELSE <<c>>)
          \o (IF desired["threads"] = {} THEN <<>> ELSE <<t>>)
  BY DEF Subscriptions
<1> HIDE DEF c, t
<1>3. CASE desired["channels"] = {} /\ desired["threads"] = {}
  <2>1. q = <<>>
    BY <1>2, <1>3
  <2>2. QED
    BY <1>1, <1>3, <2>1 DEF Announced
<1>4. CASE desired["channels"] # {} /\ desired["threads"] = {}
  <2>1. q = <<c>>
    BY <1>2, <1>4
  <2>2. q \in Seq(LinkEvent) /\ 1 \in DOMAIN q /\ q[1] = c
    BY <1>1, <2>1
  <2>3. QED
    BY <1>1, <1>4, <2>2 DEF Announced
<1>5. CASE desired["channels"] = {} /\ desired["threads"] # {}
  <2>1. q = <<t>>
    BY <1>2, <1>5
  <2>2. q \in Seq(LinkEvent) /\ 1 \in DOMAIN q /\ q[1] = t
    BY <1>1, <2>1
  <2>3. QED
    BY <1>1, <1>5, <2>2 DEF Announced
<1>6. CASE desired["channels"] # {} /\ desired["threads"] # {}
  <2>1. q = <<c>> \o <<t>>
    BY <1>2, <1>6
  <2>2. q \in Seq(LinkEvent) /\ Len(q) = 2 /\ q[1] = c /\ q[2] = t
    <3>1. <<c>> \in Seq(LinkEvent) /\ Len(<<c>>) = 1 /\ <<t>> \in Seq(LinkEvent) /\ Len(<<t>>) = 1
          /\ <<c>>[1] = c /\ <<t>>[1] = t
      BY <1>1
    <3>2. QED
      BY <2>1, <3>1, ConcatProperties
  <2>3. q \in Seq(LinkEvent) /\ 1 \in DOMAIN q /\ 2 \in DOMAIN q /\ q[1] = c /\ q[2] = t
    BY <1>1, <2>2
  <2>4. QED
    BY <1>1, <2>3 DEF Announced
<1>7. QED
  BY <1>3, <1>4, <1>5, <1>6

\* The variables keep their types.
LEMMA TypesStep ==
  ASSUME LinkTypeOK, [LinkNext]_linkVars
  PROVE  LinkTypeOK'
<1> USE LinkAssumption DEF SocketState, NoSocket, NoServer
<1>1. ASSUME NEW t \in Token, ConnectToGateway(t)
      PROVE  LinkTypeOK'
  <2>1. socket' \in [state : SocketState, token : Token \cup {NoToken}]
    BY <1>1 DEF ConnectToGateway, Open, Close, LinkTypeOK
  <2>2. QED
    BY <1>1, <2>1 DEF ConnectToGateway, LinkTypeOK
<1>2. ASSUME NEW t \in Token, Expire(t)
      PROVE  LinkTypeOK'
  BY <1>2 DEF Expire, LinkTypeOK
<1>3. CASE DisconnectFromGateway
  <2>1. socket' \in [state : SocketState, token : Token \cup {NoToken}]
    BY <1>3 DEF DisconnectFromGateway, Close, LinkTypeOK
  <2>2. desired' \in [List -> SUBSET Topic]
    BY <1>3 DEF DisconnectFromGateway
  <2>3. QED
    BY <1>3, <2>1, <2>2 DEF DisconnectFromGateway, LinkTypeOK
<1>4. ASSUME NEW l \in List, NEW ids \in SUBSET Topic, SubscribeTo(l, ids)
      PROVE  LinkTypeOK'
  <2>1. wire' \in Seq(LinkEvent)
    <3>1. wire \in Seq(LinkEvent) /\ [list |-> l, ids |-> ids] \in LinkEvent
      BY DEF LinkTypeOK, LinkEvent
    <3>2. wire' \in {wire, Append(wire, [list |-> l, ids |-> ids])}
      BY <1>4 DEF SubscribeTo
    <3>3. QED
      BY <3>1, <3>2
  <2>2. desired' \in [List -> SUBSET Topic]
    BY <1>4 DEF SubscribeTo, LinkTypeOK
  <2>3. QED
    BY <1>4, <2>1, <2>2 DEF SubscribeTo, LinkTypeOK, LinkEvent
<1>5. CASE TimerFires
  <2>1. socket' \in [state : SocketState, token : Token \cup {NoToken}]
    BY <1>5 DEF TimerFires, Open, LinkTypeOK
  <2>2. QED
    BY <1>5, <2>1 DEF TimerFires, LinkTypeOK
<1>6. CASE SocketConnected
  <2>1. wire' \in Seq([list : List, ids : SUBSET Topic])
    BY <1>6, SubscriptionsFacts DEF SocketConnected, LinkTypeOK, LinkEvent
  <2>2. server' \in [pc : {"none", "lookup", "in"}, subs : SUBSET (List \X Topic)]
    BY <1>6 DEF SocketConnected
  <2>3. QED
    BY <1>6, <2>1, <2>2 DEF SocketConnected, LinkTypeOK
<1>7. CASE SocketError
  <2>1. faults' \in 0..MaxFaults
    BY <1>7 DEF SocketError, LinkTypeOK
  <2>2. QED
    BY <1>7, <2>1 DEF SocketError, ScheduleReconnect, LinkTypeOK
<1>8. CASE SocketDisconnected
  <2>1. wire' \in Seq([list : List, ids : SUBSET Topic])
    BY <1>8 DEF SocketDisconnected
  <2>2. server' \in [pc : {"none", "lookup", "in"}, subs : SUBSET (List \X Topic)]
    BY <1>8 DEF SocketDisconnected
  <2>3. socket' \in [state : SocketState, token : Token \cup {NoToken}]
    BY <1>8 DEF SocketDisconnected, Open, LinkTypeOK
  <2>4. link' \in [token : Token \cup {NoToken}, manual : BOOLEAN, openAfter : BOOLEAN,
                   timer : BOOLEAN, connected : BOOLEAN,
                   shown : {"disconnected", "connecting", "connected", "reconnecting"}]
    <3> DEFINE k == [link EXCEPT !.connected = FALSE]
               Link == [token : Token \cup {NoToken}, manual : BOOLEAN, openAfter : BOOLEAN,
                        timer : BOOLEAN, connected : BOOLEAN,
                        shown : {"disconnected", "connecting", "connected", "reconnecting"}]
    <3>1. link' \in {[k EXCEPT !.openAfter = FALSE, !.shown = "connecting"],
                     ScheduleReconnect(k), [k EXCEPT !.shown = "disconnected"]}
      BY <1>8 DEF SocketDisconnected
    <3>2. k \in Link
      BY DEF LinkTypeOK
    <3> HIDE DEF k
    <3>3. /\ [k EXCEPT !.openAfter = FALSE, !.shown = "connecting"] \in Link
          /\ [k EXCEPT !.shown = "disconnected"] \in Link
      BY <3>2
    <3>4. ScheduleReconnect(k) \in Link
      BY <3>2 DEF ScheduleReconnect
    <3>5. QED
      BY <3>1, <3>3, <3>4
  <2>5. UNCHANGED <<linkEnv, desired, expired, faults>>
    BY <1>8 DEF SocketDisconnected
  <2>6. QED
    BY <2>1, <2>2, <2>3, <2>4, <2>5 DEF LinkTypeOK
<1>9. CASE Register
  <2>1. server' \in [pc : {"none", "lookup", "in"}, subs : SUBSET (List \X Topic)]
    BY <1>9 DEF Register, LinkTypeOK
  <2>2. QED
    BY <1>9, <2>1 DEF Register, LinkTypeOK
<1>10. CASE Receive
  <2>1. Head(wire) \in LinkEvent /\ wire' \in Seq(LinkEvent)
    <3>1. wire \in Seq(LinkEvent) /\ wire # <<>> /\ wire' = Tail(wire)
      BY <1>10 DEF Receive, LinkEvent, LinkTypeOK
    <3>2. QED
      BY <3>1
  <2>2. server' \in [pc : {"none", "lookup", "in"}, subs : SUBSET (List \X Topic)]
    BY <1>10, <2>1 DEF Receive, LinkEvent, LinkTypeOK
  <2>3. QED
    BY <1>10, <2>1, <2>2 DEF Receive, LinkTypeOK, LinkEvent
<1>11. CASE UNCHANGED linkVars
  BY <1>11 DEF linkVars, LinkTypeOK
<1>12. QED
  BY <1>1, <1>2, <1>3, <1>4, <1>5, <1>6, <1>7, <1>8, <1>9, <1>10, <1>11 DEF LinkNext

\* The client's own side.
LEMMA ClientStep ==
  ASSUME ClientInv, [LinkNext]_linkVars
  PROVE  ClientInv'
<1> DEFINE Follows == /\ ManualSound' /\ LoggedOutStaysDown' /\ SocketOfSession'
                      /\ NeverStranded' /\ ShownConnected'
<1> SUFFICES Follows
  BY TypesStep DEF ClientInv
<1>1. /\ socket \in [state : SocketState, token : Token \cup {NoToken}]
      /\ link \in [token : Token \cup {NoToken}, manual : BOOLEAN, openAfter : BOOLEAN,
                   timer : BOOLEAN, connected : BOOLEAN,
                   shown : {"disconnected", "connecting", "connected", "reconnecting"}]
      /\ ManualSound /\ LoggedOutStaysDown /\ SocketOfSession /\ NeverStranded /\ ShownConnected
  BY DEF ClientInv, LinkTypeOK
<1> USE LinkAssumption DEF ManualSound, LoggedOutStaysDown, SocketOfSession, NeverStranded,
        ShownConnected, SocketState
<1>2. ASSUME NEW t \in Token, ConnectToGateway(t)
      PROVE  Follows
  <2>1. /\ link' = [link EXCEPT !.token = t, !.manual = FALSE, !.timer = FALSE,
                                !.openAfter = socket.state # "unconnected", !.shown = "connecting"]
        /\ \/ socket'.state = "connecting" /\ socket'.token = link'.token
           \/ socket'.state = "closing"
    BY <1>1, <1>2 DEF ConnectToGateway, Open, Close
  <2>2. QED
    BY <1>1, <2>1
<1>3. CASE DisconnectFromGateway
  <2>1. /\ link' = [link EXCEPT !.manual = TRUE, !.openAfter = FALSE, !.timer = FALSE,
                                !.token = NoToken, !.shown = "disconnected"]
        /\ socket'.state \in {"unconnected", "closing"}
    BY <1>1, <1>3 DEF DisconnectFromGateway, Close
  <2>2. QED
    BY <1>1, <2>1
<1>4. ASSUME NEW l \in List, NEW ids \in SUBSET Topic, SubscribeTo(l, ids)
      PROVE  Follows
  BY <1>1, <1>4 DEF SubscribeTo
<1>5. CASE TimerFires
  <2>1. CASE SignedIn(link)
    BY <1>1, <1>5, <2>1 DEF TimerFires, SignedIn, Open
  <2>2. CASE ~SignedIn(link)
    BY <1>1, <1>5, <2>2 DEF TimerFires, SignedIn
  <2>3. QED
    BY <2>1, <2>2
<1>6. CASE SocketConnected
  <2>1. /\ socket.state = "connecting"
        /\ socket' = [socket EXCEPT !.state = "connected"]
        /\ link' = [link EXCEPT !.timer = FALSE, !.shown = "connected", !.connected = TRUE]
        /\ desired' = desired
    BY <1>6 DEF SocketConnected
  <2>2. QED
    BY <1>1, <2>1
<1>7. CASE SocketError
  <2>1. /\ link.token # NoToken /\ socket' = [socket EXCEPT !.state = "closing"]
        /\ desired' = desired
    BY <1>1, <1>7 DEF SocketError
  <2>2. /\ link'.token = link.token /\ link'.manual = link.manual
        /\ link'.connected = link.connected
        /\ link'.shown = "connected" => link.shown = "connected"
    BY <1>1, <1>7 DEF SocketError, ScheduleReconnect
  <2>3. QED
    BY <1>1, <2>1, <2>2
<1>8. CASE SocketDisconnected
  <2> DEFINE k == [link EXCEPT !.connected = FALSE]
  <2>1. desired' = desired
    BY <1>8 DEF SocketDisconnected
  <2>2. CASE link.openAfter /\ SignedIn(link)
    <3>1. /\ link' = [k EXCEPT !.openAfter = FALSE, !.shown = "connecting"]
          /\ socket'.state = "connecting" /\ socket'.token = link.token
      BY <1>8, <2>2 DEF SocketDisconnected, Open
    <3>2. QED
      BY <1>1, <2>1, <2>2, <3>1 DEF SignedIn
  <2>3. CASE ~(link.openAfter /\ SignedIn(link)) /\ SignedIn(link)
    <3>1. link' = [k EXCEPT !.shown = "reconnecting", !.timer = TRUE]
          /\ socket'.state = "unconnected"
      BY <1>8, <2>3 DEF SocketDisconnected, ScheduleReconnect, NoSocket
    <3>2. QED
      BY <1>1, <2>1, <2>3, <3>1 DEF SignedIn
  <2>4. CASE ~SignedIn(link)
    <3>1. link' = [k EXCEPT !.shown = "disconnected"] /\ socket'.state = "unconnected"
      BY <1>8, <2>4 DEF SocketDisconnected, NoSocket
    <3>2. QED
      BY <1>1, <2>1, <2>4, <3>1 DEF SignedIn
  <2>5. QED
    BY <2>2, <2>3, <2>4
<1>9. CASE Register
  <2>1. link' = link /\ desired' = desired /\ socket' \in {socket, [socket EXCEPT !.state = "closing"]}
        /\ socket.state = "connected"
    BY <1>9 DEF Register
  <2>2. QED
    BY <1>1, <2>1
<1>10. CASE Receive \/ UNCHANGED linkVars \/ \E t \in Token : Expire(t)
  <2>1. UNCHANGED <<socket, link, desired>>
    BY <1>10 DEF Receive, linkVars, Expire
  <2>2. QED
    BY <1>1, <2>1
<1>11. QED
  BY <1>2, <1>3, <1>4, <1>5, <1>6, <1>7, <1>8, <1>9, <1>10 DEF LinkNext, ClientInv

\* The subscriptions.
LEMMA AnnouncedStep ==
  ASSUME LinkInv, [LinkNext]_linkVars
  PROVE  AllAnnounced'
<1>1. /\ desired \in [List -> SUBSET Topic] /\ wire \in Seq(LinkEvent)
      /\ server \in [pc : {"none", "lookup", "in"}, subs : SUBSET (List \X Topic)]
      /\ socket \in [state : SocketState, token : Token \cup {NoToken}]
  BY DEF LinkInv, ClientInv, LinkTypeOK, LinkEvent
<1>2. AllAnnounced
  BY DEF LinkInv
<1> SUFFICES ASSUME "early" \notin linkEnv', socket'.state = "connected", server'.pc # "none"
             PROVE  Announced(desired', server'.subs, wire')
  BY DEF AllAnnounced, Announced
<1>3. CASE UNCHANGED <<linkEnv, socket, desired, wire, server>>
  BY <1>2, <1>3 DEF AllAnnounced
<1>4. CASE \E t \in Token : ConnectToGateway(t)
  <2>1. PICK t \in Token : ConnectToGateway(t)
    BY <1>4
  <2>2. socket'.state \in {"connecting", "closing", "unconnected"}
    BY <1>1, <2>1 DEF ConnectToGateway, Open, Close
  <2>3. QED
    BY <2>2
<1>5. CASE \E t \in Token : Expire(t)
  BY <1>3, <1>5 DEF Expire
<1>6. CASE DisconnectFromGateway
  BY <1>1, <1>6 DEF DisconnectFromGateway, Close
<1>7. ASSUME NEW l \in List, NEW ids \in SUBSET Topic, SubscribeTo(l, ids)
      PROVE  Announced(desired', server'.subs, wire')
  <2> DEFINE event == [list |-> l, ids |-> ids]
  <2>1. /\ desired' = [desired EXCEPT ![l] = ids] /\ wire' = Append(wire, event)
        /\ UNCHANGED <<linkEnv, socket, server>>
    BY <1>7 DEF SubscribeTo
  <2>2. Announced(desired, server.subs, wire)
    BY <1>2, <2>1 DEF AllAnnounced
  <2>3. event.list = l /\ event.ids = ids
    OBVIOUS
  <2> HIDE DEF event
  <2>4. /\ Len(wire) + 1 \in DOMAIN wire' /\ wire'[Len(wire) + 1] = event
        /\ \A k \in DOMAIN wire : k \in DOMAIN wire' /\ wire'[k] = wire[k]
    BY <1>1, <2>1
  <2>5. ASSUME NEW m \in List, NEW i \in desired'[m]
        PROVE  <<m, i>> \in server'.subs
               \/ \E k \in DOMAIN wire' : wire'[k].list = m /\ i \in wire'[k].ids
    <3>1. CASE m = l
      <4>1. i \in ids
        BY <1>1, <2>1, <2>5, <3>1
      <4>2. QED
        BY <2>3, <2>4, <3>1, <4>1
    <3>2. CASE m # l
      <4>1. i \in desired[m]
        BY <1>1, <2>1, <2>5, <3>2
      <4>2. QED
        BY <2>1, <2>2, <2>4, <4>1 DEF Announced
    <3>3. QED
      BY <3>1, <3>2
  <2>6. QED
    BY <2>5 DEF Announced
<1>8. CASE TimerFires
  <2>1. UNCHANGED <<linkEnv, desired, wire, server>>
    BY <1>8 DEF TimerFires
  <2>2. socket' = socket
    BY <1>8 DEF TimerFires, Open
  <2>3. QED
    BY <1>3, <2>1, <2>2
<1>9. CASE SocketConnected
  <2>1. /\ wire' = Subscriptions /\ server'.subs = {} /\ desired' = desired
    BY <1>9 DEF SocketConnected
  <2>2. QED
    BY <1>1, <2>1, SubscriptionsFacts
<1>10. CASE SocketError \/ SocketDisconnected
  BY <1>1, <1>10 DEF SocketError, SocketDisconnected, Open, NoSocket
<1>11. CASE Register
  <2>1. /\ server.pc = "lookup" /\ socket.state = "connected" /\ server'.subs = server.subs
        /\ UNCHANGED <<linkEnv, desired, wire>>
    BY <1>1, <1>11 DEF Register, NoServer
  <2>2. QED
    BY <1>2, <2>1 DEF AllAnnounced
<1>12. CASE Receive
  <2>1. /\ wire # <<>> /\ wire' = Tail(wire) /\ server.pc = "in"
        /\ server'.subs = server.subs \cup ({Head(wire).list} \X Head(wire).ids)
        /\ UNCHANGED <<linkEnv, socket, desired>>
    BY <1>1, <1>12 DEF Receive
  <2>2. Announced(desired, server.subs, wire)
    BY <1>2, <2>1 DEF AllAnnounced
  <2>3. \A k \in DOMAIN wire : wire[k] = Head(wire) \/
           \E j \in DOMAIN wire' : wire'[j] = wire[k]
    <3>1. ASSUME NEW k \in DOMAIN wire, k # 1
          PROVE  k - 1 \in DOMAIN wire' /\ wire'[k - 1] = wire[k]
      BY <1>1, <2>1, <3>1
    <3>2. wire[1] = Head(wire)
      BY <1>1, <2>1
    <3>3. QED
      BY <3>1, <3>2
  <2>4. ASSUME NEW l \in List, NEW i \in desired[l]
        PROVE  <<l, i>> \in server'.subs
               \/ \E k \in DOMAIN wire' : wire'[k].list = l /\ i \in wire'[k].ids
    <3>1. CASE <<l, i>> \in server.subs
      BY <2>1, <3>1
    <3>2. CASE \E k \in DOMAIN wire : wire[k].list = l /\ i \in wire[k].ids
      <4>1. PICK k \in DOMAIN wire : wire[k].list = l /\ i \in wire[k].ids
        BY <3>2
      <4>2. CASE wire[k] = Head(wire)
        BY <2>1, <4>1, <4>2
      <4>3. CASE \E j \in DOMAIN wire' : wire'[j] = wire[k]
        BY <4>1, <4>3
      <4>4. QED
        BY <2>3, <4>2, <4>3
    <3>3. QED
      BY <2>2, <3>1, <3>2 DEF Announced
  <2>5. QED
    BY <2>1, <2>4 DEF Announced
<1>13. CASE UNCHANGED linkVars
  BY <1>3, <1>13 DEF linkVars
<1>14. QED
  BY <1>4, <1>5, <1>6, <1>7, <1>8, <1>9, <1>10, <1>11, <1>12, <1>13 DEF LinkNext

\* The invariant, of every behaviour.
THEOREM LinkInvariant == LinkSpec => []LinkInv
<1>1. ASSUME LinkInit
      PROVE  LinkInv
  <2>1. /\ linkEnv \in LinkScenarios /\ wire = <<>> /\ expired = {} /\ faults = 0
        /\ socket = [state |-> "unconnected", token |-> NoToken]
        /\ link = [token |-> NoToken, manual |-> FALSE, openAfter |-> FALSE, timer |-> FALSE,
                   connected |-> FALSE, shown |-> "disconnected"]
        /\ desired = [l \in List |-> {}]
        /\ server = [pc |-> "none", subs |-> {}]
    BY <1>1 DEF LinkInit, NoSocket, NoServer
  <2>2. /\ wire \in Seq([list : List, ids : SUBSET Topic])
        /\ \A l \in List : desired[l] = {}
    BY <2>1
  <2>3. LinkTypeOK
    <3>1. socket \in [state : SocketState, token : Token \cup {NoToken}]
      BY <2>1 DEF SocketState
    <3>2. server \in [pc : {"none", "lookup", "in"}, subs : SUBSET (List \X Topic)]
      BY <2>1
    <3>3. desired \in [List -> SUBSET Topic]
      BY <2>1
    <3>4. faults \in 0..MaxFaults
      BY <2>1, LinkAssumption
    <3>5. link \in [token : Token \cup {NoToken}, manual : BOOLEAN, openAfter : BOOLEAN,
                    timer : BOOLEAN, connected : BOOLEAN,
                    shown : {"disconnected", "connecting", "connected", "reconnecting"}]
      BY <2>1
    <3>6. QED
      BY <2>1, <2>2, <3>1, <3>2, <3>3, <3>4, <3>5 DEF LinkTypeOK
  <2>4. ManualSound /\ LoggedOutStaysDown /\ SocketOfSession /\ NeverStranded /\ ShownConnected
    BY <2>1, <2>2 DEF ManualSound, LoggedOutStaysDown, SocketOfSession, NeverStranded, ShownConnected
  <2>5. AllAnnounced
    BY <2>1 DEF AllAnnounced
  <2>6. QED
    BY <2>3, <2>4, <2>5 DEF LinkInv, ClientInv
<1>2. ASSUME LinkInv, [LinkNext]_linkVars
      PROVE  LinkInv'
  BY <1>2, ClientStep, AnnouncedStep DEF LinkInv
<1>3. QED
  BY <1>1, <1>2, PTL DEF LinkSpec

\* The connection follows the session: signed out it stays down, signed in it is
\* for the token of the last sign-in and is never given up, and after every
\* reconnection the server is told again all that is wanted.
THEOREM LinkIsSound == LinkSpec => []LinkSound
<1>1. ASSUME LinkInv
      PROVE  Resubscribed
  <2>1. ASSUME "early" \notin linkEnv, server.pc = "in", wire = <<>>, socket.state = "connected",
               NEW l \in List, NEW i \in Topic, i \in desired[l]
        PROVE  <<l, i>> \in server.subs
    BY <1>1, <2>1 DEF LinkInv, AllAnnounced, Announced
  <2>2. QED
    BY <2>1 DEF Resubscribed
<1>2. LinkInv => LinkSound
  BY <1>1 DEF LinkInv, ClientInv, LinkSound
<1>3. QED
  BY <1>2, LinkInvariant, PTL

-----------------------------------------------------------------------------
(* Calls that are retried.                                                 *)

\* How often the reply in hand, or what the caller has heard, says it was done.
AnsweredOk(c) == IF reply[c] = "ok" THEN 1 ELSE 0
Heard(c) == IF calls[c].heard = "ok" THEN 1 ELSE 0

\* What the server has done is accounted for: by an answer that was lost, by the
\* reply in hand, or by what the caller has heard.
Accounted(c) == effects[c] = dropped[c] + AnsweredOk(c) + Heard(c)

\* Nothing is heard before the call is over, and there is a reply only to a call
\* that was sent.
Phased(c) ==
    /\ calls[c].heard # "nothing" <=> calls[c].at = "over"
    /\ reply[c] # "none" => calls[c].at = "sent"

\* Each attempt does it at most once.
OncePerAttempt(c) ==
    /\ effects[c] <= calls[c].attempt + 1
    /\ calls[c].at = "new" \/ (calls[c].at = "sent" /\ reply[c] = "none") =>
            effects[c] <= calls[c].attempt
    /\ calls[c].at = "backoff" => calls[c].attempt < MaxRetries
    /\ calls[c].kind = "upload" => calls[c].attempt = 0 /\ calls[c].at # "backoff"

\* DoneAsHeard is not inductive: between the deed and the callback only the reply
\* says that it was done.
RestInv == RestTypeOK /\ \A c \in Call : Accounted(c) /\ Phased(c) /\ OncePerAttempt(c)

-----------------------------------------------------------------------------
\* A step of one call leaves the others as they were.
LEMMA OneCallMoves ==
  ASSUME RestInv, NEW c \in Call, RestTypeOK',
         \A d \in Call \ {c} :
            /\ calls'[d] = calls[d] /\ reply'[d] = reply[d]
            /\ effects'[d] = effects[d] /\ dropped'[d] = dropped[d],
         Accounted(c)', Phased(c)', OncePerAttempt(c)'
  PROVE  RestInv'
<1>1. ASSUME NEW d \in Call \ {c}
      PROVE  Accounted(d)' /\ Phased(d)' /\ OncePerAttempt(d)'
  BY DEF RestInv, Accounted, Phased, OncePerAttempt, AnsweredOk, Heard
<1>2. QED
  BY <1>1 DEF RestInv

LEMMA RestStep ==
  ASSUME RestInv, [RestNext]_restVars
  PROVE  RestInv'
<1> USE DEF CallKind, Outcome, MaxRetries
<1>1. RestTypeOK /\ \A c \in Call : Accounted(c) /\ Phased(c) /\ OncePerAttempt(c)
  BY DEF RestInv
<1>2. ASSUME NEW c \in Call, MakeCall(c)
      PROVE  RestInv'
  <2>1. RestTypeOK'
    BY <1>1, <1>2 DEF MakeCall, RestTypeOK
  <2>2. Accounted(c)' /\ Phased(c)' /\ OncePerAttempt(c)'
    BY <1>1, <1>2 DEF MakeCall, RestTypeOK, Accounted, Phased, OncePerAttempt, AnsweredOk, Heard
  <2>3. QED
    BY <1>2, <2>1, <2>2, OneCallMoves DEF MakeCall, RestTypeOK, RestInv
<1>3. ASSUME NEW c \in Call, Finished(c)
      PROVE  RestInv'
  <2> DEFINE again == /\ calls[c].attempt < MaxRetries /\ Retries(calls[c].kind)
                      /\ ShouldRetryRequest(reply[c])
             tells == CASE again -> calls[c].heard
                        [] reply[c] = "ok" -> "ok"
                        [] OTHER -> "failed"
  <2>1. /\ calls[c].at = "sent" /\ reply[c] # "none"
        /\ calls' = [calls EXCEPT ![c].at = IF again THEN "backoff" ELSE "over",
                                  ![c].heard = tells]
        /\ reply' = [reply EXCEPT ![c] = "none"]
        /\ UNCHANGED <<restEnv, effects, dropped>>
    BY <1>1, <1>3 DEF Finished, RestTypeOK
  <2>2. calls[c].heard = "nothing"
    BY <1>1, <2>1 DEF Phased
  <2>3. /\ again => tells = "nothing" /\ reply[c] # "ok" /\ calls[c].attempt < 2
                    /\ calls[c].kind # "upload"
        /\ ~again => tells = (IF reply[c] = "ok" THEN "ok" ELSE "failed")
    BY <2>2 DEF Retries, ShouldRetryRequest
  <2> HIDE DEF again, tells
  <2>4. tells \in {"nothing", "ok", "failed"}
    BY <2>3
  <2> DEFINE told == [calls[c] EXCEPT !.at = IF again THEN "backoff" ELSE "over",
                                      !.heard = tells]
             Record == [kind : CallKind, at : {"new", "sent", "backoff", "over"},
                        attempt : 0..MaxRetries, heard : {"nothing", "ok", "failed"}]
  <2>5. calls \in [Call -> Record] /\ told \in Record /\ calls' = [calls EXCEPT ![c] = told]
    BY <1>1, <2>1, <2>4 DEF RestTypeOK
  <2>6. /\ calls'[c].at = (IF again THEN "backoff" ELSE "over") /\ calls'[c].heard = tells
        /\ calls'[c].attempt = calls[c].attempt /\ calls'[c].kind = calls[c].kind
        /\ reply'[c] = "none" /\ effects'[c] = effects[c] /\ dropped'[c] = dropped[c]
    BY <1>1, <2>1, <2>5 DEF RestTypeOK
  <2>7. RestTypeOK'
    <3> HIDE DEF told, Record
    <3>1. calls' \in [Call -> Record]
      BY <2>5
    <3>2. reply' \in [Call -> Outcome \cup {"none"}]
      BY <1>1, <2>1 DEF RestTypeOK
    <3>3. QED
      BY <1>1, <2>1, <3>1, <3>2 DEF RestTypeOK, Record
  <2> HIDE DEF told
  <2>8. /\ Accounted(c) /\ OncePerAttempt(c)
        /\ calls[c].attempt \in 0..2 /\ dropped[c] \in Nat /\ effects[c] \in Nat
    BY <1>1 DEF RestTypeOK
  <2>9. Accounted(c)'
    BY <2>2, <2>3, <2>6, <2>8 DEF Accounted, AnsweredOk, Heard
  <2>10. Phased(c)' /\ OncePerAttempt(c)'
    BY <2>3, <2>6, <2>8 DEF Phased, OncePerAttempt
  <2>11. QED
    BY <2>1, <2>7, <2>9, <2>10, OneCallMoves DEF RestTypeOK, RestInv
<1>4. ASSUME NEW c \in Call, Resend(c)
      PROVE  RestInv'
  <2>1. RestTypeOK'
    BY <1>1, <1>4 DEF Resend, RestTypeOK, OncePerAttempt
  <2>2. Accounted(c)' /\ Phased(c)' /\ OncePerAttempt(c)'
    BY <1>1, <1>4 DEF Resend, RestTypeOK, Accounted, Phased, OncePerAttempt, AnsweredOk, Heard
  <2>3. QED
    BY <1>4, <2>1, <2>2, OneCallMoves DEF Resend, RestTypeOK, RestInv
<1>5. ASSUME NEW c \in Call, ServerAnswers(c)
      PROVE  RestInv'
  <2>1. PICK outcome \in {"ok", "refused"} \cup (restEnv \cap {"busy"}) :
           /\ reply' = [reply EXCEPT ![c] = outcome]
           /\ effects' = IF outcome = "ok" THEN [effects EXCEPT ![c] = @ + 1] ELSE effects
    BY <1>5 DEF ServerAnswers
  <2>2. /\ calls[c].at = "sent" /\ reply[c] = "none"
        /\ UNCHANGED <<restEnv, calls, dropped>> /\ outcome \in {"ok", "refused", "busy"}
    BY <1>5 DEF ServerAnswers
  <2>3. effects[c] <= calls[c].attempt /\ effects[c] \in Nat /\ calls[c].attempt \in 0..2
    BY <1>1, <2>2 DEF OncePerAttempt, RestTypeOK
  <2>4. RestTypeOK'
    BY <1>1, <2>1, <2>2, <2>3 DEF RestTypeOK
  <2>5. Accounted(c)' /\ Phased(c)' /\ OncePerAttempt(c)'
    BY <1>1, <2>1, <2>2, <2>3
       DEF RestTypeOK, Accounted, Phased, OncePerAttempt, AnsweredOk, Heard
  <2>6. QED
    BY <2>1, <2>2, <2>4, <2>5, OneCallMoves DEF RestTypeOK, RestInv
<1>6. ASSUME NEW c \in Call, Break(c)
      PROVE  RestInv'
  <2>1. RestTypeOK'
    BY <1>1, <1>6, RestAssumption DEF Break, RestTypeOK
  <2>2. Accounted(c)' /\ Phased(c)' /\ OncePerAttempt(c)'
    BY <1>1, <1>6, RestAssumption
       DEF Break, RestTypeOK, Accounted, Phased, OncePerAttempt, AnsweredOk, Heard
  <2>3. QED
    BY <1>6, <2>1, <2>2, OneCallMoves DEF Break, RestTypeOK, RestInv
<1>7. CASE UNCHANGED restVars
  BY <1>1, <1>7
     DEF restVars, RestInv, RestTypeOK, Accounted, Phased, OncePerAttempt, AnsweredOk, Heard
<1>8. QED
  BY <1>2, <1>3, <1>4, <1>5, <1>6, <1>7 DEF RestNext, CallStep

\* The invariant, of every behaviour.
THEOREM RestInvariant == RestSpec => []RestInv
<1>1. RestInit => RestInv
  BY RestAssumption
     DEF RestInit, RestInv, RestTypeOK, Accounted, Phased, OncePerAttempt, AnsweredOk, Heard,
         CallKind, Outcome, MaxRetries
<1>2. RestInv /\ [RestNext]_restVars => RestInv'
  BY RestStep
<1>3. QED
  BY <1>1, <1>2, PTL DEF RestSpec

\* A call that succeeded was done, one that failed was not, but for the answers that
\* were lost: each makes the server do it at most once more, and never an upload.
THEOREM RestIsSound == RestSpec => []RestSound
<1>1. ASSUME RestInv, NEW c \in Call
      PROVE  /\ calls[c].heard = "ok" => effects[c] \in 1..(1 + dropped[c])
             /\ calls[c].heard = "failed" => effects[c] <= dropped[c]
             /\ calls[c].kind = "upload" => effects[c] <= 1
  <2>1. /\ Accounted(c) /\ Phased(c) /\ OncePerAttempt(c)
        /\ calls[c].attempt \in 0..2 /\ dropped[c] \in Nat /\ effects[c] \in Nat
    BY <1>1 DEF RestInv, RestTypeOK, MaxRetries
  <2>2. QED
    BY <2>1 DEF Accounted, Phased, OncePerAttempt, AnsweredOk, Heard
<1>2. RestInv => RestSound
  BY <1>1 DEF RestSound, DoneAsHeard, UploadOnce
<1>3. QED
  BY <1>2, RestInvariant, PTL

-----------------------------------------------------------------------------
(* Playback threads.                                                       *)

Record == [pc : {"read", "check", "write", "leave", "ended"}, stop : BOOLEAN,
           open : BOOLEAN, frame : Format \cup {NoFormat},
           sink : [format : Format \cup {NoFormat}, works : BOOLEAN]]

\* A sink that works is of a format of the device, and of the frame that is written.
SinkGood(t) ==
    /\ t.sink.works => t.sink.format \in Supported
    /\ t.pc = "write" => t.sink = [format |-> t.frame, works |-> TRUE]

\* NoStrayThread is not inductive: while the GUI thread waits, the threads it waits
\* for are in no map.
PlaybackInv ==
    /\ PlaybackTypeOK
    /\ gui.starts \subseteq tracks
    /\ \A s \in Sid : /\ thread[s].pc # "ended" => s \in playbacks \cup gui.joins
                      /\ SinkGood(thread[s])

-----------------------------------------------------------------------------
\* The records a thread becomes.
LEMMA ThreadRecords ==
  /\ Ended \in Record /\ SinkGood(Ended) /\ Ended.pc = "ended"
  /\ Started \in Record /\ SinkGood(Started)
BY DEF Ended, Started, NoSink, Record, SinkGood

\* The GUI thread stops playbacks.
LEMMA StopKeeps ==
  ASSUME PlaybackInv, Free, NEW stopped \in SUBSET Sid, NEW starts \in SUBSET Sid,
         StopThen(stopped, starts), tracks' \in SUBSET Sid, starts \subseteq tracks',
         playbacks \ stopped \subseteq tracks', UNCHANGED <<deafened, broken>>
  PROVE  PlaybackInv'
<1> USE DEF PlaybackTypeOK, Record
<1>1. /\ thread \in [Sid -> Record] /\ gui.joins = {} /\ playbacks \in SUBSET Sid
      /\ \A s \in Sid : /\ thread[s].pc # "ended" => s \in playbacks
                        /\ SinkGood(thread[s])
  BY DEF PlaybackInv, Free, Idle
<1>2. ASSUME NEW s \in Sid
      PROVE  /\ thread'[s] \in Record /\ SinkGood(thread'[s])
             /\ thread'[s].pc = thread[s].pc
  <2> DEFINE t == thread[s]
             u == [t EXCEPT !.stop = TRUE, !.open = FALSE]
  <2>1. thread'[s] \in {t, u}
    BY DEF StopThen
  <2>2. t \in Record /\ SinkGood(t)
    BY <1>1
  <2> HIDE DEF t
  <2>3. u \in Record /\ u.pc = t.pc /\ u.sink = t.sink /\ u.frame = t.frame
    BY <2>2
  <2> HIDE DEF u
  <2>4. SinkGood(u)
    BY <2>2, <2>3 DEF SinkGood
  <2>5. thread'[s] \in Record /\ SinkGood(thread'[s]) /\ thread'[s].pc = t.pc
    BY <2>1, <2>2, <2>3, <2>4
  <2>6. QED
    BY <2>5 DEF t
<1>3. thread' \in [Sid -> Record]
  BY <1>2 DEF StopThen
<1>4. /\ playbacks' = playbacks \ stopped
      /\ gui' = [joins |-> stopped \cap playbacks, starts |-> starts]
  BY DEF StopThen
<1>5. PlaybackTypeOK'
  BY <1>1, <1>3, <1>4 DEF PlaybackInv
<1>6. gui'.starts \subseteq tracks'
  BY <1>4
<1>7. ASSUME NEW s \in Sid
      PROVE  thread'[s].pc # "ended" => s \in playbacks' \cup gui'.joins
  BY <1>1, <1>2, <1>4
<1>8. QED
  BY <1>2, <1>5, <1>6, <1>7 DEF PlaybackInv

\* A thread moves.
LEMMA ThreadKeeps ==
  ASSUME PlaybackInv, NEW s \in Sid, NEW r \in Record, Becomes(s, r),
         thread[s].pc # "ended", SinkGood(r), broken' \in 0..MaxBroken
  PROVE  PlaybackInv'
<1>1. thread \in [Sid -> Record] /\ thread' = [thread EXCEPT ![s] = r]
      /\ UNCHANGED <<tracks, playbacks, gui, deafened>>
  BY DEF PlaybackInv, PlaybackTypeOK, Record, Becomes
<1>2. thread' \in [Sid -> Record] /\ thread'[s] = r /\ \A u \in Sid \ {s} : thread'[u] = thread[u]
  BY <1>1
<1>3. PlaybackTypeOK'
  BY <1>1, <1>2 DEF PlaybackInv, PlaybackTypeOK, Record
<1>4. ASSUME NEW u \in Sid
      PROVE  /\ thread'[u].pc # "ended" => u \in playbacks' \cup gui'.joins
             /\ SinkGood(thread'[u])
  <2>1. CASE u = s
    BY <1>1, <1>2, <2>1 DEF PlaybackInv
  <2>2. CASE u # s
    BY <1>1, <1>2, <2>2 DEF PlaybackInv
  <2>3. QED
    BY <2>1, <2>2
<1>5. QED
  BY <1>1, <1>3, <1>4 DEF PlaybackInv

\* Every step of a playback thread.
LEMMA ThreadSteps ==
  ASSUME PlaybackInv, NEW s \in Sid,
         Read(s) \/ ReadEnds(s) \/ Check(s) \/ WriteFrame(s) \/ WriteStops(s) \/ Leaves(s)
  PROVE  PlaybackInv'
<1> DEFINE t == thread[s]
<1>1. t \in Record /\ SinkGood(t) /\ broken \in 0..MaxBroken /\ MaxBroken \in Nat
  BY PlaybackAssumption DEF PlaybackInv, PlaybackTypeOK, Record
<1> HIDE DEF t
<1>2. CASE Read(s)
  <2>1. PICK f \in Format : Becomes(s, [t EXCEPT !.pc = "check", !.frame = f])
    BY <1>2 DEF Read, t
  <2>2. [t EXCEPT !.pc = "check", !.frame = f] \in Record
        /\ SinkGood([t EXCEPT !.pc = "check", !.frame = f])
    BY <1>1 DEF Record, SinkGood
  <2>3. QED
    BY <1>1, <1>2, <2>1, <2>2, ThreadKeeps DEF Read
<1>3. CASE ReadEnds(s)
  <2>1. Becomes(s, [t EXCEPT !.pc = "leave"]) /\ thread[s].pc # "ended"
        /\ broken' \in 0..MaxBroken
    BY <1>1, <1>3 DEF ReadEnds, t
  <2>2. [t EXCEPT !.pc = "leave"] \in Record /\ SinkGood([t EXCEPT !.pc = "leave"])
    BY <1>1 DEF Record, SinkGood
  <2>3. QED
    BY <2>1, <2>2, ThreadKeeps
<1>4. CASE Check(s)
  <2> DEFINE Move(r) == r \in Record /\ SinkGood(r) /\ Becomes(s, r)
  <2>1. t.pc = "check" /\ thread[s].pc # "ended"
    BY <1>4 DEF Check, t
  <2>2. broken' \in 0..MaxBroken
    BY <1>1, <1>4 DEF Check
  <2>3. CASE t.stop
    <3>1. Becomes(s, [t EXCEPT !.pc = "leave"])
      BY <1>4, <2>3 DEF Check, t
    <3>2. [t EXCEPT !.pc = "leave"] \in Record /\ SinkGood([t EXCEPT !.pc = "leave"])
      BY <1>1 DEF Record, SinkGood
    <3>3. QED
      BY <2>1, <2>2, <3>1, <3>2, ThreadKeeps
  <2>4. CASE ~t.stop /\ (deafened \/ (Fits(t) /\ ~t.sink.works))
    <3>1. Becomes(s, [t EXCEPT !.pc = "read"])
      BY <1>4, <2>4 DEF Check, t
    <3>2. [t EXCEPT !.pc = "read"] \in Record /\ SinkGood([t EXCEPT !.pc = "read"])
      BY <1>1 DEF Record, SinkGood
    <3>3. QED
      BY <2>1, <2>2, <3>1, <3>2, ThreadKeeps
  <2>5. CASE ~t.stop /\ ~deafened /\ Fits(t) /\ t.sink.works
    <3>1. Becomes(s, [t EXCEPT !.pc = "write"])
      BY <1>4, <2>5 DEF Check, t
    <3>2. [t EXCEPT !.pc = "write"] \in Record /\ SinkGood([t EXCEPT !.pc = "write"])
      BY <1>1, <2>5 DEF Record, SinkGood, Fits
    <3>3. QED
      BY <2>1, <2>2, <3>1, <3>2, ThreadKeeps
  <2>6. CASE ~t.stop /\ ~deafened /\ ~Fits(t) /\ t.frame \notin Supported
    <3>1. Becomes(s, [t EXCEPT !.pc = "read", !.sink = NoSink])
      BY <1>4, <2>6 DEF Check, t
    <3>2. [t EXCEPT !.pc = "read", !.sink = NoSink] \in Record
          /\ SinkGood([t EXCEPT !.pc = "read", !.sink = NoSink])
      BY <1>1 DEF Record, SinkGood, NoSink
    <3>3. QED
      BY <2>1, <2>2, <3>1, <3>2, ThreadKeeps
  <2>7. CASE ~t.stop /\ ~deafened /\ ~Fits(t) /\ t.frame \in Supported
    <3> DEFINE good == [t EXCEPT !.pc = "write", !.sink = [format |-> t.frame, works |-> TRUE]]
               bad == [t EXCEPT !.pc = "read", !.sink = [format |-> t.frame, works |-> FALSE]]
    <3>1. Becomes(s, good) \/ Becomes(s, bad)
      BY <1>4, <2>7 DEF Check, t
    <3>2. good \in Record /\ SinkGood(good) /\ bad \in Record /\ SinkGood(bad)
      BY <1>1, <2>7 DEF Record, SinkGood
    <3> HIDE DEF good, bad
    <3>3. QED
      BY <2>1, <2>2, <3>1, <3>2, ThreadKeeps
  <2>8. QED
    BY <2>3, <2>4, <2>5, <2>6, <2>7
<1>5. CASE WriteFrame(s) \/ WriteStops(s)
  <2>1. Becomes(s, [t EXCEPT !.pc = "read"]) /\ thread[s].pc # "ended" /\ broken' = broken
    BY <1>5 DEF WriteFrame, WriteStops, t
  <2>2. [t EXCEPT !.pc = "read"] \in Record /\ SinkGood([t EXCEPT !.pc = "read"])
    BY <1>1 DEF Record, SinkGood
  <2>3. QED
    BY <1>1, <2>1, <2>2, ThreadKeeps
<1>6. CASE Leaves(s)
  BY <1>1, <1>6, ThreadRecords, ThreadKeeps DEF Leaves
<1>7. QED
  BY <1>2, <1>3, <1>4, <1>5, <1>6

LEMMA PlaybackStep ==
  ASSUME PlaybackInv, [PlaybackNext]_playbackVars
  PROVE  PlaybackInv'
<1>1. /\ tracks \in SUBSET Sid /\ playbacks \in SUBSET tracks /\ thread \in [Sid -> Record]
      /\ gui \in [joins : SUBSET Sid, starts : SUBSET Sid] /\ gui.starts \subseteq tracks
      /\ deafened \in BOOLEAN /\ broken \in 0..MaxBroken
  BY DEF PlaybackInv, PlaybackTypeOK, Record
<1>2. ASSUME NEW s \in Sid, Subscribed(s) \/ Unsubscribed(s)
      PROVE  PlaybackInv'
  BY <1>1, <1>2, StopKeeps DEF Subscribed, Unsubscribed
<1>3. CASE Rebuild
  BY <1>1, <1>3, StopKeeps DEF Rebuild
<1>4. CASE StopPlaybacks
  BY <1>1, <1>4, StopKeeps DEF StopPlaybacks
<1>5. CASE SetDeafened
  BY <1>5 DEF SetDeafened, PlaybackInv, PlaybackTypeOK
<1>6. CASE ThreadsEnded
  <2>1. PICK streams \in SUBSET gui.starts :
           /\ broken' = IF streams = gui.starts THEN broken ELSE broken + 1
           /\ broken' <= MaxBroken
           /\ playbacks' = playbacks \cup streams
           /\ thread' = [s \in Sid |-> IF s \in streams THEN Started ELSE thread[s]]
    BY <1>6 DEF ThreadsEnded
  <2>2. gui' = Idle /\ UNCHANGED <<tracks, deafened>>
        /\ \A s \in gui.joins : thread[s].pc = "ended"
    BY <1>6 DEF ThreadsEnded
  <2>3. gui' \in [joins : SUBSET Sid, starts : SUBSET Sid] /\ gui'.starts = {}
    BY <2>2 DEF Idle
  <2>4. broken' \in 0..MaxBroken
    BY <1>1, <2>1, PlaybackAssumption
  <2>5. ASSUME NEW s \in Sid
        PROVE  /\ thread'[s] \in Record /\ SinkGood(thread'[s])
               /\ thread'[s].pc # "ended" => s \in playbacks'
    BY <1>1, <2>1, <2>2, ThreadRecords DEF PlaybackInv
  <2>6. thread' \in [Sid -> Record]
    BY <2>1, <2>5
  <2>7. PlaybackTypeOK'
    BY <1>1, <2>1, <2>2, <2>3, <2>4, <2>6 DEF PlaybackTypeOK, Record
  <2>8. QED
    BY <2>3, <2>5, <2>7 DEF PlaybackInv
<1>7. CASE UNCHANGED playbackVars
  BY <1>7 DEF playbackVars, PlaybackInv, PlaybackTypeOK
<1>8. QED
  BY <1>2, <1>3, <1>4, <1>5, <1>6, <1>7, ThreadSteps DEF PlaybackNext

\* The invariant, of every behaviour.
THEOREM PlaybackInvariant == PlaybackSpec => []PlaybackInv
<1>1. PlaybackInit => PlaybackInv
  <2> SUFFICES ASSUME PlaybackInit PROVE PlaybackInv
    OBVIOUS
  <2>1. \A s \in Sid : thread[s] = Ended /\ thread[s] \in Record /\ SinkGood(thread[s])
    BY ThreadRecords DEF PlaybackInit
  <2>2. thread \in [Sid -> Record]
    BY <2>1 DEF PlaybackInit
  <2>3. gui \in [joins : SUBSET Sid, starts : SUBSET Sid] /\ gui.starts = {}
    BY DEF PlaybackInit, Idle
  <2>4. PlaybackTypeOK
    <3>1. tracks = {} /\ playbacks = {} /\ deafened = FALSE /\ broken = 0
      BY DEF PlaybackInit
    <3>2. broken \in 0..MaxBroken
      BY <3>1, PlaybackAssumption
    <3>3. QED
      BY <2>2, <2>3, <3>1, <3>2 DEF PlaybackTypeOK, Record
  <2>5. \A s \in Sid : thread[s].pc = "ended"
    BY <2>1, ThreadRecords
  <2>6. QED
    BY <2>1, <2>3, <2>4, <2>5 DEF PlaybackInv
<1>2. PlaybackInv /\ [PlaybackNext]_playbackVars => PlaybackInv'
  BY PlaybackStep
<1>3. QED
  BY <1>1, <1>2, PTL DEF PlaybackSpec

\* No thread plays that the engine has forgotten, and none writes samples to a sink
\* of another format.
THEOREM PlaybackIsSound == PlaybackSpec => []PlaybackSound
<1>1. ASSUME PlaybackInv, NEW s \in Sid, thread[s].pc = "write"
      PROVE  thread[s].sink = [format |-> thread[s].frame, works |-> TRUE]
             /\ thread[s].frame \in Supported
  <2>1. thread[s].sink = [format |-> thread[s].frame, works |-> TRUE]
        /\ (thread[s].sink.works => thread[s].sink.format \in Supported)
    BY <1>1 DEF PlaybackInv, SinkGood
  <2>2. QED
    BY <2>1
<1>2. PlaybackInv => NoStrayThread
  BY DEF PlaybackInv, NoStrayThread, Idle
<1>3. PlaybackInv => PlaybackSound
  BY <1>1, <1>2 DEF PlaybackSound, SinkMatchesFrame
<1>4. QED
  BY <1>3, PlaybackInvariant, PTL

-----------------------------------------------------------------------------
(* Devices and settings.                                                   *)

\* The engine's part of a state, the view model's, the file and the devices there are.
EngineAudio == [lists : [Kind -> SUBSET Device], selected : [Kind -> Id], volume : 0..200,
                started : BOOLEAN, live : SUBSET Kind, uses : [Kind -> Device \cup {NoDevice}]]
PanelState == [lists : [Kind -> SUBSET Device], settings : Settings(0..200, Mode, Hotkey)]
Stored == Settings(Volume \cup 0..200, Mode \cup {"other"}, Hotkey \cup {"other"})
AudioState == [audio : EngineAudio, panel : PanelState, stored : Stored]
Devices == [Kind -> [there : SUBSET Device, default : Device \cup {NoDevice}, opens : Opens]]

\* What AudioSound says of a state, and what it does not say of the selection when a
\* device may be selected that is gone.
Stores(s) == Normal(s.stored) = s.panel.settings

Selects(s) ==
    /\ s.panel.settings.selected = s.audio.selected
    /\ \A k \in Kind : s.audio.selected[k] \in s.audio.lists[k] \cup {SystemDefault}

\* What a says of kind k is what is selected, or none.
UsesOne(a, k) ==
    \/ a.uses[k] = Resolve(a.selected[k], os[k])
    \/ a.uses[k] = NoDevice /\ (k \notin a.live \/ "fail" \in audioEnv)

\* Out of voice nothing is in use: what is selected then does not matter.
Uses(s, kinds) ==
    /\ s.audio.started => \A k \in kinds : UsesOne(s.audio, k)
    /\ ~s.audio.started => s.audio.live = {} /\ \A k \in Kind : s.audio.uses[k] = NoDevice

AudioGood(s) ==
    /\ s \in AudioState
    /\ s.audio.volume = s.panel.settings.volume
    /\ s.panel.lists = s.audio.lists
    /\ Stores(s)
    /\ "stale" \notin audioEnv => Selects(s)

AudioInv ==
    /\ os \in Devices /\ signals \subseteq Kind /\ audioEnv \in AudioScenarios
    /\ AudioGood(Now) /\ Uses(Now, Kind \ signals)

-----------------------------------------------------------------------------
\* The fields of the records.
LEMMA AudioFields ==
  ASSUME NEW s \in AudioState
  PROVE  /\ s.audio.lists \in [Kind -> SUBSET Device]
         /\ s.audio.selected \in [Kind -> Id]
         /\ s.audio.volume \in 0..200 /\ s.audio.started \in BOOLEAN
         /\ s.audio.live \in SUBSET Kind
         /\ s.audio.uses \in [Kind -> Device \cup {NoDevice}]
         /\ s.panel.lists \in [Kind -> SUBSET Device]
         /\ s.panel.settings \in Settings(0..200, Mode, Hotkey)
         /\ s.panel.settings.selected \in [Kind -> Id]
         /\ s.panel.settings.volume \in 0..200
         /\ s.stored \in Stored
BY DEF AudioState, EngineAudio, PanelState, Settings

\* Settings that are normal are stored as they are, and read as they were stored.
LEMMA NormalSettings ==
  /\ \A p \in Settings(0..200, Mode, Hotkey) : Normal(p) = p /\ p \in Stored
  /\ \A f \in Stored : Normal(f) \in Settings(0..200, Mode, Hotkey) /\ Normal(f).selected = f.selected
<1>1. ASSUME NEW p \in Settings(0..200, Mode, Hotkey)
      PROVE  Normal(p) = p /\ p \in Stored
  <2>1. /\ p.volume \in 0..200 /\ p.mode \in Mode /\ p.hotkey \in Hotkey
        /\ p = [selected |-> p.selected, volume |-> p.volume, mode |-> p.mode,
                hotkey |-> p.hotkey, enabled |-> p.enabled]
    BY <1>1 DEF Settings
  <2>2. NormalVolume(p.volume) = p.volume /\ NormalMode(p.mode) = p.mode /\ NormalHotkey(p.hotkey) = p.hotkey
    BY <2>1 DEF NormalVolume, NormalMode, NormalHotkey, Mode
  <2>3. Normal(p) = p
    BY <1>1, <2>2 DEF Normal, Settings
  <2>4. QED
    BY <1>1, <2>3 DEF Settings, Stored
<1>2. ASSUME NEW f \in Stored
      PROVE  Normal(f) \in Settings(0..200, Mode, Hotkey) /\ Normal(f).selected = f.selected
  <2>1. f.volume \in Int /\ f.selected \in [Kind -> Id] /\ f.enabled \in BOOLEAN
    <3>1. f.volume \in Volume \cup 0..200 /\ f.selected \in [Kind -> Id] /\ f.enabled \in BOOLEAN
      BY <1>2 DEF Settings, Stored
    <3>2. \A n \in Volume \cup 0..200 : n \in Int
      BY AudioAssumption
    <3>3. QED
      BY <3>1, <3>2, Zenon
  <2>2. /\ NormalVolume(f.volume) \in 0..200 /\ NormalMode(f.mode) \in Mode
        /\ NormalHotkey(f.hotkey) \in Hotkey
    BY <2>1 DEF NormalVolume, NormalMode, NormalHotkey, Mode, Hotkey
  <2>3. PICK v \in 0..200, m \in Mode, h \in Hotkey :
           v = NormalVolume(f.volume) /\ m = NormalMode(f.mode) /\ h = NormalHotkey(f.hotkey)
    BY <2>2
  <2>4. Normal(f) = [f EXCEPT !.volume = v, !.mode = m, !.hotkey = h]
    BY <2>3 DEF Normal
  <2>5. f = [selected |-> f.selected, volume |-> f.volume, mode |-> f.mode, hotkey |-> f.hotkey,
             enabled |-> f.enabled]
    BY <1>2 DEF Settings, Stored
  <2>6. Normal(f) = [selected |-> f.selected, volume |-> v, mode |-> m, hotkey |-> h,
                     enabled |-> f.enabled]
    BY <2>4, <2>5
  <2>7. QED
    BY <2>1, <2>3, <2>6 DEF Settings
<1>3. QED
  BY <1>1, <1>2

\* What is selected stays selected if it is there, or else is the system's default.
LEMMA KeptFacts ==
  ASSUME NEW id \in Id, NEW list
  PROVE  /\ Kept(id, list) \in Id /\ Kept(id, list) \in list \cup {SystemDefault}
         /\ id \in list \cup {SystemDefault} => Kept(id, list) = id
BY DEF Kept, Id

-----------------------------------------------------------------------------
\* Opening devices again changes what is in use and nothing else.
LEMMA ReopenFacts ==
  ASSUME NEW s \in AudioState, os \in Devices, NEW kinds \in SUBSET Kind, NEW t, t = Reopen(s, kinds)
  PROVE  /\ t \in AudioState /\ t.panel = s.panel /\ t.stored = s.stored
         /\ t.audio.lists = s.audio.lists /\ t.audio.selected = s.audio.selected
         /\ t.audio.volume = s.audio.volume /\ t.audio.started = s.audio.started
         /\ t.audio.live = s.audio.live
         /\ \A k \in kinds : s.audio.started => UsesOne(t.audio, k)
         /\ \A k \in Kind \ kinds : t.audio.uses[k] = s.audio.uses[k]
         /\ ~s.audio.started => t.audio = s.audio
<1>1. \A k \in Kind : /\ Opened(s, k) \in Device \cup {NoDevice}
                      /\ \/ Opened(s, k) = Resolve(s.audio.selected[k], os[k])
                         \/ Opened(s, k) = NoDevice /\ (k \notin s.audio.live \/ "fail" \in audioEnv)
  <2>1. ASSUME NEW k \in Kind
        PROVE  /\ Resolve(s.audio.selected[k], os[k]) \in Device \cup {NoDevice}
               /\ os[k].opens \/ "fail" \in audioEnv
    BY DEF Resolve, Devices, Opens
  <2>2. QED
    BY <2>1 DEF Opened
<1>2. CASE ~s.audio.started
  BY <1>2 DEF Reopen
<1>3. CASE s.audio.started
  <2> DEFINE uses == [k \in Kind |-> IF k \in kinds THEN Opened(s, k) ELSE s.audio.uses[k]]
  <2>1. PICK a \in EngineAudio : a = [s.audio EXCEPT !.uses = uses]
    BY <1>1, AudioFields DEF AudioState, EngineAudio
  <2>2. t = [s EXCEPT !.audio = a]
    BY <1>3, <2>1 DEF Reopen
  <2>3. /\ t \in AudioState /\ t.panel = s.panel /\ t.stored = s.stored /\ t.audio = a
    BY <2>2 DEF AudioState
  <2>4. /\ a.lists = s.audio.lists /\ a.selected = s.audio.selected /\ a.volume = s.audio.volume
        /\ a.started = s.audio.started /\ a.live = s.audio.live /\ a.uses = uses
    BY <2>1 DEF AudioState, EngineAudio
  <2>5. \A k \in kinds : UsesOne(a, k)
    BY <1>1, <2>4 DEF UsesOne
  <2>6. QED
    BY <1>3, <2>3, <2>4, <2>5
<1>4. QED
  BY <1>2, <1>3, AudioFields

\* The view model takes the lists of the engine, drops what is gone from the
\* selection, and stores a selection that has changed.
LEMMA RecomputeFacts ==
  ASSUME NEW s \in AudioState, NEW t, t = Recompute(s), Stores(s)
  PROVE  /\ t \in AudioState /\ t.audio = s.audio /\ t.panel.lists = s.audio.lists /\ Stores(t)
         /\ t.panel.settings.volume = s.panel.settings.volume
         /\ \A k \in Kind : t.panel.settings.selected[k] =
                               Kept(s.panel.settings.selected[k], s.audio.lists[k])
<1> DEFINE p == s.panel.settings
           selected == [k \in Kind |-> Kept(p.selected[k], s.audio.lists[k])]
           u == [s EXCEPT !.panel.lists = s.audio.lists, !.panel.settings.selected = selected]
<1>1. t = IF selected = p.selected THEN u ELSE [u EXCEPT !.stored = u.panel.settings]
  BY DEF Recompute
<1>2. /\ selected \in [Kind -> Id]
      /\ \A k \in Kind : selected[k] = Kept(p.selected[k], s.audio.lists[k])
  BY AudioFields, KeptFacts
<1>3. PICK v : v = [s.panel EXCEPT !.lists = s.audio.lists, !.settings.selected = selected]
  OBVIOUS
<1>4. u = [s EXCEPT !.panel = v]
  BY <1>3
<1>5. p \in Settings(0..200, Mode, Hotkey) /\ s.panel \in PanelState /\ s.panel.settings = p
  BY AudioFields DEF AudioState
<1> HIDE DEF p, selected, u
<1>6. PICK q : q = [p EXCEPT !.selected = selected]
  OBVIOUS
<1>7. /\ q \in Settings(0..200, Mode, Hotkey) /\ q.selected = selected /\ q.volume = p.volume
      /\ selected = p.selected => q = p
  BY <1>2, <1>5, <1>6 DEF Settings
<1>8. v = [s.panel EXCEPT !.lists = s.audio.lists, !.settings = q]
  BY <1>3, <1>5, <1>6
<1>9. v \in PanelState /\ v.lists = s.audio.lists /\ v.settings = q
  BY <1>5, <1>7, <1>8, AudioFields DEF PanelState
<1>10. u \in AudioState /\ u.audio = s.audio /\ u.panel = v /\ u.stored = s.stored
  BY <1>4, <1>9 DEF AudioState
<1>11. CASE selected = p.selected
  <2>1. t = u /\ q = p
    BY <1>1, <1>7, <1>11
  <2>2. Stores(t)
    BY <1>5, <1>9, <1>10, <2>1 DEF Stores
  <2>3. QED
    BY <1>2, <1>5, <1>7, <1>9, <1>10, <2>1, <2>2
<1>12. CASE selected # p.selected
  <2>1. q \in Stored /\ Normal(q) = q
    BY <1>7, NormalSettings
  <2>2. t = [u EXCEPT !.stored = q]
    BY <1>1, <1>9, <1>10, <1>12
  <2>3. t \in AudioState /\ t.audio = u.audio /\ t.panel = u.panel /\ t.stored = q
    BY <1>10, <2>1, <2>2 DEF AudioState
  <2>4. Stores(t)
    BY <1>9, <1>10, <2>1, <2>3 DEF Stores
  <2>5. QED
    BY <1>2, <1>5, <1>7, <1>9, <1>10, <2>3, <2>4
<1>13. QED
  BY <1>11, <1>12

\* The state t has the list of kind k from the system, and is otherwise like s.
Took(s, t, k) ==
    /\ t \in AudioState /\ Stores(t) /\ t.panel.lists = t.audio.lists
    /\ t.audio.selected = s.audio.selected /\ t.audio.volume = s.audio.volume
    /\ t.audio.started = s.audio.started /\ t.audio.uses = s.audio.uses
    /\ t.audio.live = s.audio.live
    /\ t.panel.settings.volume = s.panel.settings.volume
    /\ t.audio.lists[k] = os[k].there
    /\ \A j \in Kind \ {k} : t.audio.lists[j] = s.audio.lists[j]
    /\ \A j \in Kind :
          \/ /\ t.audio.lists[j] = s.audio.lists[j]
             /\ t.panel.settings.selected[j] = s.panel.settings.selected[j]
          \/ t.panel.settings.selected[j] = Kept(s.panel.settings.selected[j], t.audio.lists[j])

\* One list is taken from the system, as far as the engine and the view model agree.
LEMMA TakeListFacts ==
  ASSUME NEW s \in AudioState, NEW k \in Kind, os \in Devices,
         NEW t, t = TakeList(s, k), Stores(s), s.panel.lists = s.audio.lists
  PROVE  Took(s, t, k)
<1>1. CASE s.audio.lists[k] = os[k].there
  <2>1. t = s
    BY <1>1 DEF TakeList
  <2>2. QED
    BY <1>1, <2>1 DEF Took
<1>2. CASE s.audio.lists[k] # os[k].there
  <2>1. PICK lists \in [Kind -> SUBSET Device] : lists = [s.audio.lists EXCEPT ![k] = os[k].there]
    BY AudioFields DEF Devices
  <2>0. lists[k] = os[k].there /\ \A j \in Kind \ {k} : lists[j] = s.audio.lists[j]
    BY <2>1, AudioFields
  <2>2. PICK a \in EngineAudio : a = [s.audio EXCEPT !.lists = lists]
    BY AudioFields DEF AudioState, EngineAudio
  <2>3. /\ a.lists = lists /\ a.selected = s.audio.selected /\ a.volume = s.audio.volume
        /\ a.started = s.audio.started /\ a.uses = s.audio.uses /\ a.live = s.audio.live
    BY <2>2 DEF AudioState, EngineAudio
  <2>4. PICK u \in AudioState : u = [s EXCEPT !.audio = a]
    BY DEF AudioState
  <2>5. u.audio = a /\ u.panel = s.panel /\ u.stored = s.stored
    BY <2>4 DEF AudioState
  <2>6. u = [s EXCEPT !.audio.lists[k] = os[k].there]
    BY <2>1, <2>2, <2>4 DEF AudioState, EngineAudio
  <2>7. t = Recompute(u) /\ Stores(u)
    BY <1>2, <2>5, <2>6 DEF TakeList, Stores
  <2>8. /\ t \in AudioState /\ t.audio = a /\ t.panel.lists = lists /\ Stores(t)
        /\ t.panel.settings.volume = s.panel.settings.volume
        /\ \A j \in Kind : t.panel.settings.selected[j] = Kept(s.panel.settings.selected[j], lists[j])
    BY <2>3, <2>5, <2>7, RecomputeFacts
  <2>9. QED
    BY <2>0, <2>3, <2>8 DEF Took
<1>3. QED
  BY <1>1, <1>2

\* The engine looks at the devices: its lists are those of the system, and a selection
\* that agreed goes on to agree.
LEMMA DevicesRefreshed ==
  ASSUME NEW s \in AudioState, os \in Devices, NEW t, t = Refresh(s),
         Stores(s), s.panel.lists = s.audio.lists
  PROVE  /\ t \in AudioState /\ Stores(t) /\ t.panel.lists = t.audio.lists
         /\ t.audio.volume = s.audio.volume /\ t.audio.started = s.audio.started
         /\ t.panel.settings.volume = s.panel.settings.volume
         /\ Selects(s) => Selects(t)
         /\ \A kinds \in SUBSET Kind : Uses(s, kinds) => Uses(t, kinds)
<1> DEFINE selected == [k \in Kind |-> Kept(s.audio.selected[k], os[k].there)]
           r0 == [s EXCEPT !.audio.selected = selected]
<1>7. PICK in \in Kind, out \in Kind : in = "input" /\ out = "output"
  BY DEF Kind
<1>0. PICK r1, r2 : r1 = TakeList(r0, in) /\ r2 = TakeList(r1, out)
  OBVIOUS
<1>1. t = IF selected = s.audio.selected THEN r2 ELSE Reopen(r2, Kind)
  BY <1>0, <1>7 DEF Refresh
<1>2. /\ selected \in [Kind -> Id]
      /\ \A k \in Kind : selected[k] = Kept(s.audio.selected[k], os[k].there)
  BY AudioFields, KeptFacts
<1>3. PICK a : a = [s.audio EXCEPT !.selected = selected]
  OBVIOUS
<1>4. r0 = [s EXCEPT !.audio = a]
  BY <1>3
<1> HIDE DEF selected, r0
<1>5. /\ a \in EngineAudio /\ a.selected = selected /\ a.lists = s.audio.lists
      /\ a.volume = s.audio.volume /\ a.started = s.audio.started /\ a.uses = s.audio.uses /\ a.live = s.audio.live
  BY <1>2, <1>3 DEF AudioState, EngineAudio
<1>6. r0 \in AudioState /\ r0.audio = a /\ r0.panel = s.panel /\ r0.stored = s.stored
  BY <1>4, <1>5 DEF AudioState
<1>17. in # out /\ \A k \in Kind : k = in \/ k = out
  BY <1>7 DEF Kind
<1>8. Stores(r0) /\ r0.panel.lists = r0.audio.lists
  BY <1>5, <1>6 DEF Stores
<1>9. /\ r1 \in AudioState /\ Stores(r1) /\ r1.panel.lists = r1.audio.lists
      /\ r1.audio.selected = selected /\ r1.audio.volume = s.audio.volume
      /\ r1.audio.started = s.audio.started /\ r1.audio.uses = s.audio.uses
      /\ r1.audio.live = s.audio.live
      /\ r1.panel.settings.volume = s.panel.settings.volume
      /\ r1.audio.lists[in] = os[in].there
      /\ \A j \in Kind \ {in} : r1.audio.lists[j] = s.audio.lists[j]
      /\ \A j \in Kind :
            \/ /\ r1.audio.lists[j] = s.audio.lists[j]
               /\ r1.panel.settings.selected[j] = s.panel.settings.selected[j]
            \/ r1.panel.settings.selected[j] = Kept(s.panel.settings.selected[j], r1.audio.lists[j])
  <2>1. Took(r0, r1, in)
    BY <1>0, <1>6, <1>17, <1>8, TakeListFacts
  <2>2. QED
    BY <1>5, <1>6, <2>1 DEF Took
<1>10. /\ r2 \in AudioState /\ Stores(r2) /\ r2.panel.lists = r2.audio.lists
       /\ r2.audio.selected = selected /\ r2.audio.volume = s.audio.volume
       /\ r2.audio.started = s.audio.started /\ r2.audio.uses = s.audio.uses
       /\ r2.audio.live = s.audio.live
       /\ r2.panel.settings.volume = s.panel.settings.volume
       /\ r2.audio.lists[out] = os[out].there
       /\ \A j \in Kind \ {out} : r2.audio.lists[j] = r1.audio.lists[j]
       /\ \A j \in Kind :
             \/ /\ r2.audio.lists[j] = r1.audio.lists[j]
                /\ r2.panel.settings.selected[j] = r1.panel.settings.selected[j]
             \/ r2.panel.settings.selected[j] = Kept(r1.panel.settings.selected[j], r2.audio.lists[j])
  <2>1. Took(r1, r2, out)
    BY <1>0, <1>17, <1>9, TakeListFacts
  <2>2. QED
    BY <1>9, <2>1 DEF Took
<1>11. /\ t \in AudioState /\ t.panel = r2.panel /\ t.stored = r2.stored
       /\ t.audio.lists = r2.audio.lists /\ t.audio.selected = selected
       /\ t.audio.volume = r2.audio.volume /\ t.audio.started = r2.audio.started
       /\ t.audio.live = r2.audio.live
  BY <1>1, <1>10, ReopenFacts
<1>12. /\ r1.audio.lists[in] = os[in].there
       /\ r1.audio.lists[out] = s.audio.lists[out]
       /\ r2.audio.lists[in] = os[in].there
       /\ r2.audio.lists[out] = os[out].there
  BY <1>17, <1>9, <1>10
<1>13. ASSUME Selects(s)
       PROVE  Selects(t)
  <2> DEFINE given(k) == s.audio.selected[k]
             got(k) == r2.panel.settings.selected[k]
  <2>1. \A k \in Kind : /\ given(k) \in Id /\ s.panel.settings.selected[k] = given(k)
                        /\ Kept(given(k), s.audio.lists[k]) = given(k)
    BY <1>13, AudioFields, KeptFacts DEF Selects
  <2>2. \A k \in Kind : /\ selected[k] \in Id /\ selected[k] \in os[k].there \cup {SystemDefault}
                        /\ Kept(selected[k], os[k].there) = selected[k]
    BY <1>2, <2>1, KeptFacts
  <2>3. r1.panel.settings.selected[in] = selected[in]
    BY <1>2, <1>17, <1>9, <1>12, <2>1
  <2>4. r1.panel.settings.selected[out] = given(out)
    BY <1>17, <1>9, <1>12, <2>1
  <2>5. got(in) = selected[in]
    BY <1>17, <1>10, <1>12, <2>2, <2>3
  <2>6. got(out) = selected[out]
    BY <1>2, <1>17, <1>10, <1>12, <2>1, <2>4
  <2>7. r2.panel.settings.selected \in [Kind -> Id]
    BY <1>10, AudioFields
  <2>8. r2.panel.settings.selected = selected
    BY <1>2, <1>17, <2>5, <2>6, <2>7
  <2>9. QED
    BY <1>17, <1>11, <1>12, <2>2, <2>8 DEF Selects
<1>14. ASSUME NEW kinds \in SUBSET Kind, Uses(s, kinds)
       PROVE  Uses(t, kinds)
  <2>1. CASE selected = s.audio.selected
    BY <1>1, <1>10, <1>11, <1>14, <2>1 DEF Uses, UsesOne
  <2>2. CASE selected # s.audio.selected
    <3>1. t = Reopen(r2, Kind)
      BY <1>1, <2>2
    <3>2. /\ \A k \in Kind : r2.audio.started => UsesOne(t.audio, k)
          /\ ~r2.audio.started => t.audio = r2.audio
      BY <1>10, <3>1, ReopenFacts
    <3>3. QED
      BY <1>10, <1>11, <1>14, <3>2 DEF Uses
  <2>3. QED
    BY <2>1, <2>2
<1>15. Stores(t)
  BY <1>10, <1>11 DEF Stores
<1>16. QED
  BY <1>10, <1>11, <1>13, <1>14, <1>15

\* In the state t the device id is selected, and it is otherwise like s.
Chose(s, t, k, id) ==
    /\ t \in AudioState /\ t.panel = s.panel /\ t.stored = s.stored
    /\ t.audio.lists = s.audio.lists /\ t.audio.volume = s.audio.volume
    /\ t.audio.started = s.audio.started
    /\ t.audio.selected[k] = id
    /\ \A j \in Kind \ {k} : t.audio.selected[j] = s.audio.selected[j]
    /\ \A kinds \in SUBSET Kind : Uses(s, kinds) => Uses(t, kinds)

\* One device is selected in the engine.
LEMMA SelectFacts ==
  ASSUME NEW s \in AudioState, os \in Devices, NEW k \in Kind, NEW id \in Id,
         NEW t, t = Select(s, k, id)
  PROVE  Chose(s, t, k, id)
<1>1. CASE s.audio.selected[k] = id
  <2>1. t = s
    BY <1>1 DEF Select
  <2>2. QED
    BY <1>1, <2>1 DEF Chose
<1>2. CASE s.audio.selected[k] # id
  <2>1. PICK selected \in [Kind -> Id] : selected = [s.audio.selected EXCEPT ![k] = id]
    BY AudioFields
  <2>2. PICK a \in EngineAudio : a = [s.audio EXCEPT !.selected = selected]
    BY AudioFields DEF AudioState, EngineAudio
  <2>3. /\ a.selected = selected /\ a.lists = s.audio.lists /\ a.volume = s.audio.volume
        /\ a.started = s.audio.started /\ a.uses = s.audio.uses /\ a.live = s.audio.live
    BY <2>2 DEF AudioState, EngineAudio
  <2>4. PICK u \in AudioState : u = [s EXCEPT !.audio = a]
    BY DEF AudioState
  <2>5. u.audio = a /\ u.panel = s.panel /\ u.stored = s.stored
    BY <2>4 DEF AudioState
  <2>6. u = [s EXCEPT !.audio.selected[k] = id]
    BY <2>1, <2>2, <2>4 DEF AudioState, EngineAudio
  <2>7. t = Reopen(u, {k})
    BY <1>2, <2>6 DEF Select
  <2>8. /\ t \in AudioState /\ t.panel = u.panel /\ t.stored = u.stored
        /\ t.audio.lists = a.lists /\ t.audio.selected = selected
        /\ t.audio.volume = a.volume /\ t.audio.started = a.started
        /\ t.audio.live = a.live
        /\ a.started => UsesOne(t.audio, k)
        /\ \A j \in Kind \ {k} : t.audio.uses[j] = a.uses[j]
        /\ ~a.started => t.audio = a
    BY <2>3, <2>5, <2>7, ReopenFacts
  <2>9. selected[k] = id /\ \A j \in Kind \ {k} : selected[j] = s.audio.selected[j]
    BY <2>1, AudioFields
  <2>10. ASSUME NEW kinds \in SUBSET Kind, Uses(s, kinds)
         PROVE  Uses(t, kinds)
    BY <2>3, <2>8, <2>9, <2>10 DEF Uses, UsesOne
  <2>11. QED
    BY <2>3, <2>5, <2>8, <2>9, <2>10 DEF Chose
<1>3. QED
  BY <1>1, <1>2

\* After a dispatch the engine has the devices and the volume of the view model.
LEMMA DispatchFacts ==
  ASSUME NEW s \in AudioState, os \in Devices, NEW t, t = DispatchDevices(s)
  PROVE  /\ t \in AudioState /\ t.panel = s.panel /\ t.stored = s.stored
         /\ t.audio.lists = s.audio.lists /\ t.audio.started = s.audio.started
         /\ t.audio.volume = s.panel.settings.volume
         /\ t.audio.selected = s.panel.settings.selected
         /\ \A kinds \in SUBSET Kind : Uses(s, kinds) => Uses(t, kinds)
<1> DEFINE p == s.panel.settings
<1>2. PICK in \in Kind, out \in Kind : in = "input" /\ out = "output"
  BY DEF Kind
<1>0. PICK t1, t2 : t1 = Select(s, in, p.selected[in]) /\ t2 = Select(t1, out, p.selected[out])
  OBVIOUS
<1>1. t = [t2 EXCEPT !.audio.volume = p.volume]
  BY <1>0, <1>2 DEF DispatchDevices
<1>12. /\ in # out /\ \A k \in Kind : k = in \/ k = out
       /\ p.selected \in [Kind -> Id] /\ p.volume \in 0..200
  BY <1>2, AudioFields DEF Kind
<1> HIDE DEF p
<1>3. /\ t1 \in AudioState /\ t1.panel = s.panel /\ t1.stored = s.stored
      /\ t1.audio.lists = s.audio.lists /\ t1.audio.started = s.audio.started
      /\ t1.audio.selected[in] = p.selected[in]
      /\ \A j \in Kind \ {in} : t1.audio.selected[j] = s.audio.selected[j]
      /\ \A kinds \in SUBSET Kind : Uses(s, kinds) => Uses(t1, kinds)
  <2>1. p.selected[in] \in Id
    BY <1>12
  <2>2. Chose(s, t1, in, p.selected[in])
    BY <1>0, <2>1, SelectFacts
  <2>3. QED
    BY <2>2 DEF Chose
<1>4. /\ t2 \in AudioState /\ t2.panel = s.panel /\ t2.stored = s.stored
      /\ t2.audio.lists = s.audio.lists /\ t2.audio.started = s.audio.started
      /\ t2.audio.selected[out] = p.selected[out]
      /\ \A j \in Kind \ {out} : t2.audio.selected[j] = t1.audio.selected[j]
      /\ \A kinds \in SUBSET Kind : Uses(s, kinds) => Uses(t2, kinds)
  <2>1. p.selected[out] \in Id
    BY <1>12
  <2>2. Chose(t1, t2, out, p.selected[out])
    BY <1>0, <1>3, <2>1, SelectFacts
  <2>3. QED
    BY <1>3, <2>2 DEF Chose
<1>5. t2.audio.selected = p.selected
  <2>1. s.audio.selected \in [Kind -> Id] /\ t1.audio.selected \in [Kind -> Id]
        /\ t2.audio.selected \in [Kind -> Id]
    BY <1>3, <1>4, AudioFields
  <2>2. \A k \in Kind : t2.audio.selected[k] = p.selected[k]
    BY <1>12, <1>3, <1>4, <2>1
  <2>3. QED
    BY <1>12, <2>1, <2>2
<1>6. PICK a \in EngineAudio : a = [t2.audio EXCEPT !.volume = p.volume]
  BY <1>12, <1>4 DEF AudioState, EngineAudio
<1>7. /\ a.selected = t2.audio.selected /\ a.lists = t2.audio.lists /\ a.volume = p.volume
      /\ a.started = t2.audio.started /\ a.uses = t2.audio.uses /\ a.live = t2.audio.live
  BY <1>4, <1>6 DEF AudioState, EngineAudio
<1>8. t = [t2 EXCEPT !.audio = a]
  BY <1>1, <1>6
<1>9. t \in AudioState /\ t.audio = a /\ t.panel = t2.panel /\ t.stored = t2.stored
  BY <1>4, <1>8 DEF AudioState
<1>10. \A kinds \in SUBSET Kind : Uses(t2, kinds) => Uses(t, kinds)
  BY <1>7, <1>9 DEF Uses, UsesOne
<1>11. QED
  BY <1>4, <1>5, <1>7, <1>9, <1>10 DEF p

\* The lists of the view model are the engine's, and unless something was selected
\* that is gone, what it has selected is of them: then a dispatch makes all agree.
LEMMA DispatchGood ==
  ASSUME NEW s \in AudioState, os \in Devices, NEW t, t = DispatchDevices(s),
         s.panel.lists = s.audio.lists, Stores(s),
         "stale" \notin audioEnv =>
            \A k \in Kind : s.panel.settings.selected[k] \in s.audio.lists[k] \cup {SystemDefault}
  PROVE  AudioGood(t) /\ \A kinds \in SUBSET Kind : Uses(s, kinds) => Uses(t, kinds)
<1>1. /\ t \in AudioState /\ t.panel = s.panel /\ t.stored = s.stored
      /\ t.audio.lists = s.audio.lists /\ t.audio.volume = s.panel.settings.volume
      /\ t.audio.selected = s.panel.settings.selected
      /\ \A kinds \in SUBSET Kind : Uses(s, kinds) => Uses(t, kinds)
  BY DispatchFacts
<1>2. Stores(t)
  BY <1>1 DEF Stores
<1>3. "stale" \notin audioEnv => Selects(t)
  BY <1>1 DEF Selects
<1>4. QED
  BY <1>1, <1>2, <1>3 DEF AudioGood

\* A setting changes and is stored.
LEMMA PersistFacts ==
  ASSUME NEW s \in AudioState, NEW q \in Settings(0..200, Mode, Hotkey),
         NEW u, u = [s EXCEPT !.panel.settings = q], NEW t, t = Persist(u)
  PROVE  /\ t \in AudioState /\ Stores(t) /\ t.audio = s.audio
         /\ t.panel.lists = s.panel.lists /\ t.panel.settings = q
<1>1. PICK v \in PanelState : v = [s.panel EXCEPT !.settings = q]
  BY DEF AudioState, PanelState
<1>2. v.lists = s.panel.lists /\ v.settings = q
  BY <1>1 DEF AudioState, PanelState
<1>3. u = [s EXCEPT !.panel = v]
  BY <1>1
<1>4. u \in AudioState /\ u.audio = s.audio /\ u.panel = v /\ u.stored = s.stored
  BY <1>3 DEF AudioState
<1>5. q \in Stored /\ Normal(q) = q
  BY NormalSettings
<1>6. t = [u EXCEPT !.stored = q]
  BY <1>2, <1>4 DEF Persist
<1>7. t \in AudioState /\ t.audio = u.audio /\ t.panel = u.panel /\ t.stored = q
  BY <1>4, <1>5, <1>6 DEF AudioState
<1>8. QED
  BY <1>2, <1>4, <1>5, <1>7 DEF Stores

\* The application starts with the settings file f.
LEMMA SetupFacts ==
  ASSUME os \in Devices, NEW f \in Stored, NEW t, t = Setup(f)
  PROVE  AudioGood(t) /\ Uses(t, Kind)
<1> DEFINE a == [lists |-> [k \in Kind |-> os[k].there], selected |-> [k \in Kind |-> SystemDefault],
                 volume |-> 100, started |-> FALSE, live |-> {}, uses |-> [k \in Kind |-> NoDevice]]
           v == [lists |-> [k \in Kind |-> os[k].there], settings |-> Normal(f)]
           s == [audio |-> a, panel |-> v, stored |-> f]
<1>1. PICK r, u : r = Refresh(s) /\ u = Recompute(r)
  OBVIOUS
<1>2. t = DispatchDevices(u)
  BY <1>1 DEF Setup
<1>3. [k \in Kind |-> os[k].there] \in [Kind -> SUBSET Device]
  BY DEF Devices
<1>4. Normal(f) \in Settings(0..200, Mode, Hotkey)
  BY NormalSettings
<1>5. a \in EngineAudio
  BY <1>3 DEF EngineAudio, Id
<1>6. /\ v \in PanelState /\ v.lists = a.lists /\ v.settings = Normal(f) /\ a.started = FALSE
      /\ a.live = {} /\ \A k \in Kind : a.uses[k] = NoDevice
  BY <1>3, <1>4 DEF PanelState
<1> HIDE DEF a, v
<1>7. s \in AudioState /\ s.audio = a /\ s.panel = v /\ s.stored = f
  BY <1>5, <1>6 DEF AudioState
<1> HIDE DEF s
<1>8. Stores(s) /\ s.panel.lists = s.audio.lists /\ Uses(s, Kind)
  BY <1>6, <1>7 DEF Stores, Uses
<1>9. /\ r \in AudioState /\ Stores(r) /\ r.panel.lists = r.audio.lists /\ Uses(r, Kind)
  BY <1>1, <1>7, <1>8, DevicesRefreshed
<1>10. /\ u \in AudioState /\ u.audio = r.audio /\ u.panel.lists = r.audio.lists /\ Stores(u)
       /\ \A k \in Kind : u.panel.settings.selected[k] =
                             Kept(r.panel.settings.selected[k], r.audio.lists[k])
  BY <1>1, <1>9, RecomputeFacts
<1>11. \A k \in Kind : u.panel.settings.selected[k] \in u.audio.lists[k] \cup {SystemDefault}
  <2>1. r.panel.settings.selected \in [Kind -> Id]
    BY <1>9, AudioFields
  <2>2. QED
    BY <1>10, <2>1, KeptFacts
<1>12. Uses(u, Kind)
  BY <1>9, <1>10 DEF Uses
<1>13. QED
  BY <1>2, <1>10, <1>11, <1>12, DispatchGood

-----------------------------------------------------------------------------
\* The invariant of what a call has made of the state.
LEMMA BecomesGood ==
  ASSUME UNCHANGED <<audioEnv, os>>, AudioInv, signals' \subseteq Kind,
         NEW s, AudioGood(s), Uses(s, Kind \ signals'), Becomes3(s)
  PROVE  AudioInv'
<1>1. s = [audio |-> s.audio, panel |-> s.panel, stored |-> s.stored]
  BY DEF AudioGood, AudioState
<1>2. Now' = s
  BY <1>1 DEF Becomes3, Now
<1>3. AudioGood(Now)' /\ Uses(Now, Kind \ signals)'
  <2>1. AudioGood(s)' /\ Uses(s, Kind \ signals)'
    BY DEF AudioGood, Selects, Stores, Uses, UsesOne
  <2>2. QED
    BY <1>2, <2>1
<1>4. os' \in Devices'
  BY DEF AudioInv, Devices, Opens
<1>5. QED
  BY <1>3, <1>4 DEF AudioInv

\* The state of a good invariant is a good state, and so is what it consists of.
LEMMA NowFacts ==
  ASSUME AudioInv, NEW n, n = Now
  PROVE  /\ n \in AudioState /\ Stores(n) /\ n.panel.lists = n.audio.lists /\ AudioGood(n)
         /\ n.audio.volume = n.panel.settings.volume /\ Uses(n, Kind \ signals)
         /\ n.audio = audio /\ n.panel = panel /\ n.stored = stored
         /\ os \in Devices /\ signals \subseteq Kind /\ ("stale" \notin audioEnv => Selects(n))
BY DEF AudioInv, AudioGood, Now

\* What Resolve looks at.
LEMMA ResolvedAlike ==
  ASSUME NEW id, NEW o, NEW q, q.there = o.there, q.default = o.default
  PROVE  Resolve(id, q) = Resolve(id, o)
BY DEF Resolve

\* Devices can be opened or not.
LEMMA OpeningKeeps ==
  ASSUME AudioInv, NEW k \in Kind, OpeningChanges(k)
  PROVE  AudioInv'
<1>1. /\ "fail" \in audioEnv /\ os' = [os EXCEPT ![k].opens = ~@]
      /\ signals' = signals /\ Now' = Now /\ audioEnv' = audioEnv
  BY DEF OpeningChanges, Now
<1>2. PICK o \in BOOLEAN : o = ~os[k].opens
  BY DEF AudioInv, Devices, Opens
<1>3. os' = [os EXCEPT ![k] = [os[k] EXCEPT !.opens = o]]
  BY <1>1, <1>2 DEF AudioInv, Devices
<1>4. /\ os' \in Devices'
      /\ \A j \in Kind : os'[j].there = os[j].there /\ os'[j].default = os[j].default
  BY <1>1, <1>3 DEF AudioInv, Devices, Opens
<1>5. PICK n : n = Now
  OBVIOUS
<1>6. AudioGood(n) /\ Uses(n, Kind \ signals)
  BY <1>5, NowFacts
<1>7. AudioGood(n)'
  BY <1>1, <1>6 DEF AudioGood, Selects, Stores
<1>8. \A j \in Kind : Resolve(n.audio.selected[j], os'[j]) = Resolve(n.audio.selected[j], os[j])
  BY <1>4, ResolvedAlike
<1>9. Uses(n, Kind \ signals)'
  BY <1>1, <1>6, <1>8 DEF Uses, UsesOne
<1>10. QED
  BY <1>1, <1>4, <1>5, <1>7, <1>9 DEF AudioInv

\* Devices come and go, and the engine is told.
LEMMA DevicesKeep ==
  ASSUME AudioInv, NEW k \in Kind, DevicesChange(k) \/ DevicesChanged(k)
  PROVE  AudioInv'
<1>1. CASE DevicesChange(k)
  <2>1. os' \in Devices' /\ \A j \in Kind \ {k} : os'[j] = os[j]
    <3>1. PICK there \in SUBSET Device, default \in Device \cup {NoDevice} :
             os' = [os EXCEPT ![k].there = there, ![k].default = default]
      BY <1>1 DEF DevicesChange
    <3>2. PICK o : o = [os[k] EXCEPT !.there = there, !.default = default]
      OBVIOUS
    <3>3. os' = [os EXCEPT ![k] = o]
      BY <3>1, <3>2 DEF AudioInv, Devices
    <3>4. o \in [there : SUBSET Device, default : Device \cup {NoDevice}, opens : Opens]
      BY <3>2 DEF AudioInv, Devices
    <3>5. os' \in Devices /\ \A j \in Kind \ {k} : os'[j] = os[j]
      BY <3>3, <3>4 DEF AudioInv, Devices
    <3>6. audioEnv' = audioEnv
      BY <1>1 DEF DevicesChange
    <3>7. QED
      BY <3>5, <3>6 DEF Devices, Opens
  <2>2. signals' = signals \cup {k} /\ Now' = Now /\ audioEnv' = audioEnv
    BY <1>1 DEF DevicesChange, Now
  <2>3. PICK n : n = Now
    OBVIOUS
  <2>4. AudioGood(n)' /\ Uses(n, Kind \ signals)'
    <3>1. AudioGood(n) /\ Uses(n, Kind \ signals)
      BY <2>3, NowFacts
    <3>2. AudioGood(n)'
      BY <2>2, <3>1 DEF AudioGood, Selects, Stores
    <3>3. Uses(n, Kind \ signals)'
      BY <2>1, <2>2, <3>1 DEF Uses, UsesOne
    <3>4. QED
      BY <3>2, <3>3
  <2>5. QED
    BY <2>1, <2>2, <2>3, <2>4 DEF AudioInv
<1>2. CASE DevicesChanged(k)
  <2>1. PICK n, r, t : n = Now /\ r = Refresh(n) /\ t = Reopen(r, {k})
    OBVIOUS
  <2>2. /\ r \in AudioState /\ Stores(r) /\ r.panel.lists = r.audio.lists
        /\ r.audio.volume = r.panel.settings.volume
        /\ "stale" \notin audioEnv => Selects(r)
        /\ Uses(r, Kind \ signals)
    <3>1. /\ n \in AudioState /\ Stores(n) /\ n.panel.lists = n.audio.lists
          /\ n.audio.volume = n.panel.settings.volume /\ Uses(n, Kind \ signals)
          /\ os \in Devices /\ ("stale" \notin audioEnv => Selects(n))
      BY <2>1, NowFacts
    <3>2. QED
      BY <2>1, <3>1, DevicesRefreshed
  <2>3. /\ t \in AudioState /\ t.panel = r.panel /\ t.stored = r.stored
        /\ t.audio.lists = r.audio.lists /\ t.audio.selected = r.audio.selected
        /\ t.audio.volume = r.audio.volume /\ t.audio.started = r.audio.started
        /\ t.audio.live = r.audio.live
        /\ r.audio.started => UsesOne(t.audio, k)
        /\ \A j \in Kind \ {k} : t.audio.uses[j] = r.audio.uses[j]
        /\ ~r.audio.started => t.audio = r.audio
    BY <2>1, <2>2, NowFacts, ReopenFacts
  <2>4. AudioGood(t)
    BY <2>2, <2>3 DEF AudioGood, Stores, Selects
  <2>5. Uses(t, (Kind \ signals) \cup {k})
    BY <2>2, <2>3 DEF Uses, UsesOne
  <2>6. /\ UNCHANGED <<audioEnv, os>> /\ Becomes3(t) /\ signals' = signals \ {k}
    BY <1>2, <2>1 DEF DevicesChanged
  <2>7. signals' \subseteq Kind /\ Uses(t, Kind \ signals')
    BY <2>1, <2>5, <2>6, NowFacts DEF Uses
  <2>8. QED
    BY <2>4, <2>6, <2>7, BecomesGood
<1>3. QED
  BY <1>1, <1>2

\* The lists are asked for.
LEMMA RequestKeeps ==
  ASSUME AudioInv, RequestDevices
  PROVE  AudioInv'
<1>1. PICK n, r, t : n = Now /\ r = Refresh(n) /\ t = Recompute(r)
  OBVIOUS
<1>2. /\ r \in AudioState /\ Stores(r) /\ r.panel.lists = r.audio.lists
      /\ r.audio.volume = r.panel.settings.volume
      /\ "stale" \notin audioEnv => Selects(r)
      /\ Uses(r, Kind \ signals)
  <2>1. /\ n \in AudioState /\ Stores(n) /\ n.panel.lists = n.audio.lists
        /\ n.audio.volume = n.panel.settings.volume /\ Uses(n, Kind \ signals)
        /\ os \in Devices /\ ("stale" \notin audioEnv => Selects(n))
    BY <1>1, NowFacts
  <2>2. QED
    BY <1>1, <2>1, DevicesRefreshed
<1>3. /\ t \in AudioState /\ t.audio = r.audio /\ t.panel.lists = r.audio.lists /\ Stores(t)
      /\ t.panel.settings.volume = r.panel.settings.volume
      /\ \A k \in Kind : t.panel.settings.selected[k] =
                            Kept(r.panel.settings.selected[k], r.audio.lists[k])
  BY <1>1, <1>2, RecomputeFacts
<1>4. ASSUME Selects(r)
      PROVE  Selects(t)
  <2>1. /\ r.audio.selected \in [Kind -> Id] /\ t.panel.settings.selected \in [Kind -> Id]
    BY <1>2, <1>3, AudioFields
  <2>2. \A k \in Kind : t.panel.settings.selected[k] = r.audio.selected[k]
    BY <1>3, <1>4, <2>1, KeptFacts DEF Selects
  <2>3. t.panel.settings.selected = r.audio.selected
    BY <2>1, <2>2
  <2>4. QED
    BY <1>3, <1>4, <2>3 DEF Selects
<1>5. AudioGood(t)
  BY <1>2, <1>3, <1>4 DEF AudioGood
<1>6. Uses(t, Kind \ signals)
  BY <1>2, <1>3 DEF Uses
<1>7. UNCHANGED <<audioEnv, os, signals>> /\ Becomes3(t)
  BY <1>1 DEF RequestDevices
<1>8. QED
  BY <1>1, <1>5, <1>6, <1>7, NowFacts, BecomesGood

\* A setting is changed, stored and dispatched, or only stored.
LEMMA SettingKeeps ==
  ASSUME AudioInv, UNCHANGED <<audioEnv, os, signals>>, NEW n, n = Now,
         NEW q \in Settings(0..200, Mode, Hotkey), NEW u, u = [n EXCEPT !.panel.settings = q],
         \/ /\ Becomes3(DispatchDevices(Persist(u)))
            /\ "stale" \notin audioEnv =>
                  \A k \in Kind : q.selected[k] \in n.panel.lists[k] \cup {SystemDefault}
         \/ /\ Becomes3(Persist(u))
            /\ q.selected = n.panel.settings.selected /\ q.volume = n.panel.settings.volume
  PROVE  AudioInv'
<1>1. PICK p, t : p = Persist(u) /\ t = DispatchDevices(p)
  OBVIOUS
<1>2. /\ p \in AudioState /\ Stores(p) /\ p.audio = n.audio
      /\ p.panel.lists = n.panel.lists /\ p.panel.settings = q
  BY <1>1, NowFacts, PersistFacts
<1>3. p.panel.lists = p.audio.lists /\ Uses(p, Kind \ signals)
  BY <1>2, NowFacts DEF Uses
<1>4. ASSUME Becomes3(t),
             "stale" \notin audioEnv =>
                \A k \in Kind : q.selected[k] \in n.panel.lists[k] \cup {SystemDefault}
      PROVE  AudioInv'
  <2>1. "stale" \notin audioEnv =>
           \A k \in Kind : p.panel.settings.selected[k] \in p.audio.lists[k] \cup {SystemDefault}
    BY <1>2, <1>3, <1>4
  <2>2. AudioGood(t) /\ Uses(t, Kind \ signals)
    BY <1>1, <1>2, <1>3, <2>1, NowFacts, DispatchGood
  <2>3. QED
    BY <1>4, <2>2, NowFacts, BecomesGood
<1>5. ASSUME Becomes3(p), q.selected = n.panel.settings.selected,
             q.volume = n.panel.settings.volume
      PROVE  AudioInv'
  <2>1. "stale" \notin audioEnv => Selects(p)
    BY <1>2, <1>5, NowFacts DEF Selects
  <2>2. AudioGood(p)
    BY <1>2, <1>3, <1>5, <2>1, NowFacts DEF AudioGood
  <2>3. QED
    BY <1>3, <1>5, <2>2, NowFacts, BecomesGood
<1>6. QED
  BY <1>1, <1>4, <1>5

\* The user selects a device or changes a setting.
LEMMA SettingsKeep ==
  ASSUME AudioInv,
         \/ \E k \in Kind, id \in Id : SelectDevice(k, id)
         \/ \E v \in Volume : SetMicrophoneVolume(v)
         \/ \E m \in Mode \cup {"other"} : SetMode(m)
         \/ \E h \in Hotkey \cup {"other"} : SetHotkey(h)
         \/ SetHotkeyEnabled
  PROVE  AudioInv'
<1>1. PICK n : n = Now
  OBVIOUS
<1>2. PICK p : p = n.panel.settings
  OBVIOUS
<1>3. /\ p \in Settings(0..200, Mode, Hotkey) /\ p.selected \in [Kind -> Id]
      /\ n.panel = panel
  BY <1>1, <1>2, NowFacts, AudioFields
<1>4. "stale" \notin audioEnv =>
         \A k \in Kind : p.selected[k] \in n.panel.lists[k] \cup {SystemDefault}
  BY <1>1, <1>2, NowFacts DEF Selects
<1>5. ASSUME NEW k \in Kind, NEW id \in Id, SelectDevice(k, id)
      PROVE  AudioInv'
  <2>1. PICK selected \in [Kind -> Id] : selected = [p.selected EXCEPT ![k] = id]
    BY <1>3
  <2>2. PICK q \in Settings(0..200, Mode, Hotkey) : q = [p EXCEPT !.selected = selected]
    BY <1>3 DEF Settings
  <2>3. q.selected = selected
    BY <1>3, <2>2 DEF Settings
  <2>4. PICK u : u = [n EXCEPT !.panel.settings = q]
    OBVIOUS
  <2>5. u = [Now EXCEPT !.panel.settings.selected[k] = id]
    BY <1>1, <1>2, <2>1, <2>2, <2>4
  <2>6. Becomes3(DispatchDevices(Persist(u))) /\ UNCHANGED <<audioEnv, os, signals>>
    BY <1>5, <2>5 DEF SelectDevice
  <2>7. "stale" \notin audioEnv =>
           \A j \in Kind : q.selected[j] \in n.panel.lists[j] \cup {SystemDefault}
    BY <1>3, <1>4, <1>5, <2>1, <2>3 DEF SelectDevice
  <2>8. QED
    BY <1>1, <2>4, <2>6, <2>7, SettingKeeps
<1>6. ASSUME NEW v \in Volume, SetMicrophoneVolume(v)
      PROVE  AudioInv'
  <2>1. PICK w \in 0..200 : w = NormalVolume(v)
    BY AudioAssumption DEF NormalVolume
  <2>2. PICK q \in Settings(0..200, Mode, Hotkey) : q = [p EXCEPT !.volume = w]
    BY <1>3 DEF Settings
  <2>3. q.selected = p.selected
    BY <1>3, <2>2 DEF Settings
  <2>4. PICK u : u = [n EXCEPT !.panel.settings = q]
    OBVIOUS
  <2>5. u = [Now EXCEPT !.panel.settings.volume = w]
    BY <1>1, <1>2, <2>2, <2>4
  <2>6. Becomes3(DispatchDevices(Persist(u))) /\ UNCHANGED <<audioEnv, os, signals>>
    BY <1>6, <2>1, <2>5 DEF SetMicrophoneVolume
  <2>7. QED
    BY <1>1, <1>4, <2>3, <2>4, <2>6, SettingKeeps
<1>7. ASSUME NEW m \in Mode \cup {"other"}, SetMode(m)
      PROVE  AudioInv'
  <2>1. PICK w \in Mode : w = NormalMode(m)
    BY DEF NormalMode, Mode
  <2>2. PICK q \in Settings(0..200, Mode, Hotkey) : q = [p EXCEPT !.mode = w]
    BY <1>3 DEF Settings
  <2>3. q.selected = p.selected
    BY <1>3, <2>2 DEF Settings
  <2>4. PICK u : u = [n EXCEPT !.panel.settings = q]
    OBVIOUS
  <2>5. u = [Now EXCEPT !.panel.settings.mode = w]
    BY <1>1, <1>2, <2>2, <2>4
  <2>6. Becomes3(DispatchDevices(Persist(u))) /\ UNCHANGED <<audioEnv, os, signals>>
    BY <1>7, <2>1, <2>5 DEF SetMode
  <2>7. QED
    BY <1>1, <1>4, <2>3, <2>4, <2>6, SettingKeeps
<1>8. ASSUME NEW h \in Hotkey \cup {"other"}, SetHotkey(h)
      PROVE  AudioInv'
  <2>1. PICK w \in Hotkey : w = NormalHotkey(h)
    BY DEF NormalHotkey, Hotkey
  <2>2. PICK q \in Settings(0..200, Mode, Hotkey) : q = [p EXCEPT !.hotkey = w]
    BY <1>3 DEF Settings
  <2>3. q.selected = p.selected /\ q.volume = p.volume
    BY <1>3, <2>2 DEF Settings
  <2>4. PICK u : u = [n EXCEPT !.panel.settings = q]
    OBVIOUS
  <2>5. u = [Now EXCEPT !.panel.settings.hotkey = w]
    BY <1>1, <1>2, <2>2, <2>4
  <2>6. Becomes3(Persist(u)) /\ UNCHANGED <<audioEnv, os, signals>>
    BY <1>8, <2>1, <2>5 DEF SetHotkey
  <2>7. QED
    BY <1>1, <1>2, <2>3, <2>4, <2>6, SettingKeeps
<1>9. ASSUME SetHotkeyEnabled
      PROVE  AudioInv'
  <2>1. PICK q \in Settings(0..200, Mode, Hotkey) : q = [p EXCEPT !.enabled = ~@]
    BY <1>3 DEF Settings
  <2>2. q.selected = p.selected /\ q.volume = p.volume
    BY <1>3, <2>1 DEF Settings
  <2>3. PICK u : u = [n EXCEPT !.panel.settings = q]
    OBVIOUS
  <2>4. u = [Now EXCEPT !.panel.settings.enabled = ~@]
    BY <1>1, <1>2, <2>1, <2>3
  <2>5. Becomes3(Persist(u)) /\ UNCHANGED <<audioEnv, os, signals>>
    BY <1>9, <2>4 DEF SetHotkeyEnabled
  <2>6. QED
    BY <1>1, <1>2, <2>2, <2>3, <2>5, SettingKeeps
<1>10. QED
  BY <1>5, <1>6, <1>7, <1>8, <1>9

\* The engine's part of the state is replaced, except for what is selected.
LEMMA EngineReplaced ==
  ASSUME AudioInv, NEW a \in EngineAudio, NEW t, t = [Now EXCEPT !.audio = a],
         a.lists = audio.lists, a.selected = audio.selected, a.volume = audio.volume
  PROVE  AudioGood(t) /\ t.audio = a /\ t.panel = panel /\ t.stored = stored
<1>1. PICK n : n = Now
  OBVIOUS
<1>2. t \in AudioState /\ t.audio = a /\ t.panel = panel /\ t.stored = stored
  BY <1>1, NowFacts DEF AudioState
<1>3. QED
  BY <1>1, <1>2, NowFacts DEF AudioGood, Stores, Selects

\* Voice starts and ends.
LEMMA VoiceKeeps ==
  ASSUME AudioInv, StartVoice \/ StopVoice
  PROVE  AudioInv'
<1>1. PICK n : n = Now
  OBVIOUS
<1>2. CASE StartVoice
  <2>1. PICK d, t : d = DispatchDevices(n) /\ t = [d EXCEPT !.audio.started = TRUE]
    OBVIOUS
  <2>2. d \in AudioState /\ AudioGood(d) /\ Uses(d, Kind \ signals) /\ d.audio.started = FALSE
    <3>1. "stale" \notin audioEnv =>
             \A k \in Kind : n.panel.settings.selected[k] \in n.audio.lists[k] \cup {SystemDefault}
      BY <1>1, NowFacts DEF Selects
    <3>2. AudioGood(d) /\ Uses(d, Kind \ signals)
      BY <1>1, <2>1, <3>1, NowFacts, DispatchGood
    <3>3. d.audio.started = n.audio.started
      BY <1>1, <2>1, NowFacts, DispatchFacts
    <3>4. n.audio.started = FALSE
      BY <1>1, <1>2, NowFacts, AudioFields DEF StartVoice
    <3>5. QED
      BY <3>2, <3>3, <3>4 DEF AudioGood
  <2>3. PICK a \in EngineAudio : a = [d.audio EXCEPT !.started = TRUE]
    BY <2>2 DEF AudioState, EngineAudio
  <2>4. /\ a.lists = d.audio.lists /\ a.selected = d.audio.selected /\ a.volume = d.audio.volume
        /\ a.live = d.audio.live /\ a.uses = d.audio.uses
    BY <2>2, <2>3 DEF AudioState, EngineAudio
  <2>5. t = [d EXCEPT !.audio = a]
    BY <2>1, <2>3
  <2>6. t \in AudioState /\ t.audio = a /\ t.panel = d.panel /\ t.stored = d.stored
    BY <2>2, <2>5 DEF AudioState
  <2>7. AudioGood(t)
    BY <2>2, <2>4, <2>6 DEF AudioGood, Stores, Selects
  <2>8. \A k \in Kind : a.uses[k] = NoDevice /\ k \notin a.live
    BY <2>2, <2>4 DEF Uses
  <2>9. a.started = TRUE
    BY <2>2, <2>3 DEF AudioState, EngineAudio
  <2>10. Uses(t, Kind \ signals)
    BY <2>6, <2>8, <2>9 DEF Uses, UsesOne
  <2>11. UNCHANGED <<audioEnv, os, signals>> /\ Becomes3(t)
    BY <1>1, <1>2, <2>1 DEF StartVoice
  <2>12. QED
    BY <1>1, <2>7, <2>10, <2>11, NowFacts, BecomesGood
<1>3. CASE StopVoice
  <2>0. audio \in EngineAudio
    BY <1>1, NowFacts DEF AudioState
  <2>9. PICK uses \in [Kind -> Device \cup {NoDevice}] : uses = [k \in Kind |-> NoDevice]
    OBVIOUS
  <2>10. PICK a \in EngineAudio : a = [audio EXCEPT !.started = FALSE, !.live = {}, !.uses = uses]
    BY <2>0 DEF EngineAudio
  <2>1. a = [audio EXCEPT !.started = FALSE, !.live = {}, !.uses = [k \in Kind |-> NoDevice]]
    BY <2>9, <2>10
  <2>2. /\ a.lists = audio.lists /\ a.selected = audio.selected /\ a.volume = audio.volume
        /\ a.started = FALSE /\ a.live = {} /\ a.uses = uses
    BY <2>0, <2>10 DEF EngineAudio
  <2>3. PICK t : t = [Now EXCEPT !.audio = a]
    OBVIOUS
  <2>4. AudioGood(t) /\ t.audio = a /\ t.panel = panel /\ t.stored = stored
    BY <2>2, <2>3, EngineReplaced
  <2>6. Uses(t, Kind \ signals)
    BY <2>2, <2>4, <2>9 DEF Uses
  <2>7. UNCHANGED <<audioEnv, os, signals>> /\ Becomes3(t)
    BY <1>3, <2>1, <2>4 DEF StopVoice, Becomes3
  <2>8. QED
    BY <1>1, <2>4, <2>6, <2>7, NowFacts, BecomesGood
<1>4. QED
  BY <1>2, <1>3

\* There is something to open a device for, or no longer.
LEMMA LiveKeeps ==
  ASSUME AudioInv, NEW k \in Kind, GoLive(k) \/ GoQuiet(k)
  PROVE  AudioInv'
<1>1. PICK n : n = Now
  OBVIOUS
<1>2. /\ audio \in EngineAudio /\ os \in Devices /\ Uses(n, Kind \ signals) /\ n.audio = audio
      /\ signals \subseteq Kind
  BY <1>1, NowFacts DEF AudioState
<1>3. /\ audio.uses \in [Kind -> Device \cup {NoDevice}] /\ audio.live \in SUBSET Kind
      /\ audio.started \in BOOLEAN
  BY <1>2 DEF EngineAudio
<1>4. audio.started = TRUE
  <2>1. GoLive(k) => audio.started
    BY DEF GoLive
  <2>2. GoQuiet(k) => k \in audio.live
    BY DEF GoQuiet
  <2>3. ~audio.started => audio.live = {}
    BY <1>2 DEF Uses
  <2>4. QED
    BY <1>3, <2>1, <2>2, <2>3
<1>5. \A j \in Kind \ signals : UsesOne(audio, j)
  BY <1>2, <1>4 DEF Uses
<1>6. ASSUME NEW live \in SUBSET Kind, NEW d \in Device \cup {NoDevice},
             audio' = [audio EXCEPT !.live = live, !.uses[k] = d],
             \A j \in Kind \ {k} : j \in live => j \in audio.live,
             k \notin signals =>
                \/ d = Resolve(audio.selected[k], os[k])
                \/ d = NoDevice /\ (k \notin live \/ "fail" \in audioEnv),
             UNCHANGED <<audioEnv, os, signals, panel, stored>>
      PROVE  AudioInv'
  <2>1. PICK uses \in [Kind -> Device \cup {NoDevice}] : uses = [audio.uses EXCEPT ![k] = d]
    BY <1>3
  <2>2. PICK a \in EngineAudio : a = [audio EXCEPT !.live = live, !.uses = uses]
    BY <1>2 DEF EngineAudio
  <2>3. audio' = a
    BY <1>2, <1>6, <2>1, <2>2 DEF EngineAudio
  <2>4. /\ a.lists = audio.lists /\ a.selected = audio.selected /\ a.volume = audio.volume
        /\ a.started = TRUE /\ a.live = live /\ a.uses = uses
    BY <1>2, <1>4, <2>2 DEF EngineAudio
  <2>5. PICK t : t = [Now EXCEPT !.audio = a]
    OBVIOUS
  <2>6. AudioGood(t) /\ t.audio = a /\ t.panel = panel /\ t.stored = stored
    BY <2>4, <2>5, EngineReplaced
  <2>7. ASSUME NEW j \in Kind \ signals
        PROVE  UsesOne(a, j)
    <3>1. CASE j = k
      BY <1>3, <1>6, <2>1, <2>4, <2>7, <3>1 DEF UsesOne
    <3>2. CASE j # k
      <4>1. uses[j] = audio.uses[j]
        BY <1>3, <2>1, <2>7, <3>2
      <4>2. QED
        BY <1>5, <1>6, <2>4, <2>7, <3>2, <4>1 DEF UsesOne
    <3>3. QED
      BY <3>1, <3>2
  <2>8. Uses(t, Kind \ signals')
    BY <1>6, <2>4, <2>6, <2>7 DEF Uses
  <2>9. Becomes3(t) /\ signals' \subseteq Kind /\ UNCHANGED <<audioEnv, os>>
    BY <1>2, <1>6, <2>3, <2>6 DEF Becomes3
  <2>10. QED
    BY <2>6, <2>8, <2>9, BecomesGood
<1>7. CASE GoLive(k)
  <2>1. PICK d \in IF os[k].opens THEN {Resolve(audio.selected[k], os[k])}
                   ELSE {NoDevice, audio.uses[k]} :
           audio' = [audio EXCEPT !.live = @ \cup {k}, !.uses[k] = d]
    BY <1>7 DEF GoLive
  <2>2. k \notin audio.live /\ UNCHANGED <<audioEnv, os, signals, panel, stored>>
    BY <1>7 DEF GoLive
  <2>3. /\ Resolve(audio.selected[k], os[k]) \in Device \cup {NoDevice}
        /\ os[k].opens \/ "fail" \in audioEnv
    BY <1>2 DEF Resolve, Devices, Opens
  <2>4. d \in Device \cup {NoDevice}
    BY <1>3, <2>1, <2>3
  <2>5. PICK live \in SUBSET Kind : live = audio.live \cup {k}
    BY <1>3
  <2>6. audio' = [audio EXCEPT !.live = live, !.uses[k] = d]
    BY <2>1, <2>5
  <2>7. \A j \in Kind \ {k} : j \in live => j \in audio.live
    BY <2>5
  <2>8. k \notin signals =>
           \/ d = Resolve(audio.selected[k], os[k])
           \/ d = NoDevice /\ (k \notin live \/ "fail" \in audioEnv)
    BY <1>5, <2>1, <2>3 DEF UsesOne
  <2>9. QED
    BY <1>6, <2>2, <2>4, <2>6, <2>7, <2>8
<1>8. CASE GoQuiet(k)
  <2>1. PICK live \in SUBSET Kind : live = audio.live \ {k}
    BY <1>3
  <2>2. PICK d \in Device \cup {NoDevice} : d = IF k = "input" THEN audio.uses[k] ELSE NoDevice
    BY <1>3
  <2>3. /\ audio' = [audio EXCEPT !.live = live, !.uses[k] = d]
        /\ UNCHANGED <<audioEnv, os, signals, panel, stored>>
    BY <1>2, <1>8, <2>1, <2>2 DEF GoQuiet, EngineAudio
  <2>4. \A j \in Kind \ {k} : j \in live => j \in audio.live
    BY <2>1
  <2>5. k \notin signals =>
           \/ d = Resolve(audio.selected[k], os[k])
           \/ d = NoDevice /\ (k \notin live \/ "fail" \in audioEnv)
    BY <1>5, <2>1, <2>2 DEF UsesOne
  <2>6. QED
    BY <1>6, <2>3, <2>4, <2>5
<1>9. QED
  BY <1>7, <1>8

\* The application starts with a settings file that nobody has touched, or any.
LEMMA InitAudio == AudioInit => AudioInv
<1> SUFFICES ASSUME AudioInit PROVE AudioInv
  OBVIOUS
<1>1. os \in Devices /\ signals \subseteq Kind /\ audioEnv \in AudioScenarios
  BY DEF AudioInit, Devices, Opens
<1>2. PICK f : /\ \/ f \in [selected : [Kind -> Id], volume : Volume, mode : {"PUSH_TO_TALK", "other"},
                            hotkey : {"SPACE", "other"}, enabled : {FALSE}]
                  \/ f = FreshSettings
               /\ audio = Setup(f).audio /\ panel = Setup(f).panel /\ stored = Setup(f).stored
  BY DEF AudioInit
<1>3. f \in Stored
  <2>1. FreshSettings \in Stored
    BY DEF FreshSettings, Stored, Settings, Id, Mode, Hotkey
  <2>2. f # FreshSettings => f \in Stored
    BY <1>2 DEF Stored, Settings, Mode, Hotkey
  <2>3. QED
    BY <2>1, <2>2
<1>4. PICK t : t = Setup(f)
  OBVIOUS
<1>5. AudioGood(t) /\ Uses(t, Kind)
  BY <1>1, <1>3, <1>4, SetupFacts
<1>6. t = [audio |-> t.audio, panel |-> t.panel, stored |-> t.stored]
  BY <1>5 DEF AudioGood, AudioState
<1>7. Now = t
  BY <1>2, <1>4, <1>6 DEF Now
<1>8. Uses(Now, Kind \ signals)
  BY <1>5, <1>7 DEF Uses
<1>9. QED
  BY <1>1, <1>5, <1>7, <1>8 DEF AudioInv

\* Every step keeps the invariant.
LEMMA AudioStep == AudioInv /\ [AudioNext]_audioVars => AudioInv'
<1> SUFFICES ASSUME AudioInv, [AudioNext]_audioVars PROVE AudioInv'
  OBVIOUS
<1>1. ASSUME Restart
      PROVE  AudioInv'
  <2>1. PICK n, t : n = Now /\ t = Setup(stored)
    OBVIOUS
  <2>2. stored \in Stored /\ os \in Devices
    BY <2>1, NowFacts, AudioFields
  <2>3. AudioGood(t) /\ Uses(t, Kind)
    BY <2>1, <2>2, SetupFacts
  <2>4. UNCHANGED <<audioEnv, os>> /\ signals' = {} /\ Becomes3(t)
    BY <1>1, <2>1 DEF Restart
  <2>5. signals' \subseteq Kind /\ Uses(t, Kind \ signals')
    BY <2>3, <2>4 DEF Uses
  <2>6. QED
    BY <2>3, <2>4, <2>5, BecomesGood
<1>2. ASSUME UNCHANGED audioVars
      PROVE  AudioInv'
  BY <1>2 DEF AudioInv, audioVars, AudioGood, Selects, Stores, Uses, UsesOne, Now, Devices, Opens
<1>3. QED
  BY <1>1, <1>2, OpeningKeeps, DevicesKeep, LiveKeeps, RequestKeeps, SettingsKeep, VoiceKeeps
     DEF AudioNext

\* The invariant, of every behaviour.
THEOREM AudioInvariant == AudioSpec => []AudioInv
  BY InitAudio, AudioStep, PTL DEF AudioSpec

\* The engine, the view model and the settings file agree on devices and settings,
\* and voice uses the devices that are selected, or none, and never another one,
\* whatever is plugged in, unplugged, set or found in the file.
THEOREM AudioIsSound == AudioSpec => []AudioSound
<1>1. ASSUME AudioInv
      PROVE  AudioSound
  <2>1. PICK n : n = Now
    OBVIOUS
  <2>2. SelectionAgrees /\ SettingsStored
    BY <1>1, <2>1, NowFacts DEF SelectionAgrees, SettingsStored, Selects, Stores
  <2>3. UsesSelected
    <3>1. audio \in EngineAudio /\ Uses(n, Kind \ signals) /\ n.audio = audio
      BY <1>1, <2>1, NowFacts DEF AudioState
    <3>2. CASE audio.started
      BY <3>1, <3>2 DEF UsesSelected, Uses, UsesOne
    <3>3. CASE ~audio.started
      BY <3>1, <3>3 DEF UsesSelected, Uses
    <3>4. QED
      BY <3>2, <3>3
  <2>4. QED
    BY <2>2, <2>3 DEF AudioSound
<1>2. QED
  BY <1>1, AudioInvariant, PTL

\* The settings have their types.
LEMMA AudioTypes == AudioInv => AudioTypeOK
<1> SUFFICES ASSUME AudioInv PROVE AudioTypeOK
  OBVIOUS
<1>1. PICK n : n = Now
  OBVIOUS
<1>2. QED
  <2>1. audio \in EngineAudio /\ panel \in PanelState /\ stored \in Stored
    BY <1>1, NowFacts DEF AudioState
  <2>2. panel.lists \in [Kind -> SUBSET Device] /\ panel.settings \in Settings(0..200, Mode, Hotkey)
    BY <2>1 DEF PanelState
  <2>3. os \in Devices /\ signals \subseteq Kind /\ audioEnv \in AudioScenarios
    BY DEF AudioInv
  <2>4. QED
    BY <2>1, <2>2, <2>3 DEF AudioTypeOK, EngineAudio, Devices, Stored

-----------------------------------------------------------------------------
(* The microphone.                                                         *)

\* Values of samples, frames that are sent, and the microphone.
Value == MinSample..MaxSample
FrameSent == Seq(Sample \X Value)
MicState == [open : BOOLEAN, transmit : BOOLEAN, gain : 0..(3 * GainUnit), buffer : Seq(Sample)]

\* The last sample that has been read, and the last one that is not in the buffer.
LastRead == spoken - Len(waiting)
LastCut == LastRead - Len(mic.buffer)

\* A frame: samples that follow each other, and gained without a change of sign.
FrameWhole(f) ==
    /\ f \in FrameSent /\ Len(f) = FrameSize
    /\ \A j \in 2..FrameSize : f[j][1] = f[j - 1][1] + 1
    /\ \A j \in 1..FrameSize :
          (Level(f[j][1]) > 0 => f[j][2] >= 0) /\ (Level(f[j][1]) < 0 => f[j][2] <= 0)

\* The frames that were sent are whole, and their last samples were heard.
SentSound ==
    \A k \in 1..Len(sent) :
        /\ FrameWhole(sent[k])
        /\ sent[k][FrameSize][1] <= LastRead /\ sent[k][FrameSize][1] \notin unheard

\* The samples in the buffer and in the device follow each other up to the last one
\* spoken; of those in the buffer less than a frame was read in silence.
BufferSound ==
    /\ \A i \in 1..Len(waiting) : waiting[i] = LastRead + i
    /\ \A i \in 1..Len(mic.buffer) : mic.buffer[i] = LastCut + i
    /\ LastCut >= 0
    /\ ~mic.open => waiting = <<>> /\ mic.buffer = <<>>
    /\ unheard \subseteq 1..LastRead
    /\ \A i \in 1..Len(mic.buffer) : i >= FrameSize => mic.buffer[i] \notin unheard

\* What is in the buffer comes after what was sent.
SentBefore ==
    "fail" \notin captureEnv =>
        /\ Len(mic.buffer) < FrameSize
        /\ \A k \in 1..Len(sent) : sent[k][FrameSize][1] <= LastCut
        /\ \A k \in 2..Len(sent) : sent[k - 1][FrameSize][1] < sent[k][1][1]

CaptureInv == CaptureTypeOK /\ BufferSound /\ SentSound /\ SentBefore

-----------------------------------------------------------------------------
\* Division by the size of a frame.
LEMMA DivFacts ==
  ASSUME NEW n \in Nat, NEW d \in Nat \ {0}
  PROVE  /\ n \div d \in Nat
         /\ (n \div d) * d <= n /\ n < (n \div d) * d + d
BY Z3

\* Where the frames of a sequence begin.
Start(i) == (i - 1) * FrameSize

LEMMA StartFacts ==
  ASSUME NEW i \in Nat \ {0}, NEW k \in Nat, i <= k
  PROVE  /\ Start(i) \in Nat /\ Start(i) + FrameSize = i * FrameSize
         /\ i * FrameSize <= k * FrameSize /\ k * FrameSize \in Nat
         /\ i < k => Start(i) + FrameSize <= Start(k)
<1>1. PICK f \in Nat : f = FrameSize
  BY CaptureAssumption
<1>2. ASSUME NEW a \in Nat, NEW c \in Nat, a <= c
      PROVE  a * f \in Nat /\ a * f <= c * f /\ c * f \in Nat
  <2>1. PICK d \in Nat : c = a + d
    BY <1>2
  <2>2. d * f \in Nat /\ a * f \in Nat /\ c * f = a * f + d * f
    BY <2>1, Z3
  <2>3. QED
    BY <2>2
<1>3. (i - 1) * f + f = i * f
  BY Z3
<1>4. i - 1 \in Nat /\ i - 1 <= i
  OBVIOUS
<1>5. i < k => i <= k - 1 /\ k - 1 \in Nat
  OBVIOUS
<1>6. QED
  BY <1>1, <1>2, <1>3, <1>4, <1>5 DEF Start

\* Samples that follow each other are cut into frames and a rest that do.
LEMMA CutFacts ==
  ASSUME NEW s \in Seq(Sample), NEW b \in Int, \A p \in 1..Len(s) : s[p] = b + p
  PROVE  /\ Frames(s) \in Nat
         /\ \A i \in 1..Frames(s) :
               /\ Start(i) \in Nat /\ Start(i) + FrameSize <= Len(s) - Len(Rest(s))
               /\ \A j \in 1..FrameSize : Frame(s, i)[j] = b + Start(i) + j
         /\ Rest(s) \in Seq(Sample) /\ Len(Rest(s)) < FrameSize /\ Len(Rest(s)) <= Len(s)
         /\ \A j \in 1..Len(Rest(s)) : Rest(s)[j] = b + Len(s) - Len(Rest(s)) + j
<1>1. PICK q \in Nat, m \in Nat : /\ q = Frames(s) /\ m = q * FrameSize
                                  /\ m <= Len(s) /\ Len(s) < m + FrameSize
  <2>1. PICK q : q = Len(s) \div FrameSize
    OBVIOUS
  <2>2. Len(s) \in Nat /\ FrameSize \in Nat \ {0}
    BY CaptureAssumption
  <2>3. q \in Nat /\ q * FrameSize <= Len(s) /\ Len(s) < q * FrameSize + FrameSize
    BY <2>1, <2>2, DivFacts
  <2>4. q * FrameSize \in Nat
    BY <2>2, <2>3
  <2>5. QED
    BY <2>1, <2>3, <2>4 DEF Frames
<1>0. /\ m <= Len(s) /\ Len(s) < m + FrameSize
      /\ Len(s) \in Nat /\ FrameSize \in Nat \ {0}
  BY <1>1, CaptureAssumption
<1>2. PICK r : r = Rest(s)
  OBVIOUS
<1>3. r = SubSeq(s, m + 1, Len(s))
  BY <1>1, <1>2 DEF Rest
<1>4. /\ r \in Seq(Sample) /\ Len(r) = Len(s) - m
      /\ \A j \in 1..(Len(s) - m) : r[j] = s[m + 1 + j - 1]
  <2>1. m + 1 \in 1..(Len(s) + 1) /\ Len(s) \in 0..Len(s)
    BY <1>1
  <2>2. CASE m = Len(s)
    BY <1>3, <2>2, SubSeqProperties
  <2>3. CASE m < Len(s)
    BY <1>0, <1>3, <2>3, SubSeqProperties
  <2>4. QED
    BY <1>0, <2>2, <2>3
<1>5. ASSUME NEW j \in 1..Len(r)
      PROVE  r[j] = b + m + j
  <2>1. j \in 1..(Len(s) - m)
    BY <1>0, <1>4
  <2>2. m + 1 + j - 1 = m + j /\ m + j \in 1..Len(s)
    BY <1>0, <2>1
  <2>3. QED
    BY <1>4, <2>1, <2>2
<1>6. ASSUME NEW i \in 1..q
      PROVE  /\ Start(i) \in Nat /\ Start(i) + FrameSize <= m
             /\ \A j \in 1..FrameSize : Frame(s, i)[j] = b + Start(i) + j
  <2>1. PICK a \in Nat : /\ a = Start(i) /\ a + FrameSize = i * FrameSize
                         /\ a + FrameSize <= m
    <3>1. i \in Nat \ {0} /\ q \in Nat /\ i <= q
      BY <1>1, <1>6
    <3>2. Start(i) \in Nat /\ Start(i) + FrameSize = i * FrameSize /\ i * FrameSize <= q * FrameSize
      BY <3>1, StartFacts
    <3>3. QED
      BY <1>1, <3>2
  <2>0. a + FrameSize <= Len(s)
    BY <1>0, <2>1
  <2>2. Frame(s, i) = SubSeq(s, a + 1, a + FrameSize)
    BY <2>1 DEF Frame, Start
  <2>3. \A j \in 1..FrameSize : Frame(s, i)[j] = s[a + 1 + j - 1]
    <3>1. \A p \in (a + 1)..(a + FrameSize) : s[p] \in Sample
      BY <1>0, <2>0
    <3>2. a + FrameSize - (a + 1) + 1 = FrameSize
      BY <1>0
    <3>3. QED
      BY <1>0, <2>2, <3>1, <3>2, SubSeqProperties
  <2>4. \A j \in 1..FrameSize : Frame(s, i)[j] = b + a + j
    <3>1. SUFFICES ASSUME NEW j \in 1..FrameSize PROVE Frame(s, i)[j] = b + a + j
      OBVIOUS
    <3>3. a + j \in 1..Len(s) /\ a + 1 + j - 1 = a + j
      BY <1>0, <2>0
    <3>4. QED
      BY <2>3, <3>3
  <2>5. QED
    BY <2>1, <2>4
<1>7. m = Len(s) - Len(r) /\ Len(r) < FrameSize /\ Len(r) <= Len(s)
  BY <1>0, <1>4
<1>8. \A j \in 1..Len(r) : r[j] = b + Len(s) - Len(r) + j
  <2>1. Len(r) \in Nat /\ Len(s) \in Nat /\ m + Len(r) = Len(s)
    BY <1>0, <1>4
  <2>2. QED
    BY <1>5, <2>1
<1>9. QED
  BY <1>1, <1>2, <1>4, <1>6, <1>7, <1>8

\* A gain keeps a sample in its range and its sign.
LEMMA ScaledFacts ==
  ASSUME NEW n \in Int, NEW g \in Nat
  PROVE  /\ Scaled(n, g) \in Value
         /\ Level(n) > 0 => Scaled(n, g) >= 0
         /\ Level(n) < 0 => Scaled(n, g) <= 0
<1>1. Level(n) \in {MinSample, MaxSample, -1}
  BY DEF Level, MinSample, MaxSample
<1>2. PICK l \in Int : l = Level(n)
  BY <1>1 DEF MinSample, MaxSample
<1>3. PICK v \in Int : v = l * g /\ (l > 0 => v >= 0) /\ (l < 0 => v <= 0)
  BY <1>1, <1>2 DEF MinSample, MaxSample
<1>4. PICK t : t = IF v < 0 THEN -((-v) \div GainUnit) ELSE v \div GainUnit
  OBVIOUS
<1>5. t \in Int /\ (v >= 0 => t >= 0) /\ (v <= 0 => t <= 0)
  <2>1. CASE v < 0
    <3>1. (-v) \div GainUnit \in Nat
      BY <2>1, CaptureAssumption, DivFacts
    <3>2. QED
      BY <1>4, <2>1, <3>1
  <2>2. CASE v >= 0
    <3>1. v \div GainUnit \in Nat
      BY <2>2, CaptureAssumption, DivFacts
    <3>2. v = 0 => v \div GainUnit = 0
      BY CaptureAssumption
    <3>3. QED
      BY <1>4, <2>2, <3>1, <3>2
  <2>3. QED
    BY <2>1, <2>2
<1>6. PICK x : x = Scaled(n, g)
  OBVIOUS
<1>7. x = IF t > MaxSample THEN MaxSample ELSE IF t < MinSample THEN MinSample ELSE t
  BY <1>2, <1>3, <1>4, <1>6 DEF Scaled
<1>8. x \in Value /\ (t >= 0 => x >= 0) /\ (t <= 0 => x <= 0)
  <2>1. t \in Int
    BY <1>5
  <2>2. PICK a \in Int, c \in Int : a = MinSample /\ c = MaxSample /\ a < 0 /\ c > 0
    BY DEF MinSample, MaxSample
  <2>3. x = IF t > c THEN c ELSE IF t < a THEN a ELSE t
    BY <1>7, <2>2
  <2>4. x \in a..c /\ (t >= 0 => x >= 0) /\ (t <= 0 => x <= 0)
    BY <2>1, <2>2, <2>3
  <2>5. QED
    BY <2>2, <2>4 DEF Value
<1>9. (l > 0 => x >= 0) /\ (l < 0 => x <= 0)
  BY <1>3, <1>5, <1>8
<1>10. QED
  BY <1>2, <1>6, <1>8, <1>9

-----------------------------------------------------------------------------
\* The types of the variables, as far as the steps use them.
LEMMA CaptureTypes ==
  ASSUME CaptureInv
  PROVE  /\ spoken \in Nat /\ spoken <= MaxSpoken /\ waiting \in Seq(Sample)
         /\ mic \in MicState /\ mic.buffer \in Seq(Sample) /\ mic.gain \in Nat
         /\ mic.open \in BOOLEAN /\ mic.transmit \in BOOLEAN
         /\ Len(waiting) \in Nat /\ Len(mic.buffer) \in Nat
         /\ LastRead \in Int /\ LastCut \in Nat /\ FrameSize \in Nat \ {0} /\ MaxSpoken \in Nat
         /\ sent \in Seq(FrameSent) /\ \A k \in 1..Len(sent) : sent[k][FrameSize][1] \in Int
<1>1. /\ spoken \in 0..MaxSpoken /\ waiting \in Seq(Sample) /\ mic \in MicState
      /\ sent \in Seq(FrameSent) /\ FrameSize \in Nat \ {0} /\ MaxSpoken \in Nat
  BY CaptureAssumption DEF CaptureInv, CaptureTypeOK, MicState, FrameSent, Value
<1>2. /\ mic.buffer \in Seq(Sample) /\ mic.gain \in 0..(3 * GainUnit)
      /\ mic.open \in BOOLEAN /\ mic.transmit \in BOOLEAN
  BY <1>1 DEF MicState
<1>3. mic.gain \in Nat
  BY <1>2, CaptureAssumption
<1>4. Len(waiting) \in Nat /\ Len(mic.buffer) \in Nat
  BY <1>1, <1>2
<1>5. spoken \in Nat /\ spoken <= MaxSpoken
  BY <1>1
<1>6. LastRead \in Int /\ LastCut \in Nat
  <2>1. LastCut >= 0
    BY DEF CaptureInv, BufferSound
  <2>2. QED
    BY <1>4, <1>5, <2>1 DEF LastRead, LastCut
<1>7. ASSUME NEW k \in 1..Len(sent)
      PROVE  sent[k][FrameSize][1] \in Int
  <2>1. sent[k][FrameSize][1] <= LastRead /\ sent[k] \in FrameSent /\ Len(sent[k]) = FrameSize
    BY <1>7 DEF CaptureInv, SentSound, FrameWhole
  <2>2. sent[k][FrameSize] \in Sample \X Value
    BY <1>1, <2>1 DEF FrameSent
  <2>3. sent[k][FrameSize][1] \in Sample
    BY <2>2
  <2>4. QED
    BY <2>3 DEF Sample
<1>8. QED
  BY <1>1, <1>2, <1>3, <1>4, <1>5, <1>6, <1>7

\* The frames that were sent stay sound while no number up to the last one read is
\* added to what was not heard.
LEMMA SentStays ==
  ASSUME CaptureInv, sent' = sent, UNCHANGED captureEnv, LastRead' \in Int, LastRead <= LastRead',
         \A n \in unheard' : n \in unheard \/ n > LastRead,
         LastCut' \in Int, LastCut <= LastCut',
         "fail" \notin captureEnv => Len(mic'.buffer) < FrameSize
  PROVE  SentSound' /\ SentBefore'
<1>1. ASSUME NEW k \in 1..Len(sent)
      PROVE  /\ sent[k][FrameSize][1] <= LastRead'
             /\ sent[k][FrameSize][1] \notin unheard'
             /\ sent[k][FrameSize][1] <= LastCut => sent[k][FrameSize][1] <= LastCut'
  <2>1. PICK n \in Int, r \in Int, c \in Int :
           n = sent[k][FrameSize][1] /\ r = LastRead /\ c = LastCut
    <3>1. sent[k][FrameSize][1] \in Int
      BY <1>1, CaptureTypes
    <3>2. LastRead \in Int /\ LastCut \in Int
      BY CaptureTypes
    <3>3. QED
      BY <3>1, <3>2
  <2>2. n <= r /\ n \notin unheard
    BY <1>1, <2>1 DEF CaptureInv, SentSound
  <2>3. n \notin unheard'
    BY <2>1, <2>2
  <2>4. QED
    BY <2>1, <2>2, <2>3
<1>2. SentSound'
  BY <1>1 DEF CaptureInv, SentSound, FrameWhole
<1>3. SentBefore'
  BY <1>1 DEF CaptureInv, SentBefore
<1>4. QED
  BY <1>2, <1>3

\* A sample is spoken.
LEMMA SpeakKeeps ==
  ASSUME CaptureInv, Speak
  PROVE  CaptureInv'
<1>1. /\ mic.open /\ spoken < MaxSpoken /\ spoken' = spoken + 1
      /\ waiting' = Append(waiting, spoken + 1)
      /\ UNCHANGED <<captureEnv, mic, unheard, sent>>
  BY DEF Speak
<1>2. spoken + 1 \in Sample /\ spoken' \in 0..MaxSpoken
  BY <1>1, CaptureTypes DEF Sample
<1>3. /\ waiting' \in Seq(Sample) /\ Len(waiting') = Len(waiting) + 1
      /\ \A i \in 1..Len(waiting) : waiting'[i] = waiting[i]
      /\ waiting'[Len(waiting) + 1] = spoken + 1
  BY <1>1, <1>2, CaptureTypes
<1>4. LastRead' = LastRead /\ LastCut' = LastCut /\ LastRead + Len(waiting) = spoken
  <2>1. spoken \in Nat /\ Len(waiting) \in Nat /\ Len(mic.buffer) \in Nat /\ mic' = mic
    BY <1>1, CaptureTypes
  <2>2. spoken' = spoken + 1 /\ Len(waiting') = Len(waiting) + 1
    BY <1>1, <1>3
  <2>3. QED
    BY <2>1, <2>2 DEF LastRead, LastCut
<1>5. CaptureTypeOK'
  BY <1>1, <1>2, <1>3 DEF CaptureInv, CaptureTypeOK
<1>6. \A i \in 1..Len(waiting') : waiting'[i] = LastRead' + i
  <2>1. \A i \in 1..Len(waiting) : waiting[i] = LastRead + i
    BY DEF CaptureInv, BufferSound
  <2>2. ASSUME NEW i \in 1..Len(waiting')
        PROVE  i \in 1..Len(waiting) \/ i = Len(waiting) + 1
    BY <1>3, CaptureTypes
  <2>3. LastRead + (Len(waiting) + 1) = spoken + 1
    BY <1>4, CaptureTypes
  <2>4. QED
    BY <1>3, <1>4, <2>1, <2>2, <2>3
<1>7. BufferSound'
  BY <1>1, <1>4, <1>6 DEF CaptureInv, BufferSound
<1>8. SentSound' /\ SentBefore'
  BY <1>1, <1>4 DEF CaptureInv, SentSound, SentBefore, FrameWhole
<1>9. QED
  BY <1>5, <1>7, <1>8 DEF CaptureInv

\* The microphone is opened, or closed with what was on its way.
LEMMA MicKeeps ==
  ASSUME CaptureInv, OpenMic \/ CloseMic
  PROVE  CaptureInv'
<1>1. /\ mic' \in MicState /\ mic'.buffer = <<>> /\ Len(mic'.buffer) = 0
      /\ waiting' = <<>> /\ Len(waiting') = 0
      /\ UNCHANGED <<captureEnv, spoken, unheard, sent>>
  <2>1. mic' = Capture(TRUE) \/ mic' = Capture(FALSE)
    BY DEF OpenMic, CloseMic
  <2>2. mic' \in MicState /\ mic'.buffer = <<>>
    <3>1. PICK o \in BOOLEAN : mic' = Capture(o)
      BY <2>1
    <3>0. <<>> \in Seq(Sample)
      OBVIOUS
    <3>2. PICK e \in Seq(Sample) : e = <<>>
      BY <3>0
    <3>3. mic' = [mic EXCEPT !.open = o, !.buffer = e]
      BY <3>1, <3>2 DEF Capture
    <3>4. mic \in MicState
      BY CaptureTypes
    <3>5. QED
      BY <3>2, <3>3, <3>4 DEF MicState
  <2>3. waiting' = <<>>
    BY DEF OpenMic, CloseMic, CaptureInv, BufferSound
  <2>4. QED
    BY <2>2, <2>3 DEF OpenMic, CloseMic
<1>2. LastRead' = spoken /\ LastCut' = spoken
  BY <1>1, CaptureTypes DEF LastRead, LastCut
<1>3. LastRead <= spoken /\ LastCut <= spoken /\ spoken >= 0
  BY CaptureTypes DEF LastRead, LastCut
<1>4. CaptureTypeOK'
  BY <1>1 DEF CaptureInv, CaptureTypeOK, MicState
<1>5. BufferSound'
  <2>1. unheard \subseteq 1..LastRead /\ LastRead \in Int /\ spoken \in Nat
    BY CaptureTypes DEF CaptureInv, BufferSound
  <2>2. unheard \subseteq 1..spoken
    BY <1>3, <2>1
  <2>3. QED
    BY <1>1, <1>2, <1>3, <2>2 DEF BufferSound
<1>6. SentSound' /\ SentBefore'
  BY <1>1, <1>2, <1>3, CaptureTypes, SentStays
<1>7. QED
  BY <1>4, <1>5, <1>6 DEF CaptureInv

\* The user transmits or stops, or sets the gain.
LEMMA SetKeeps ==
  ASSUME CaptureInv, SetTransmit \/ \E g \in Gain : SetGain(g)
  PROVE  CaptureInv'
<1>1. /\ mic' \in MicState /\ mic'.buffer = mic.buffer /\ mic'.open = mic.open
      /\ UNCHANGED <<captureEnv, spoken, waiting, unheard, sent>>
  <2>1. CASE SetTransmit
    BY <2>1, CaptureTypes DEF SetTransmit, MicState
  <2>2. ASSUME NEW g \in Gain, SetGain(g)
        PROVE  /\ mic' \in MicState /\ mic'.buffer = mic.buffer /\ mic'.open = mic.open
               /\ UNCHANGED <<captureEnv, spoken, waiting, unheard, sent>>
    <3>1. PICK n \in 0..(3 * GainUnit) : n = NormalGain(g)
      <4>1. g \in Int /\ GainUnit \in Nat \ {0}
        BY <2>2, CaptureAssumption
      <4>2. QED
        BY <4>1 DEF NormalGain
    <3>2. mic' = [mic EXCEPT !.gain = n] /\ UNCHANGED <<captureEnv, spoken, waiting, unheard, sent>>
      BY <2>2, <3>1 DEF SetGain
    <3>3. QED
      BY <3>2, CaptureTypes DEF MicState
  <2>3. QED
    BY <2>1, <2>2
<1>2. LastRead' = LastRead /\ LastCut' = LastCut
  BY <1>1 DEF LastRead, LastCut
<1>3. CaptureTypeOK'
  BY <1>1 DEF CaptureInv, CaptureTypeOK, MicState
<1>4. QED
  BY <1>1, <1>2, <1>3 DEF CaptureInv, BufferSound, SentSound, SentBefore, FrameWhole

-----------------------------------------------------------------------------
\* The samples that a read has in hand.
InHand(s) == s = mic.buffer \o waiting

\* What is read follows the buffer: the samples up to the last one spoken.
LEMMA ReadFacts ==
  ASSUME CaptureInv, NEW s, InHand(s), waiting # <<>>
  PROVE  /\ s \in Seq(Sample) /\ LastCut + Len(s) = spoken /\ Len(s) \in Nat
         /\ \A p \in 1..Len(s) : s[p] = LastCut + p
         /\ \A p \in 1..Len(s) : p >= FrameSize => s[p] \notin unheard
         /\ LastRead < spoken
<1>1. PICK b \in Seq(Sample), w \in Seq(Sample) : b = mic.buffer /\ w = waiting
  BY CaptureTypes
<1>2. /\ s \in Seq(Sample) /\ Len(s) = Len(b) + Len(w) /\ Len(b) \in Nat /\ Len(w) \in Nat
      /\ \A p \in 1..(Len(b) + Len(w)) : s[p] = IF p <= Len(b) THEN b[p] ELSE w[p - Len(b)]
  BY <1>1, ConcatProperties DEF InHand
<1>3. /\ spoken \in Nat /\ LastRead = spoken - Len(w) /\ LastCut = LastRead - Len(b)
      /\ LastCut \in Nat /\ Len(w) > 0
  <2>1. Len(w) > 0
    BY <1>1
  <2>2. QED
    BY <1>1, <2>1, CaptureTypes DEF LastRead, LastCut
<1>4. /\ \A i \in 1..Len(w) : w[i] = LastRead + i
      /\ \A i \in 1..Len(b) : b[i] = LastCut + i
      /\ \A n \in unheard : n \in 1..LastRead
      /\ \A i \in 1..Len(b) : i >= FrameSize => b[i] \notin unheard
  BY <1>1 DEF CaptureInv, BufferSound
<1>5. ASSUME NEW p \in 1..Len(s)
      PROVE  s[p] = LastCut + p /\ (p >= FrameSize => s[p] \notin unheard)
  <2>1. CASE p <= Len(b)
    <3>1. p \in 1..Len(b) /\ p \in 1..(Len(b) + Len(w))
      BY <1>2, <2>1
    <3>2. s[p] = b[p]
      BY <1>2, <2>1, <3>1
    <3>3. QED
      BY <1>4, <3>1, <3>2
  <2>2. CASE p > Len(b)
    <3>1. p - Len(b) \in 1..Len(w) /\ s[p] = w[p - Len(b)]
      BY <1>2, <2>2
    <3>2. s[p] = LastRead + (p - Len(b))
      BY <1>4, <3>1
    <3>3. s[p] = LastCut + p /\ s[p] > LastRead
      BY <1>2, <1>3, <2>2, <3>2
    <3>4. QED
      BY <1>3, <1>4, <3>3
  <2>3. QED
    BY <1>2, <2>1, <2>2
<1>6. LastCut + Len(s) = spoken /\ Len(s) \in Nat /\ LastRead < spoken
  BY <1>2, <1>3
<1>7. QED
  BY <1>2, <1>5, <1>6

\* Samples that follow each other up to the last one spoken may be left in the buffer
\* once everything is read, if a whole frame of them would be heard.
LEMMA LeftInBuffer ==
  ASSUME CaptureInv, waiting' = <<>>, UNCHANGED <<captureEnv, spoken>>, mic.open,
         NEW r \in Seq(Sample), mic' = [mic EXCEPT !.buffer = r], Len(r) <= spoken,
         \A j \in 1..Len(r) : r[j] = spoken - Len(r) + j,
         \A n \in unheard' : n \in 1..spoken,
         \A j \in 1..Len(r) : j >= FrameSize => r[j] \notin unheard'
  PROVE  /\ mic' \in MicState /\ mic'.buffer = r /\ waiting' \in Seq(Sample)
         /\ LastRead' = spoken /\ LastCut' = spoken - Len(r) /\ BufferSound'
<1>1. mic' \in MicState /\ mic'.buffer = r /\ mic'.open = mic.open
  BY CaptureTypes DEF MicState
<1>2. Len(waiting') = 0 /\ waiting' \in Seq(Sample) /\ Len(r) \in Nat /\ spoken \in Nat
  BY CaptureTypes
<1>3. LastRead' = spoken
  BY <1>2 DEF LastRead
<1>4. LastCut' = spoken - Len(r)
  BY <1>1, <1>3 DEF LastCut
<1>5. BufferSound'
  <2>1. \A i \in 1..Len(waiting') : waiting'[i] = LastRead' + i
    BY <1>2
  <2>2. LastCut' >= 0
    BY <1>2, <1>4
  <2>3. QED
    BY <1>1, <1>3, <1>4, <2>1, <2>2 DEF BufferSound
<1>6. QED
  BY <1>1, <1>2, <1>3, <1>4, <1>5

\* Samples are read and thrown away.
LEMMA SilentKeeps ==
  ASSUME CaptureInv, InputReadyRead, NEW s, InHand(s), ReadSilent(s)
  PROVE  CaptureInv'
<1>1. /\ mic.open /\ waiting # <<>> /\ waiting' = <<>> /\ UNCHANGED <<captureEnv, spoken, sent>>
      /\ mic' = [mic EXCEPT !.buffer = Rest(s)] /\ unheard' = unheard \cup ToSet(waiting)
  BY DEF InputReadyRead, ReadSilent
<1>2. PICK b \in Int : b = LastCut
  BY CaptureTypes
<1>3. /\ s \in Seq(Sample) /\ b + Len(s) = spoken /\ Len(s) \in Nat /\ LastRead < spoken
      /\ \A p \in 1..Len(s) : s[p] = b + p
  BY <1>1, <1>2, ReadFacts
<1>0. PICK r : r = Rest(s)
  OBVIOUS
<1>4. /\ r \in Seq(Sample) /\ Len(r) < FrameSize /\ Len(r) <= Len(s) /\ Len(r) \in Nat
      /\ \A j \in 1..Len(r) : r[j] = b + Len(s) - Len(r) + j
  <2>1. /\ r \in Seq(Sample) /\ Len(r) < FrameSize /\ Len(r) <= Len(s)
        /\ \A j \in 1..Len(r) : r[j] = b + Len(s) - Len(r) + j
    BY <1>0, <1>3, CutFacts
  <2>2. QED
    BY <2>1
<1>5. \A n \in unheard' : n \in unheard \/ (n > LastRead /\ n \in 1..spoken)
  <2>1. PICK l \in Int : l = LastRead /\ l + Len(waiting) = spoken
    BY CaptureTypes DEF LastRead
  <2>2. l >= 0
    BY <1>2, <2>1, CaptureTypes DEF LastCut
  <2>3. \A i \in 1..Len(waiting) : waiting[i] = l + i
    BY <2>1 DEF CaptureInv, BufferSound
  <2>4. ASSUME NEW n \in ToSet(waiting)
        PROVE  n > l /\ n \in 1..spoken
    <3>1. PICK i \in 1..Len(waiting) : n = waiting[i]
      BY <2>4, CaptureTypes DEF ToSet
    <3>2. n = l + i /\ Len(waiting) \in Nat
      BY <2>3, <3>1, CaptureTypes
    <3>3. QED
      BY <2>1, <2>2, <3>2
  <2>5. QED
    BY <1>1, <2>1, <2>4
<1>6. \A n \in unheard' : n \in 1..spoken
  <2>1. \A n \in unheard : n \in 1..LastRead
    BY DEF CaptureInv, BufferSound
  <2>2. LastRead \in Int /\ spoken \in Nat
    BY CaptureTypes
  <2>3. QED
    BY <1>3, <1>5, <2>1, <2>2
<1>7. /\ mic' \in MicState /\ mic'.buffer = r /\ waiting' \in Seq(Sample)
      /\ LastRead' = spoken /\ LastCut' = spoken - Len(r) /\ BufferSound'
  <2>1. mic' = [mic EXCEPT !.buffer = r] /\ FrameSize \in Nat
    BY <1>0, <1>1, CaptureTypes
  <2>2. Len(r) <= spoken /\ \A j \in 1..Len(r) : r[j] = spoken - Len(r) + j
    <3>1. b \in Nat /\ Len(r) <= Len(s) /\ Len(r) \in Nat
      BY <1>2, <1>4, CaptureTypes
    <3>2. b + Len(s) = spoken /\ Len(s) \in Nat
      BY <1>3
    <3>3. Len(r) <= spoken
      BY <3>1, <3>2
    <3>4. QED
      BY <1>4, <3>2, <3>3
  <2>3. \A j \in 1..Len(r) : ~(j >= FrameSize)
    BY <1>4, <2>1
  <2>4. QED
    BY <1>1, <1>4, <1>6, <2>1, <2>2, <2>3, LeftInBuffer
<1>8. SentSound' /\ SentBefore'
  <2>1. LastRead' \in Int /\ LastRead <= LastRead' /\ LastCut' \in Int /\ LastCut <= LastCut'
    <3>1. spoken \in Nat /\ LastRead \in Int
      BY CaptureTypes
    <3>2. Len(r) \in Nat /\ Len(r) <= Len(s) /\ Len(s) \in Nat /\ b + Len(s) = spoken
      BY <1>3, <1>4
    <3>3. QED
      BY <1>2, <1>3, <1>7, <3>1, <3>2
  <2>2. \A n \in unheard' : n \in unheard \/ n > LastRead
    BY <1>5
  <2>3. Len(mic'.buffer) < FrameSize
    BY <1>4, <1>7
  <2>4. QED
    BY <1>1, <2>1, <2>2, <2>3, SentStays
<1>9. CaptureTypeOK'
  <2>1. \A n \in unheard' : n \in Sample
    BY <1>6, CaptureTypes DEF Sample
  <2>2. QED
    BY <1>1, <1>7, <2>1 DEF CaptureInv, CaptureTypeOK, MicState
<1>10. QED
  BY <1>7, <1>8, <1>9 DEF CaptureInv

-----------------------------------------------------------------------------
\* A frame that is cut and scaled is whole, and its last sample was heard.
LEMMA FrameFacts ==
  ASSUME CaptureInv, NEW s \in Seq(Sample), NEW b \in Int, \A p \in 1..Len(s) : s[p] = b + p,
         NEW i \in 1..Frames(s), NEW f,
         f = [j \in 1..FrameSize |-> <<Frame(s, i)[j], Scaled(Frame(s, i)[j], mic.gain)>>]
  PROVE  /\ FrameWhole(f) /\ Start(i) \in Nat /\ Start(i) + FrameSize <= Len(s) - Len(Rest(s))
         /\ f[1][1] = b + Start(i) + 1 /\ f[FrameSize][1] = b + Start(i) + FrameSize
<1>1. /\ FrameSize \in Nat \ {0} /\ Len(s) \in Nat /\ mic.gain \in Nat /\ MaxSpoken \in Nat
  BY CaptureTypes
<1>2. PICK a \in Nat : /\ a = Start(i) /\ a + FrameSize <= Len(s) - Len(Rest(s))
                       /\ \A j \in 1..FrameSize : Frame(s, i)[j] = b + a + j
  BY CutFacts
<1>3. a + FrameSize <= Len(s)
  <2>1. Len(Rest(s)) \in Nat
    BY CutFacts
  <2>2. QED
    BY <1>1, <1>2, <2>1
<1>4. ASSUME NEW j \in 1..FrameSize
      PROVE  b + a + j \in Sample
  <2>1. a + j \in 1..Len(s) /\ b + (a + j) = b + a + j
    BY <1>1, <1>3
  <2>2. s[a + j] \in Sample
    BY <2>1
  <2>3. QED
    BY <2>1, <2>2
<1>5. f = [j \in 1..FrameSize |-> <<b + a + j, Scaled(b + a + j, mic.gain)>>]
  BY <1>2
<1>6. \A n \in Sample : /\ n \in Int /\ Scaled(n, mic.gain) \in Value
                        /\ Level(n) > 0 => Scaled(n, mic.gain) >= 0
                        /\ Level(n) < 0 => Scaled(n, mic.gain) <= 0
  <2>1. \A n \in Sample : n \in Int
    BY <1>1 DEF Sample
  <2>2. QED
    BY <1>1, <2>1, ScaledFacts
<1>7. ASSUME NEW j \in 1..FrameSize
      PROVE  /\ f[j][1] = b + a + j /\ f[j] \in Sample \X Value
             /\ Level(f[j][1]) > 0 => f[j][2] >= 0
             /\ Level(f[j][1]) < 0 => f[j][2] <= 0
  <2>1. PICK n \in Sample : n = b + a + j
    BY <1>4
  <2>2. PICK v \in Value : v = Scaled(n, mic.gain)
    BY <1>6
  <2>3. f[j] = <<n, v>>
    BY <1>5, <2>1, <2>2
  <2>4. QED
    BY <1>6, <2>1, <2>2, <2>3
<1>8. f \in FrameSent /\ Len(f) = FrameSize
  BY <1>1, <1>5, <1>7 DEF FrameSent
<1>9. \A j \in 2..FrameSize : f[j][1] = f[j - 1][1] + 1
  <2>1. ASSUME NEW j \in 2..FrameSize
        PROVE  f[j][1] = f[j - 1][1] + 1
    <3>1. j \in 1..FrameSize /\ j - 1 \in 1..FrameSize
      BY <1>1
    <3>2. f[j][1] = b + a + j /\ f[j - 1][1] = b + a + (j - 1)
      BY <1>7, <3>1
    <3>3. QED
      BY <3>1, <3>2
  <2>2. QED
    BY <2>1
<1>10. FrameWhole(f)
  BY <1>7, <1>8, <1>9 DEF FrameWhole
<1>11. 1 \in 1..FrameSize /\ FrameSize \in 1..FrameSize
  BY <1>1
<1>12. QED
  BY <1>2, <1>7, <1>10, <1>11

\* Samples are read and some of their frames are sent.
LEMMA FramesSentKeep ==
  ASSUME CaptureInv, InputReadyRead, NEW s, InHand(s),
         NEW upto \in 0..Frames(s), NEW n \in 0..upto, NEW kept \in Increasing(n, upto),
         "fail" \notin captureEnv => upto = Frames(s), ReadAndSend(s, upto, kept)
  PROVE  CaptureInv'
<1> DEFINE Sent(i) == [j \in 1..FrameSize |-> <<Frame(s, i)[j], Scaled(Frame(s, i)[j], mic.gain)>>]
<1>1. PICK r, t :
         /\ r = IF upto = Frames(s) THEN Rest(s) ELSE s
         /\ t = [i \in 1..Len(kept) |-> Sent(kept[i])]
         /\ sent' = sent \o t /\ mic' = [mic EXCEPT !.buffer = r]
  BY DEF ReadAndSend
<1>2. /\ mic.open /\ waiting # <<>> /\ waiting' = <<>> /\ UNCHANGED <<captureEnv, spoken, unheard>>
  BY DEF InputReadyRead, ReadAndSend
<1>0. PICK z : z = Len(s) - Len(Rest(s))
  OBVIOUS
<1>3. PICK b \in Int : b = LastCut /\ b >= 0
  BY CaptureTypes
<1>4. /\ s \in Seq(Sample) /\ b + Len(s) = spoken /\ Len(s) \in Nat /\ LastRead < spoken
      /\ spoken \in Nat /\ FrameSize \in Nat \ {0} /\ LastRead \in Int
      /\ \A p \in 1..Len(s) : s[p] = b + p
      /\ \A p \in 1..Len(s) : p >= FrameSize => s[p] \notin unheard
  BY <1>2, <1>3, ReadFacts, CaptureTypes
<1>5. /\ Frames(s) \in Nat /\ Rest(s) \in Seq(Sample) /\ Len(Rest(s)) \in Nat
      /\ z \in Nat /\ z <= Len(s) /\ z + Len(Rest(s)) = Len(s)
      /\ Len(Rest(s)) < FrameSize /\ Len(Rest(s)) <= Len(s)
      /\ \A j \in 1..Len(Rest(s)) : Rest(s)[j] = spoken - Len(Rest(s)) + j
  <2>1. /\ s \in Seq(Sample) /\ \A p \in 1..Len(s) : s[p] = b + p
    BY <1>4
  <2>2. /\ Frames(s) \in Nat /\ Rest(s) \in Seq(Sample)
        /\ Len(Rest(s)) < FrameSize /\ Len(Rest(s)) <= Len(s)
        /\ \A j \in 1..Len(Rest(s)) : Rest(s)[j] = b + Len(s) - Len(Rest(s)) + j
    BY <2>1, CutFacts
  <2>3. Len(Rest(s)) \in Nat /\ Len(s) \in Nat /\ b + Len(s) = spoken
    BY <1>4, <2>2
  <2>4. PICK l \in Nat, m \in Nat : l = Len(s) /\ m = Len(Rest(s)) /\ m <= l
    BY <2>2, <2>3
  <2>5. z \in Nat /\ z <= Len(s) /\ z + Len(Rest(s)) = Len(s)
    BY <1>0, <2>4
  <2>6. QED
    BY <2>2, <2>3, <2>5
<1>6. /\ Len(kept) = n /\ n \in Nat /\ \A i \in 1..n : kept[i] \in 1..Frames(s)
      /\ \A i \in 2..n : kept[i - 1] < kept[i]
  <2>1. upto \in Nat /\ upto <= Frames(s) /\ n \in Nat
    BY <1>5
  <2>2. kept \in [1..n -> 1..upto] /\ \A i \in 2..n : kept[i - 1] < kept[i]
    BY DEF Increasing
  <2>3. Len(kept) = n
    BY <2>1, <2>2
  <2>4. \A k \in 1..upto : k \in 1..Frames(s)
    BY <1>5, <2>1
  <2>5. QED
    BY <2>1, <2>2, <2>3, <2>4
<1>7. ASSUME NEW i \in 1..n
      PROVE  /\ FrameWhole(t[i]) /\ t[i] \in FrameSent
             /\ Start(kept[i]) \in Nat /\ Start(kept[i]) + FrameSize <= z
             /\ t[i][1][1] = b + Start(kept[i]) + 1
             /\ t[i][FrameSize][1] = b + Start(kept[i]) + FrameSize
  <2>1. PICK k \in 1..Frames(s) : k = kept[i]
    BY <1>6
  <2>2. t[i] = Sent(k)
    BY <1>1, <1>6, <2>1
  <2>3. /\ FrameWhole(t[i]) /\ Start(k) \in Nat /\ Start(k) + FrameSize <= z
        /\ t[i][1][1] = b + Start(k) + 1 /\ t[i][FrameSize][1] = b + Start(k) + FrameSize
    <3>1. /\ s \in Seq(Sample) /\ \A p \in 1..Len(s) : s[p] = b + p
      BY <1>4
    <3>2. t[i] = [j \in 1..FrameSize |-> <<Frame(s, k)[j], Scaled(Frame(s, k)[j], mic.gain)>>]
      BY <2>2
    <3>3. PICK f : f = t[i]
      OBVIOUS
    <3>4. /\ FrameWhole(f) /\ Start(k) \in Nat
          /\ Start(k) + FrameSize <= Len(s) - Len(Rest(s))
          /\ f[1][1] = b + Start(k) + 1 /\ f[FrameSize][1] = b + Start(k) + FrameSize
      BY <3>1, <3>2, <3>3, FrameFacts
    <3>5. QED
      BY <1>0, <3>3, <3>4
  <2>4. QED
    BY <2>1, <2>3 DEF FrameWhole
<1> HIDE DEF Sent
<1>8. /\ t \in Seq(FrameSent) /\ Len(t) = n
  <2>1. t \in [1..n -> FrameSent]
    BY <1>1, <1>6, <1>7
  <2>2. QED
    BY <1>6, <2>1
<1>9. /\ sent \in Seq(FrameSent) /\ sent' \in Seq(FrameSent) /\ Len(sent') = Len(sent) + n
      /\ Len(sent) \in Nat
      /\ \A k \in 1..Len(sent) : sent'[k] = sent[k]
      /\ \A i \in 1..n : sent'[Len(sent) + i] = t[i]
  <2>1. sent \in Seq(FrameSent)
    BY CaptureTypes
  <2>2. /\ sent' \in Seq(FrameSent) /\ Len(sent') = Len(sent) + n /\ Len(sent) \in Nat
        /\ \A k \in 1..(Len(sent) + n) : sent'[k] = IF k <= Len(sent) THEN sent[k] ELSE t[k - Len(sent)]
    BY <1>1, <1>8, <2>1, ConcatProperties
  <2>3. ASSUME NEW i \in 1..n
        PROVE  sent'[Len(sent) + i] = t[i]
    <3>1. PICK c \in Nat : c = Len(sent)
      BY <2>2
    <3>2. c + i \in 1..(c + n) /\ ~(c + i <= c) /\ c + i - c = i
      BY <1>6
    <3>3. QED
      BY <2>2, <3>1, <3>2
  <2>4. ASSUME NEW k \in 1..Len(sent)
        PROVE  sent'[k] = sent[k]
    BY <1>6, <2>2
  <2>5. QED
    BY <2>1, <2>2, <2>3, <2>4
<1>10. ASSUME NEW k \in 1..Len(sent')
       PROVE  k \in 1..Len(sent) \/ \E i \in 1..n : k = Len(sent) + i
  <2>1. CASE k > Len(sent)
    <3>1. k - Len(sent) \in 1..n /\ k = Len(sent) + (k - Len(sent))
      BY <1>6, <1>9, <2>1
    <3>2. QED
      BY <3>1
  <2>2. CASE k <= Len(sent)
    BY <1>9, <2>2
  <2>3. QED
    BY <1>9, <2>1, <2>2
<1>11. /\ mic' \in MicState /\ mic'.buffer = r /\ waiting' \in Seq(Sample)
       /\ LastRead' = spoken /\ LastCut' = spoken - Len(r) /\ BufferSound'
  <2>1. /\ r \in Seq(Sample) /\ Len(r) <= spoken
        /\ \A j \in 1..Len(r) : r[j] = spoken - Len(r) + j
        /\ \A j \in 1..Len(r) : j >= FrameSize => r[j] \notin unheard'
    <3>1. CASE upto = Frames(s)
      <4>1. r = Rest(s)
        BY <1>1, <3>1
      <4>2. PICK l \in Nat, m \in Nat : /\ l = Len(s) /\ m = Len(Rest(s)) /\ m <= l
                                       /\ m < FrameSize /\ b + l = spoken
        BY <1>4, <1>5
      <4>4. m <= spoken /\ \A j \in 1..m : ~(j >= FrameSize)
        BY <1>3, <1>4, <4>2
      <4>3. QED
        BY <1>5, <4>1, <4>2, <4>4
    <3>2. CASE upto # Frames(s)
      <4>1. r = s
        BY <1>1, <3>2
      <4>2. spoken - Len(s) = b /\ Len(s) <= spoken
        BY <1>3, <1>4
      <4>3. QED
        BY <1>2, <1>4, <4>1, <4>2
    <3>3. QED
      BY <3>1, <3>2
  <2>2. \A m \in unheard' : m \in 1..spoken
    <3>1. \A m \in unheard : m \in 1..LastRead
      BY DEF CaptureInv, BufferSound
    <3>2. QED
      BY <1>2, <1>4, <3>1
  <2>3. QED
    BY <1>1, <1>2, <2>1, <2>2, LeftInBuffer
<1>12. ASSUME NEW i \in 1..n
       PROVE  t[i][FrameSize][1] <= spoken /\ t[i][FrameSize][1] \notin unheard
  <2>1. PICK a \in Nat : a = Start(kept[i])
    BY <1>7
  <2>2. a + FrameSize <= z /\ t[i][FrameSize][1] = b + a + FrameSize
    BY <1>7, <2>1
  <2>3. z <= Len(s)
    BY <1>5
  <2>4. a + FrameSize \in 1..Len(s) /\ a + FrameSize >= FrameSize
        /\ b + a + FrameSize = b + (a + FrameSize)
    BY <1>4, <1>5, <2>2, <2>3
  <2>5. s[a + FrameSize] \notin unheard /\ s[a + FrameSize] = b + (a + FrameSize)
    BY <1>4, <2>4
  <2>6. b + (a + FrameSize) <= spoken
    BY <1>4, <2>4
  <2>7. QED
    BY <2>2, <2>4, <2>5, <2>6
<1>13. SentSound'
  <2>1. ASSUME NEW k \in 1..Len(sent')
        PROVE  /\ FrameWhole(sent'[k])
               /\ sent'[k][FrameSize][1] <= spoken /\ sent'[k][FrameSize][1] \notin unheard
    <3>1. CASE k \in 1..Len(sent)
      <4>1. FrameWhole(sent[k]) /\ sent[k][FrameSize][1] <= LastRead
            /\ sent[k][FrameSize][1] \notin unheard /\ sent[k][FrameSize][1] \in Int
        BY <3>1, CaptureTypes DEF CaptureInv, SentSound
      <4>2. QED
        BY <1>4, <1>9, <3>1, <4>1
    <3>2. ASSUME NEW i \in 1..n, k = Len(sent) + i
          PROVE  /\ FrameWhole(sent'[k])
                 /\ sent'[k][FrameSize][1] <= spoken /\ sent'[k][FrameSize][1] \notin unheard
      BY <1>7, <1>9, <1>12, <3>2
    <3>3. QED
      BY <1>10, <2>1, <3>1, <3>2
  <2>2. QED
    BY <1>2, <1>11, <2>1 DEF SentSound, FrameWhole
<1>14. SentBefore'
  <2>1. SUFFICES ASSUME "fail" \notin captureEnv PROVE SentBefore'
    BY <1>2 DEF SentBefore
  <2>2. r = Rest(s) /\ LastCut' = b + z /\ Len(mic'.buffer) < FrameSize
    <3>1. r = Rest(s)
      BY <1>1, <2>1
    <3>2. spoken - Len(Rest(s)) = b + z
      <4>1. PICK l \in Nat, m \in Nat : l = Len(s) /\ m = Len(Rest(s)) /\ z + m = l /\ z \in Nat
        BY <1>4, <1>5
      <4>2. b + l = spoken
        BY <1>4, <4>1
      <4>3. QED
        BY <4>1, <4>2
    <3>3. QED
      BY <1>5, <1>11, <3>1, <3>2
  <2>3. \A k \in 1..Len(sent) : sent[k][FrameSize][1] <= b /\ sent[k][FrameSize][1] \in Int
    BY <1>3, <2>1, CaptureTypes DEF CaptureInv, SentBefore
  <2>4. \A i \in 1..n : t[i][FrameSize][1] <= b + z /\ t[i][1][1] > b /\ t[i][1][1] \in Int
    <3>1. ASSUME NEW i \in 1..n
          PROVE  t[i][FrameSize][1] <= b + z /\ t[i][1][1] > b /\ t[i][1][1] \in Int
      <4>1. PICK a \in Nat : a = Start(kept[i])
        BY <1>7
      <4>2. /\ a + FrameSize <= z /\ t[i][FrameSize][1] = b + a + FrameSize
            /\ t[i][1][1] = b + a + 1
        BY <1>7, <4>1
      <4>3. QED
        BY <1>4, <1>5, <4>2
    <3>2. QED
      BY <3>1
  <2>5. ASSUME NEW k \in 1..Len(sent')
        PROVE  sent'[k][FrameSize][1] <= b + z
    <3>1. CASE k \in 1..Len(sent)
      <4>1. sent[k][FrameSize][1] <= b /\ sent[k][FrameSize][1] \in Int /\ z \in Nat
        BY <1>5, <2>3, <3>1
      <4>2. QED
        BY <1>9, <3>1, <4>1
    <3>2. ASSUME NEW i \in 1..n, k = Len(sent) + i
          PROVE  sent'[k][FrameSize][1] <= b + z
      BY <1>9, <2>4, <3>2
    <3>3. QED
      BY <1>10, <2>5, <3>1, <3>2
  <2>6. ASSUME NEW k \in 2..Len(sent')
        PROVE  sent'[k - 1][FrameSize][1] < sent'[k][1][1]
    <3>0. k \in 1..Len(sent') /\ k - 1 \in 1..Len(sent')
      BY <1>6, <1>9
    <3>1. CASE k \in 1..Len(sent)
      <4>1. k \in 2..Len(sent) /\ k - 1 \in 1..Len(sent)
        BY <1>9, <3>1
      <4>2. sent[k - 1][FrameSize][1] < sent[k][1][1]
        BY <2>1, <4>1 DEF CaptureInv, SentBefore
      <4>3. QED
        BY <1>9, <3>1, <4>1, <4>2
    <3>2. ASSUME k = Len(sent) + 1, 1 \in 1..n
          PROVE  sent'[k - 1][FrameSize][1] < sent'[k][1][1]
      <4>1. k - 1 \in 1..Len(sent)
        BY <1>9, <3>2
      <4>2. sent'[k - 1] = sent[k - 1] /\ sent'[k] = t[1]
        BY <1>9, <3>2, <4>1
      <4>3. sent[k - 1][FrameSize][1] <= b /\ sent[k - 1][FrameSize][1] \in Int
            /\ t[1][1][1] > b /\ t[1][1][1] \in Int
        BY <2>3, <2>4, <3>2, <4>1
      <4>4. QED
        BY <4>2, <4>3
    <3>3. ASSUME NEW i \in 2..n, k = Len(sent) + i
          PROVE  sent'[k - 1][FrameSize][1] < sent'[k][1][1]
      <4>1. i \in 1..n /\ i - 1 \in 1..n /\ k - 1 = Len(sent) + (i - 1)
        <5>1. PICK c \in Nat : c = Len(sent)
          BY <1>9
        <5>2. QED
          BY <1>6, <3>3, <5>1
      <4>2. sent'[k - 1] = t[i - 1] /\ sent'[k] = t[i]
        BY <1>9, <3>3, <4>1
      <4>3. PICK x \in 1..Frames(s), y \in 1..Frames(s) : x = kept[i - 1] /\ y = kept[i] /\ x < y
        BY <1>6, <3>3, <4>1
      <4>4. /\ t[i - 1][FrameSize][1] = b + Start(x) + FrameSize
            /\ t[i][1][1] = b + Start(y) + 1 /\ Start(x) \in Nat /\ Start(y) \in Nat
        BY <1>7, <4>1, <4>3
      <4>5. Start(x) + FrameSize <= Start(y)
        <5>1. x \in Nat \ {0} /\ y \in Nat /\ x <= y /\ x < y
          BY <1>5, <4>3
        <5>2. QED
          BY <5>1, StartFacts
      <4>6. b + Start(x) + FrameSize < b + Start(y) + 1
        <5>1. PICK c \in Nat, d \in Nat : c = Start(x) /\ d = Start(y) /\ c + FrameSize <= d
          BY <4>4, <4>5
        <5>2. FrameSize \in Nat
          BY <1>4
        <5>3. b + c + FrameSize < b + d + 1
          BY <5>1, <5>2
        <5>4. QED
          BY <5>1, <5>3
      <4>7. QED
        BY <4>2, <4>4, <4>6
    <3>4. QED
      <4>1. \A i \in 1..n : i = 1 \/ i \in 2..n
        BY <1>6
      <4>2. QED
        BY <1>10, <3>0, <3>1, <3>2, <3>3, <4>1
  <2>7. QED
    BY <2>2, <2>5, <2>6 DEF SentBefore
<1>15. CaptureTypeOK'
  <2>1. /\ captureEnv' \in CaptureScenarios /\ spoken' \in 0..MaxSpoken
        /\ unheard' \subseteq Sample
    BY <1>2 DEF CaptureInv, CaptureTypeOK
  <2>2. QED
    BY <1>9, <1>11, <2>1 DEF CaptureTypeOK, MicState, FrameSent, Value
<1>16. QED
  BY <1>11, <1>13, <1>14, <1>15 DEF CaptureInv

\* Every step keeps the invariant.
LEMMA CaptureStep == CaptureInv /\ [CaptureNext]_captureVars => CaptureInv'
<1> SUFFICES ASSUME CaptureInv, [CaptureNext]_captureVars PROVE CaptureInv'
  OBVIOUS
<1>1. ASSUME InputReadyRead
      PROVE  CaptureInv'
  <2>1. PICK s : s = mic.buffer \o waiting
    OBVIOUS
  <2>2. CASE ~mic.transmit
    <3>1. ReadSilent(s)
      BY <1>1, <2>1, <2>2 DEF InputReadyRead
    <3>2. QED
      BY <1>1, <2>1, <3>1, SilentKeeps DEF InHand
  <2>3. CASE mic.transmit
    <3>1. PICK upto \in IF "fail" \in captureEnv THEN 0..Frames(s) ELSE {Frames(s)} :
             \E n \in IF "timeout" \in captureEnv THEN 0..upto ELSE {upto} :
                \E kept \in Increasing(n, upto) : ReadAndSend(s, upto, kept)
      BY <1>1, <2>1, <2>3 DEF InputReadyRead
    <3>2. PICK n \in IF "timeout" \in captureEnv THEN 0..upto ELSE {upto} :
             \E kept \in Increasing(n, upto) : ReadAndSend(s, upto, kept)
      BY <3>1
    <3>3. PICK kept \in Increasing(n, upto) : ReadAndSend(s, upto, kept)
      BY <3>2
    <3>4. Frames(s) \in Nat
      <4>1. waiting # <<>>
        BY <1>1 DEF InputReadyRead
      <4>2. /\ s \in Seq(Sample) /\ LastCut \in Int /\ \A p \in 1..Len(s) : s[p] = LastCut + p
        <5>1. InHand(s)
          BY <2>1 DEF InHand
        <5>2. QED
          BY <4>1, <5>1, ReadFacts, CaptureTypes
      <4>3. PICK b \in Int : b = LastCut
        BY <4>2
      <4>4. QED
        BY <4>2, <4>3, CutFacts
    <3>5. upto \in 0..Frames(s) /\ ("fail" \notin captureEnv => upto = Frames(s))
      BY <3>4
    <3>6. n \in 0..upto
      BY <3>4, <3>5
    <3>7. InHand(s)
      BY <2>1 DEF InHand
    <3>8. QED
      BY <1>1, <3>3, <3>5, <3>6, <3>7, FramesSentKeep
  <2>4. QED
    BY <2>2, <2>3
<1>2. ASSUME UNCHANGED captureVars
      PROVE  CaptureInv'
  BY <1>2 DEF captureVars, CaptureInv, CaptureTypeOK, BufferSound, SentSound, SentBefore,
              FrameWhole, LastRead, LastCut
<1>3. QED
  BY <1>1, <1>2, SpeakKeeps, MicKeeps, SetKeeps DEF CaptureNext

\* The invariant, of every behaviour.
THEOREM CaptureInvariant == CaptureSpec => []CaptureInv
<1>1. ASSUME CaptureInit
      PROVE  CaptureInv
  <2>1. /\ captureEnv \in CaptureScenarios /\ spoken = 0 /\ waiting = <<>> /\ unheard = {}
        /\ sent = <<>>
        /\ mic = [open |-> FALSE, transmit |-> FALSE, gain |-> GainUnit, buffer |-> <<>>]
    BY <1>1 DEF CaptureInit
  <2>2. Len(waiting) = 0 /\ Len(mic.buffer) = 0 /\ Len(sent) = 0 /\ ~mic.open
    BY <2>1
  <2>3. LastRead = 0 /\ LastCut = 0
    <3>1. spoken = 0
      BY <2>1
    <3>2. LastRead = 0
      BY <2>2, <3>1 DEF LastRead
    <3>3. QED
      BY <2>2, <3>2 DEF LastCut
  <2>4. CaptureTypeOK
    <3>1. GainUnit \in 0..(3 * GainUnit) /\ 0 \in 0..MaxSpoken
      BY CaptureAssumption
    <3>2. mic \in MicState
      BY <2>1, <3>1 DEF MicState
    <3>3. QED
      BY <2>1, <3>1, <3>2 DEF CaptureTypeOK, MicState
  <2>5. BufferSound
    BY <2>1, <2>2, <2>3 DEF BufferSound
  <2>6. SentSound /\ SentBefore
    BY <2>2, CaptureAssumption DEF SentSound, SentBefore
  <2>7. QED
    BY <2>4, <2>5, <2>6 DEF CaptureInv
<1>2. QED
  BY <1>1, CaptureStep, PTL DEF CaptureSpec

\* What is sent are whole frames of what was said, in order and without what was said
\* in silence, for any size of a frame, gain, and failures of the audio source.
THEOREM CaptureIsSound == CaptureSpec => []CaptureSound
<1>1. ASSUME CaptureInv
      PROVE  CaptureSound
  <2>1. FrameSize \in 1..FrameSize
    BY CaptureAssumption
  <2>2. FramesWhole /\ SignsKept
    BY <1>1 DEF CaptureInv, SentSound, FrameWhole, FramesWhole, SignsKept
  <2>3. SentInOrder
    BY <1>1 DEF CaptureInv, SentBefore, SentInOrder
  <2>4. SilenceUnsent
    BY <1>1, <2>1 DEF CaptureInv, SentSound, SilenceUnsent
  <2>5. QED
    BY <2>2, <2>3, <2>4 DEF CaptureSound
<1>2. QED
  BY <1>1, CaptureInvariant, PTL

-----------------------------------------------------------------------------
(* The log filter.                                                         *)

\* The halves of a line follow each other, and agree on whether it is noise.
LogInv(log) ==
    /\ log \in Seq(Piece)
    /\ \A k \in 1..Len(log) :
          /\ Position(log[k]) = k
          /\ log[k].last => log[k - 1].noise = log[k].noise

\* The descriptor, the pipe, the filter and its thread are where they are together.
PhasesFit ==
    /\ target = "pipe" <=> filter.at = "idle" /\ filter.started
    /\ filter.at # "idle" => filter.started
    /\ ~filter.started <=> reader.at = "none"
    /\ writeEnd <=> filter.started /\ filter.at # "joining"
    /\ reader.at \in {"none", "ended"} => pipe = <<>> /\ reader.pending = <<>>
    /\ reader.at = "ended" => filter.at = "joining"
    /\ reader.at = "read" => \A i \in 1..Len(reader.pending) : ~reader.pending[i].last

\* What the thread and the pipe hold, pe and pi, is what was logged from lo + 1 to hi.
Segment(log, pe, pi, lo, hi) ==
    /\ lo \in Nat /\ hi = lo + Len(pe) + Len(pi) /\ hi <= Len(log)
    /\ \A i \in 1..Len(pe) : pe[i] = log[lo + i]
    /\ \A i \in 1..Len(pi) : pi[i] = log[lo + Len(pe) + i]

\* The k-th piece is neither held, from lo + 1 to hi, nor shown.
Missing(log, sh, lo, hi, k) ==
    k \in 1..Len(log) /\ (k <= lo \/ k > hi) /\ \A j \in 1..Len(sh) : sh[j] # log[k]

\* What is shown was logged and is not held, nor shown twice; what is missing is noise,
\* with the other half of its line.
Accounts(log, sh, lo, hi) ==
    /\ \A j \in 1..Len(sh) : \E k \in 1..Len(log) : (k <= lo \/ k > hi) /\ sh[j] = log[k]
    /\ \A i, j \in 1..Len(sh) : sh[i] = sh[j] => i = j
    /\ \A k \in 1..Len(log) : Missing(log, sh, lo, hi, k) =>
          /\ log[k].noise
          /\ \E m \in 1..Len(log) : m # k /\ log[m].line = log[k].line /\ Missing(log, sh, lo, hi, m)

\* In the order of the log.
InOrder(sh) == \A i, j \in 1..Len(sh) : i < j => Position(sh[i]) < Position(sh[j])

\* Where nothing is logged while the filter stops, all that is logged goes through it.
PiecesSound(lo, hi) ==
    /\ Segment(logged, reader.pending, pipe, lo, hi)
    /\ Accounts(logged, shown, lo, hi)
    /\ "late" \notin filterEnv => hi = Len(logged) /\ InOrder(shown)
    /\ target = "pipe" => hi = Len(logged)

FilterInv ==
    /\ FilterTypeOK /\ LogInv(logged) /\ PhasesFit
    /\ \E lo, hi \in Nat : PiecesSound(lo, hi)

-----------------------------------------------------------------------------
\* A piece is in one place of the log only.
LEMMA PieceOnce ==
  ASSUME NEW log, LogInv(log), NEW j \in 1..Len(log), NEW k \in 1..Len(log), log[j] = log[k]
  PROVE  j = k
BY DEF LogInv

\* The fields of a piece.
LEMMA PieceFields ==
  ASSUME NEW p \in Piece
  PROVE  /\ p.line \in Nat /\ p.line >= 1 /\ p.last \in BOOLEAN /\ p.noise \in BOOLEAN
         /\ Position(p) \in Nat
         /\ p.last => Position(p) = 2 * p.line
         /\ ~p.last => Position(p) = 2 * p.line - 1
<1>1. p.line \in Nat /\ p.line >= 1 /\ p.last \in BOOLEAN /\ p.noise \in BOOLEAN
  BY FilterAssumption DEF Piece
<1>2. QED
  BY <1>1 DEF Position

\* The two halves of a line.
LEMMA Halves ==
  ASSUME NEW log, LogInv(log), NEW k \in 1..Len(log)
  PROVE  /\ log[k].last => k > 1 /\ ~log[k - 1].last /\ log[k - 1].line = log[k].line
         /\ ~log[k].last /\ k < Len(log) => log[k + 1].last /\ log[k + 1].line = log[k].line
         /\ \A j \in 1..Len(log) : log[j].line = log[k].line /\ log[j].last = log[k].last => j = k
<1> DEFINE L(i) == log[i].line
           E(i) == log[i].last
<1>1. \A i \in 1..Len(log) : /\ L(i) \in Nat /\ L(i) >= 1 /\ E(i) \in BOOLEAN
                             /\ E(i) => i = 2 * L(i)
                             /\ ~E(i) => i = 2 * L(i) - 1
  <2>1. TAKE i \in 1..Len(log)
  <2>2. log[i] \in Piece /\ Position(log[i]) = i
    BY DEF LogInv
  <2>3. QED
    BY <2>2, PieceFields
<1>2. Len(log) \in Nat
  BY DEF LogInv
<1> HIDE DEF L, E
<1>3. ASSUME E(k)
      PROVE  k > 1 /\ ~E(k - 1) /\ L(k - 1) = L(k)
  <2>1. k = 2 * L(k) /\ L(k) \in Nat /\ L(k) >= 1
    BY <1>1, <1>3
  <2>2. k > 1 /\ k - 1 \in 1..Len(log)
    BY <2>1, <1>2
  <2>3. PICK i \in 1..Len(log) : i = k - 1
    BY <2>2
  <2>4. E(i) => i = 2 * L(i)
    BY <1>1
  <2>5. ~E(i) => i = 2 * L(i) - 1
    BY <1>1
  <2>6. L(i) \in Nat
    BY <1>1
  <2>7. ~E(i) /\ L(i) = L(k)
    BY <2>1, <2>3, <2>4, <2>5, <2>6
  <2>8. QED
    BY <2>2, <2>3, <2>7
<1>4. ASSUME ~E(k), k < Len(log)
      PROVE  E(k + 1) /\ L(k + 1) = L(k)
  <2>1. k = 2 * L(k) - 1 /\ L(k) \in Nat
    BY <1>1, <1>4
  <2>2. PICK i \in 1..Len(log) : i = k + 1
    BY <1>2, <1>4
  <2>3. E(i) => i = 2 * L(i)
    BY <1>1
  <2>4. ~E(i) => i = 2 * L(i) - 1
    BY <1>1
  <2>5. L(i) \in Nat
    BY <1>1
  <2>6. E(i) /\ L(i) = L(k)
    BY <2>1, <2>2, <2>3, <2>4, <2>5
  <2>7. QED
    BY <2>2, <2>6
<1>5. ASSUME NEW j \in 1..Len(log), L(j) = L(k), E(j) = E(k)
      PROVE  j = k
  <2>1. CASE E(k)
    BY <2>1, <1>1, <1>5
  <2>2. CASE ~E(k)
    BY <2>2, <1>1, <1>5
  <2>3. QED
    BY <2>1, <2>2
<1>6. QED
  BY <1>3, <1>4, <1>5 DEF L, E

\* The log grows by the other half of its last line, or the first of the next.
LEMMA LogGrows ==
  ASSUME NEW log, LogInv(log), NEW noise \in BOOLEAN, NEW second \in BOOLEAN,
         second = (log # <<>> /\ ~Last(log).last),
         second => noise = Last(log).noise,
         NEW p, p = [line |-> (Len(log) \div 2) + 1, noise |-> noise, last |-> second],
         p.line <= MaxLines
  PROVE  p \in Piece /\ Position(p) = Len(log) + 1 /\ LogInv(Append(log, p))
<1>1. Len(log) \in Nat /\ log \in Seq(Piece)
  BY DEF LogInv
<1>2. p \in Piece /\ p.line = (Len(log) \div 2) + 1 /\ p.last = second /\ p.noise = noise
  BY <1>1, FilterAssumption DEF Piece
<1>3. Position(p) = Len(log) + 1
  <2>1. CASE log = <<>>
    <3>1. Len(log) = 0 /\ ~second
      BY <2>1
    <3>2. 0 \div 2 = 0
      OBVIOUS
    <3>3. p.line = 1 /\ ~p.last
      BY <3>1, <3>2, <1>2
    <3>4. QED
      BY <3>1, <3>3 DEF Position
  <2>2. CASE log # <<>>
    <3>1. PICK q \in Piece : q = log[Len(log)] /\ Position(q) = Len(log) /\ Last(log) = q
      BY <2>2, <1>1 DEF LogInv, Last
    <3>2. second = ~q.last
      BY <3>1, <2>2
    <3>3. PICK n \in Nat : n = Len(log)
      BY <1>1
    <3>4. PICK i \in Nat : i = q.line
      BY PieceFields
    <3>5. CASE q.last
      <4>1. n = 2 * i
        BY <3>5, <3>1, <3>3, <3>4, PieceFields
      <4>2. n \div 2 = i
        BY <4>1
      <4>3. ~p.last /\ p.line = i + 1
        BY <1>2, <3>2, <3>3, <3>5, <4>2
      <4>4. QED
        BY <4>1, <4>3, <3>3, PieceFields, <1>2
    <3>6. CASE ~q.last
      <4>1. n = 2 * i - 1
        BY <3>6, <3>1, <3>3, <3>4, PieceFields
      <4>2. i >= 1
        BY <3>4, PieceFields
      <4>3. PICK m \in Nat : m = i - 1
        BY <4>2
      <4>4. n = 2 * m + 1
        BY <4>1, <4>3
      <4>5. (2 * m + 1) \div 2 = m
        OBVIOUS
      <4>6. p.last /\ p.line = m + 1
        BY <1>2, <3>2, <3>3, <3>6, <4>4, <4>5
      <4>7. Position(p) = 2 * (m + 1)
        BY <4>6 DEF Position
      <4>8. QED
        BY <4>4, <4>7, <3>3
    <3>7. QED
      BY <3>5, <3>6
  <2>3. QED
    BY <2>1, <2>2
<1>4. PICK n : n = Append(log, p)
  OBVIOUS
<1>5. /\ n \in Seq(Piece) /\ Len(n) = Len(log) + 1 /\ n[Len(log) + 1] = p
      /\ \A k \in 1..Len(log) : n[k] = log[k]
  BY <1>1, <1>2, <1>4, AppendProperties
<1>6. ASSUME NEW k \in 1..Len(n)
      PROVE  Position(n[k]) = k /\ (n[k].last => n[k - 1].noise = n[k].noise)
  <2>1. CASE k \in 1..Len(log)
    <3>1. n[k] = log[k] /\ Position(n[k]) = k
      BY <2>1, <1>5 DEF LogInv
    <3>2. ASSUME n[k].last
          PROVE  n[k - 1].noise = n[k].noise
      <4>1. k > 1 /\ log[k - 1].noise = log[k].noise
        BY <2>1, <3>1, <3>2, Halves DEF LogInv
      <4>2. k - 1 \in 1..Len(log)
        BY <4>1, <2>1, <1>1
      <4>3. QED
        BY <4>1, <4>2, <3>1, <1>5
    <3>3. QED
      BY <3>1, <3>2
  <2>2. CASE k = Len(log) + 1
    <3>1. n[k] = p
      BY <2>2, <1>5
    <3>2. ASSUME p.last
          PROVE  n[k - 1].noise = p.noise
      <4>1. log # <<>> /\ noise = Last(log).noise
        BY <3>2, <1>2
      <4>2. k - 1 = Len(log) /\ Len(log) \in 1..Len(log)
        BY <4>1, <2>2, <1>1, EmptySeq
      <4>3. QED
        BY <4>1, <4>2, <1>2, <1>5 DEF Last
    <3>3. QED
      BY <3>1, <3>2, <2>2, <1>3
  <2>3. QED
    BY <2>1, <2>2, <1>1, <1>5
<1>7. LogInv(n)
  BY <1>5, <1>6 DEF LogInv
<1>8. QED
  BY <1>2, <1>3, <1>4, <1>7


-----------------------------------------------------------------------------
\* n is log with one more piece.
Longer(n, log, p) ==
    Len(n) = Len(log) + 1 /\ n[Len(log) + 1] = p /\ \A k \in 1..Len(log) : n[k] = log[k]

\* A piece that goes into the pipe is held.
LEMMA AccountsPiped ==
  ASSUME NEW log, LogInv(log), NEW n, NEW p, Longer(n, log, p), NEW sh, NEW lo \in Nat,
         lo <= Len(log), Accounts(log, sh, lo, Len(log))
  PROVE  Accounts(n, sh, lo, Len(log) + 1)
<1>1. PICK l \in Nat : l = Len(log)
  BY DEF LogInv
<1>2. Len(n) = l + 1 /\ \A k \in 1..l : n[k] = log[k]
  BY <1>1 DEF Longer
<1>3. ASSUME NEW k
      PROVE  Missing(n, sh, lo, l + 1, k) <=> Missing(log, sh, lo, l, k)
  BY <1>1, <1>2 DEF Missing
<1>4. ASSUME NEW j \in 1..Len(sh)
      PROVE  \E k \in 1..Len(n) : (k <= lo \/ k > l + 1) /\ sh[j] = n[k]
  <2>1. PICK k \in 1..l : (k <= lo \/ k > l) /\ sh[j] = log[k]
    BY <1>1 DEF Accounts
  <2>2. k \in 1..Len(n) /\ k <= lo /\ n[k] = log[k]
    BY <2>1, <1>1, <1>2
  <2>3. QED
    BY <2>1, <2>2
<1>5. ASSUME NEW k \in 1..Len(n), Missing(n, sh, lo, l + 1, k)
      PROVE  /\ n[k].noise
             /\ \E m \in 1..Len(n) : m # k /\ n[m].line = n[k].line /\ Missing(n, sh, lo, l + 1, m)
  <2>1. Missing(log, sh, lo, l, k) /\ k \in 1..l
    BY <1>1, <1>3, <1>5 DEF Missing
  <2>2. PICK m \in 1..l : m # k /\ log[m].line = log[k].line /\ Missing(log, sh, lo, l, m)
    BY <2>1, <1>1 DEF Accounts
  <2>3. log[k].noise
    BY <2>1, <1>1 DEF Accounts
  <2>4. m \in 1..Len(n) /\ n[m] = log[m] /\ n[k] = log[k] /\ Missing(n, sh, lo, l + 1, m)
    BY <2>1, <2>2, <1>2, <1>3
  <2>5. QED
    BY <2>2, <2>3, <2>4
<1>6. QED
  BY <1>1, <1>4, <1>5 DEF Accounts

\* A piece that goes to the original descriptor is shown.
LEMMA AccountsDirect ==
  ASSUME NEW log, LogInv(log), NEW n, NEW p \in Piece, Longer(n, log, p), Position(p) = Len(log) + 1,
         NEW sh \in Seq(Piece), NEW lo \in Nat, NEW hi \in Nat, lo <= hi, hi <= Len(log),
         Accounts(log, sh, lo, hi), NEW to, to = Append(sh, p)
  PROVE  Accounts(n, to, lo, hi)
<1>1. PICK l \in Nat : l = Len(log)
  BY DEF LogInv
<1>2. Len(n) = l + 1 /\ n[l + 1] = p /\ \A k \in 1..l : n[k] = log[k]
  BY <1>1 DEF Longer
<1>3. PICK h \in Nat : h = Len(sh)
  BY LenProperties
<1>4. Len(to) = h + 1 /\ to[h + 1] = p /\ \A j \in 1..h : to[j] = sh[j]
  BY <1>3, AppendProperties
<1>5. ASSUME NEW k \in 1..l
      PROVE  log[k] # p
  <2>1. Position(log[k]) = k
    BY <1>1 DEF LogInv
  <2>2. QED
    BY <2>1, <1>1
<1>6. ASSUME NEW k
      PROVE  Missing(n, to, lo, hi, k) <=> Missing(log, sh, lo, hi, k)
  <2>1. ASSUME Missing(n, to, lo, hi, k)
        PROVE  Missing(log, sh, lo, hi, k)
    <3>1. k \in 1..(l + 1) /\ to[h + 1] # n[k] /\ \A j \in 1..h : to[j] # n[k]
      BY <2>1, <1>2, <1>4 DEF Missing
    <3>2. k \in 1..l
      BY <3>1, <1>2, <1>4
    <3>3. QED
      BY <2>1, <3>1, <3>2, <1>1, <1>2, <1>3, <1>4 DEF Missing
  <2>2. ASSUME Missing(log, sh, lo, hi, k)
        PROVE  Missing(n, to, lo, hi, k)
    <3>1. k \in 1..l /\ \A j \in 1..h : sh[j] # log[k]
      BY <2>2, <1>1, <1>3 DEF Missing
    <3>2. n[k] = log[k] /\ log[k] # p
      BY <3>1, <1>2, <1>5
    <3>3. \A j \in 1..(h + 1) : to[j] # n[k]
      BY <3>1, <3>2, <1>4
    <3>4. QED
      BY <2>2, <3>1, <3>3, <1>2, <1>4 DEF Missing
  <2>3. QED
    BY <2>1, <2>2
<1>7. ASSUME NEW j \in 1..Len(to)
      PROVE  \E k \in 1..Len(n) : (k <= lo \/ k > hi) /\ to[j] = n[k]
  <2>1. CASE j = h + 1
    <3>1. l + 1 \in 1..Len(n) /\ l + 1 > hi /\ to[j] = n[l + 1]
      BY <2>1, <1>1, <1>2, <1>4
    <3>2. QED
      BY <3>1
  <2>2. CASE j \in 1..h
    <3>1. PICK k \in 1..l : (k <= lo \/ k > hi) /\ sh[j] = log[k]
      BY <2>2, <1>1, <1>3 DEF Accounts
    <3>2. k \in 1..Len(n) /\ to[j] = n[k]
      BY <2>2, <3>1, <1>2, <1>4
    <3>3. QED
      BY <3>1, <3>2
  <2>3. QED
    BY <2>1, <2>2, <1>4
<1>8. ASSUME NEW i \in 1..Len(to), NEW j \in 1..Len(to), to[i] = to[j]
      PROVE  i = j
  <2>1. ASSUME NEW a \in 1..h
        PROVE  sh[a] # p
    <3>1. PICK k \in 1..l : sh[a] = log[k]
      BY <2>1, <1>1, <1>3 DEF Accounts
    <3>2. QED
      BY <3>1, <1>5
  <2>2. CASE i \in 1..h /\ j \in 1..h
    BY <2>2, <1>8, <1>3, <1>4 DEF Accounts
  <2>3. CASE i = h + 1 \/ j = h + 1
    BY <2>3, <2>1, <1>8, <1>4
  <2>4. QED
    BY <2>2, <2>3, <1>4
<1>9. ASSUME NEW k \in 1..Len(n), Missing(n, to, lo, hi, k)
      PROVE  /\ n[k].noise
             /\ \E m \in 1..Len(n) : m # k /\ n[m].line = n[k].line /\ Missing(n, to, lo, hi, m)
  <2>1. Missing(log, sh, lo, hi, k) /\ k \in 1..l
    BY <1>1, <1>6, <1>9 DEF Missing
  <2>2. PICK m \in 1..l : m # k /\ log[m].line = log[k].line /\ Missing(log, sh, lo, hi, m)
    BY <2>1, <1>1 DEF Accounts
  <2>3. log[k].noise
    BY <2>1, <1>1 DEF Accounts
  <2>4. m \in 1..Len(n) /\ n[m] = log[m] /\ n[k] = log[k] /\ Missing(n, to, lo, hi, m)
    BY <2>1, <2>2, <1>2, <1>6
  <2>5. QED
    BY <2>2, <2>3, <2>4
<1>10. QED
  BY <1>7, <1>8, <1>9 DEF Accounts

\* The first pieces that are held are shown.
LEMMA AccountsShown ==
  ASSUME NEW log, LogInv(log), NEW sh \in Seq(Piece), NEW lo \in Nat, NEW hi \in Nat, hi <= Len(log),
         NEW q \in Seq(Piece), lo + Len(q) <= hi, \A i \in 1..Len(q) : q[i] = log[lo + i],
         Accounts(log, sh, lo, hi), NEW to, to = sh \o q
  PROVE  Accounts(log, to, lo + Len(q), hi)
<1>1. PICK l \in Nat : l = Len(log)
  BY DEF LogInv
<1>2. PICK h \in Nat : h = Len(sh)
  BY LenProperties
<1>3. PICK c \in Nat : c = Len(q)
  BY LenProperties
<1>4. /\ Len(to) = h + c
      /\ \A j \in 1..h : to[j] = sh[j]
      /\ \A j \in 1..Len(to) : j > h => to[j] = q[j - h]
  BY <1>2, <1>3, ConcatProperties
<1>5. \A i \in 1..c : lo + i \in 1..l /\ q[i] = log[lo + i]
  BY <1>1, <1>3
<1>6. \A j \in 1..Len(to) : j > h => j - h \in 1..c /\ to[j] = log[lo + (j - h)] /\ lo + (j - h) \in 1..l
  <2>1. TAKE j \in 1..Len(to)
  <2>2. HAVE j > h
  <2>3. PICK i \in 1..c : i = j - h
    BY <2>2, <1>4
  <2>4. QED
    BY <2>2, <2>3, <1>4, <1>5
<1>7. ASSUME NEW j \in 1..h
      PROVE  \E k \in 1..l : (k <= lo \/ k > hi) /\ to[j] = log[k]
  <2>1. PICK k \in 1..l : (k <= lo \/ k > hi) /\ sh[j] = log[k]
    BY <1>1, <1>2 DEF Accounts
  <2>2. QED
    BY <2>1, <1>4
<1>8. ASSUME NEW j \in 1..Len(to)
      PROVE  \E k \in 1..Len(log) : (k <= lo + c \/ k > hi) /\ to[j] = log[k]
  <2>1. CASE j \in 1..h
    <3>1. PICK k \in 1..l : (k <= lo \/ k > hi) /\ to[j] = log[k]
      BY <2>1, <1>7
    <3>2. k <= lo => k <= lo + c
      OBVIOUS
    <3>3. QED
      BY <3>1, <3>2, <1>1
  <2>2. CASE j > h
    <3>1. PICK k \in 1..l : k = lo + (j - h)
      BY <2>2, <1>6
    <3>2. k <= lo + c /\ to[j] = log[k]
      BY <2>2, <3>1, <1>6
    <3>3. QED
      BY <3>2, <1>1
  <2>3. QED
    BY <2>1, <2>2
<1>9. ASSUME NEW i \in 1..Len(to), NEW j \in 1..Len(to), to[i] = to[j]
      PROVE  i = j
  <2>1. ASSUME NEW a \in 1..h, NEW b \in 1..Len(to), b > h
        PROVE  to[a] # to[b]
    <3>1. PICK k \in 1..l : (k <= lo \/ k > hi) /\ to[a] = log[k]
      BY <1>7
    <3>2. PICK m \in 1..l : m = lo + (b - h) /\ to[b] = log[m]
      BY <2>1, <1>6
    <3>3. m > lo /\ m <= hi
      BY <2>1, <3>2, <1>4, <1>3
    <3>4. k # m
      BY <3>1, <3>3
    <3>5. QED
      BY <3>1, <3>2, <3>4, <1>1, PieceOnce
  <2>2. CASE i \in 1..h /\ j \in 1..h
    BY <2>2, <1>9, <1>2, <1>4 DEF Accounts
  <2>3. CASE i > h /\ j > h
    <3>1. PICK k \in 1..l : k = lo + (i - h) /\ to[i] = log[k]
      BY <2>3, <1>6
    <3>2. PICK m \in 1..l : m = lo + (j - h) /\ to[j] = log[m]
      BY <2>3, <1>6
    <3>3. k = m
      BY <3>1, <3>2, <1>9, <1>1, PieceOnce
    <3>4. lo + (i - h) = lo + (j - h)
      BY <3>1, <3>2, <3>3
    <3>5. i \in Nat /\ j \in Nat
      BY <1>4
    <3>6. QED
      BY <3>4, <3>5
  <2>4. CASE i \in 1..h /\ j > h
    BY <2>1, <2>4, <1>9
  <2>5. CASE j \in 1..h /\ i > h
    BY <2>1, <2>5, <1>9
  <2>6. QED
    BY <2>2, <2>3, <2>4, <2>5, <1>4
<1>10. ASSUME NEW k
       PROVE  Missing(log, to, lo + c, hi, k) <=> Missing(log, sh, lo, hi, k)
  <2>1. ASSUME Missing(log, to, lo + c, hi, k)
        PROVE  Missing(log, sh, lo, hi, k)
    <3>1. k \in 1..l /\ (k <= lo + c \/ k > hi) /\ \A j \in 1..(h + c) : to[j] # log[k]
      BY <2>1, <1>1, <1>4 DEF Missing
    <3>2. \A j \in 1..h : sh[j] # log[k]
      BY <3>1, <1>4
    <3>3. k <= lo \/ k > hi
      <4>1. SUFFICES ASSUME k > lo, k <= lo + c
                     PROVE  FALSE
        BY <3>1
      <4>2. PICK j \in 1..Len(to) : j = h + (k - lo)
        BY <4>1, <3>1, <1>4
      <4>3. j > h /\ lo + (j - h) = k
        BY <4>1, <4>2, <3>1
      <4>4. to[j] = log[k]
        BY <4>2, <4>3, <1>6
      <4>5. QED
        BY <4>4, <4>2, <3>1, <1>4
    <3>4. QED
      BY <3>1, <3>2, <3>3, <1>1, <1>2 DEF Missing
  <2>2. ASSUME Missing(log, sh, lo, hi, k)
        PROVE  Missing(log, to, lo + c, hi, k)
    <3>1. k \in 1..l /\ (k <= lo \/ k > hi) /\ \A j \in 1..h : sh[j] # log[k]
      BY <2>2, <1>1, <1>2 DEF Missing
    <3>2. ASSUME NEW j \in 1..Len(to)
          PROVE  to[j] # log[k]
      <4>1. CASE j \in 1..h
        BY <4>1, <3>1, <1>4
      <4>2. CASE j > h
        <5>1. PICK m \in 1..l : m = lo + (j - h) /\ to[j] = log[m]
          BY <4>2, <1>6
        <5>2. m > lo /\ m <= hi
          BY <4>2, <5>1, <1>4, <1>3
        <5>3. k # m
          BY <3>1, <5>2
        <5>4. QED
          BY <5>1, <5>3, <3>1, <1>1, PieceOnce
      <4>3. QED
        BY <4>1, <4>2
    <3>3. QED
      BY <3>1, <3>2, <1>1 DEF Missing
  <2>3. QED
    BY <2>1, <2>2
<1>11. ASSUME NEW k \in 1..Len(log), Missing(log, to, lo + c, hi, k)
       PROVE  /\ log[k].noise
              /\ \E m \in 1..Len(log) : m # k /\ log[m].line = log[k].line /\ Missing(log, to, lo + c, hi, m)
  <2>1. Missing(log, sh, lo, hi, k)
    BY <1>10, <1>11
  <2>2. QED
    BY <2>1, <1>10 DEF Accounts
<1>12. QED
  BY <1>3, <1>8, <1>9, <1>11 DEF Accounts

\* A line of noise that is held is dropped.
LEMMA AccountsDropped ==
  ASSUME NEW log, LogInv(log), NEW sh, NEW lo \in Nat, NEW hi \in Nat, hi <= Len(log), lo + 2 <= hi,
         log[lo + 1].noise, log[lo + 2].noise, log[lo + 1].line = log[lo + 2].line,
         Accounts(log, sh, lo, hi)
  PROVE  Accounts(log, sh, lo + 2, hi)
<1>1. PICK l \in Nat : l = Len(log)
  BY DEF LogInv
<1>2. PICK a \in 1..l : a = lo + 1
  BY <1>1
<1>3. PICK b \in 1..l : b = lo + 2
  BY <1>1
<1>4. ASSUME NEW j \in 1..Len(sh)
      PROVE  \E k \in 1..Len(log) : (k <= lo \/ k > hi) /\ sh[j] = log[k]
  BY DEF Accounts
<1>5. ASSUME NEW m \in {a, b}
      PROVE  Missing(log, sh, lo + 2, hi, m)
  <2>1. ASSUME NEW j \in 1..Len(sh)
        PROVE  sh[j] # log[m]
    <3>1. PICK k \in 1..l : (k <= lo \/ k > hi) /\ sh[j] = log[k]
      BY <1>1, <1>4
    <3>2. m \in 1..l /\ k # m
      BY <3>1, <1>2, <1>3
    <3>3. QED
      BY <3>1, <3>2, <1>1, PieceOnce
  <2>2. m \in 1..l /\ m <= lo + 2
    BY <1>2, <1>3
  <2>3. QED
    BY <2>1, <2>2, <1>1 DEF Missing
<1>6. ASSUME NEW k, Missing(log, sh, lo, hi, k)
      PROVE  Missing(log, sh, lo + 2, hi, k)
  BY <1>6, <1>1 DEF Missing
<1>7. ASSUME NEW k \in 1..Len(log), Missing(log, sh, lo + 2, hi, k)
      PROVE  /\ log[k].noise
             /\ \E m \in 1..Len(log) : m # k /\ log[m].line = log[k].line /\ Missing(log, sh, lo + 2, hi, m)
  <2>1. CASE k = a
    BY <2>1, <1>1, <1>2, <1>3, <1>5
  <2>2. CASE k = b
    BY <2>2, <1>1, <1>2, <1>3, <1>5
  <2>3. CASE k # a /\ k # b
    <3>1. Missing(log, sh, lo, hi, k)
      BY <2>3, <1>7, <1>1, <1>2, <1>3 DEF Missing
    <3>2. PICK m \in 1..Len(log) : m # k /\ log[m].line = log[k].line /\ Missing(log, sh, lo, hi, m)
      BY <3>1 DEF Accounts
    <3>3. log[k].noise
      BY <3>1 DEF Accounts
    <3>4. QED
      BY <3>2, <3>3, <1>6
  <2>4. QED
    BY <2>1, <2>2, <2>3
<1>8. ASSUME NEW j \in 1..Len(sh)
      PROVE  \E k \in 1..Len(log) : (k <= lo + 2 \/ k > hi) /\ sh[j] = log[k]
  <2>1. PICK k \in 1..l : (k <= lo \/ k > hi) /\ sh[j] = log[k]
    BY <1>1, <1>4
  <2>2. QED
    BY <2>1, <1>1
<1>9. QED
  BY <1>7, <1>8 DEF Accounts

-----------------------------------------------------------------------------
\* What is shown comes before what is held.
LEMMA ShownBefore ==
  ASSUME NEW log, LogInv(log), NEW sh, NEW lo \in Nat, Accounts(log, sh, lo, Len(log)),
         NEW j \in 1..Len(sh)
  PROVE  Position(sh[j]) \in Nat /\ Position(sh[j]) <= lo
<1>1. PICK k \in 1..Len(log) : (k <= lo \/ k > Len(log)) /\ sh[j] = log[k]
  BY DEF Accounts
<1>2. Position(sh[j]) = k
  BY <1>1 DEF LogInv
<1>3. Len(log) \in Nat
  BY DEF LogInv
<1>4. QED
  BY <1>1, <1>2, <1>3

\* What follows in the log may be shown next.
LEMMA OrderGrows ==
  ASSUME NEW sh \in Seq(Piece), InOrder(sh), NEW q \in Seq(Piece), NEW lo \in Nat,
         \A j \in 1..Len(sh) : Position(sh[j]) \in Nat /\ Position(sh[j]) <= lo,
         \A i \in 1..Len(q) : Position(q[i]) = lo + i,
         NEW to, to = sh \o q
  PROVE  InOrder(to)
<1>1. PICK h \in Nat : h = Len(sh)
  BY LenProperties
<1>2. PICK c \in Nat : c = Len(q)
  BY LenProperties
<1>3. /\ Len(to) = h + c
      /\ \A j \in 1..h : to[j] = sh[j]
      /\ \A j \in 1..Len(to) : j > h => to[j] = q[j - h]
  BY <1>1, <1>2, ConcatProperties
<1>4. ASSUME NEW j \in 1..Len(to), j > h
      PROVE  Position(to[j]) = lo + (j - h)
  <2>1. PICK i \in 1..c : i = j - h
    BY <1>3, <1>4
  <2>2. QED
    BY <2>1, <1>2, <1>3, <1>4
<1>5. ASSUME NEW i \in 1..Len(to), NEW j \in 1..Len(to), i < j
      PROVE  Position(to[i]) < Position(to[j])
  <2>1. CASE j \in 1..h
    <3>1. i \in 1..h
      BY <2>1, <1>5
    <3>2. QED
      BY <2>1, <3>1, <1>1, <1>3, <1>5 DEF InOrder
  <2>2. CASE i \in 1..h /\ j > h
    <3>1. PICK a \in Nat : a = Position(to[i]) /\ a <= lo
      BY <2>2, <1>1, <1>3
    <3>2. Position(to[j]) = lo + (j - h) /\ j - h > 0
      BY <2>2, <1>4
    <3>3. QED
      BY <3>1, <3>2, <1>3
  <2>3. CASE i > h /\ j > h
    <3>1. Position(to[i]) = lo + (i - h) /\ Position(to[j]) = lo + (j - h)
      BY <2>3, <1>4
    <3>2. QED
      BY <3>1, <1>5, <1>3
  <2>4. QED
    BY <2>1, <2>2, <2>3, <1>3
<1>6. QED
  BY <1>5 DEF InOrder

\* When nothing is held it does not matter where.
LEMMA HeldNowhere ==
  ASSUME NEW log, NEW sh, NEW lo \in Nat, Accounts(log, sh, lo, lo), Len(log) \in Nat
  PROVE  Accounts(log, sh, Len(log), Len(log))
<1>1. PICK l \in Nat : l = Len(log)
  OBVIOUS
<1>2. ASSUME NEW k
      PROVE  Missing(log, sh, l, l, k) <=> Missing(log, sh, lo, lo, k)
  BY <1>1 DEF Missing
<1>3. ASSUME NEW j \in 1..Len(sh)
      PROVE  \E k \in 1..Len(log) : (k <= l \/ k > l) /\ sh[j] = log[k]
  BY <1>1 DEF Accounts
<1>4. ASSUME NEW k \in 1..Len(log), Missing(log, sh, l, l, k)
      PROVE  /\ log[k].noise
             /\ \E m \in 1..Len(log) : m # k /\ log[m].line = log[k].line /\ Missing(log, sh, l, l, m)
  <2>1. Missing(log, sh, lo, lo, k)
    BY <1>2, <1>4
  <2>2. QED
    BY <2>1, <1>2 DEF Accounts
<1>5. QED
  BY <1>1, <1>3, <1>4 DEF Accounts

\* Nothing is held while there is no thread, or it has ended.
LEMMA NothingHeld ==
  ASSUME FilterInv, reader.at \in {"none", "ended"}
  PROVE  PiecesSound(Len(logged), Len(logged))
<1>1. PICK lo, hi \in Nat : PiecesSound(lo, hi)
  BY DEF FilterInv
<1>2. pipe = <<>> /\ reader.pending = <<>>
  BY DEF FilterInv, PhasesFit
<1>3. Len(logged) \in Nat
  BY DEF FilterInv, LogInv
<1>4. hi = lo
  BY <1>1, <1>2 DEF PiecesSound, Segment
<1>5. Accounts(logged, shown, Len(logged), Len(logged))
  BY <1>1, <1>3, <1>4, HeldNowhere DEF PiecesSound
<1>6. Segment(logged, reader.pending, pipe, Len(logged), Len(logged))
  BY <1>2, <1>3 DEF Segment
<1>7. QED
  BY <1>1, <1>5, <1>6 DEF PiecesSound

-----------------------------------------------------------------------------
\* Nothing is logged and nothing is held.
LEMMA FilterStarts == FilterInit => FilterInv
<1>1. SUFFICES ASSUME FilterInit
               PROVE  FilterInv
  OBVIOUS
<1>2. PICK e \in Seq(Piece) : e = <<>> /\ Len(e) = 0
  BY EmptySeq
<1>3. /\ logged = e /\ shown = e /\ pipe = e /\ reader = [at |-> "none", pending |-> e]
      /\ filterEnv \in FilterScenarios /\ target = "original" /\ writeEnd = FALSE
      /\ filter = [at |-> "idle", started |-> FALSE]
  <2>1. /\ logged = <<>> /\ shown = <<>> /\ pipe = <<>> /\ reader = [at |-> "none", pending |-> <<>>]
        /\ filterEnv \in FilterScenarios /\ target = "original" /\ writeEnd = FALSE
        /\ filter = [at |-> "idle", started |-> FALSE]
    BY <1>1 DEF FilterInit
  <2>2. e = <<>>
    BY <1>2
  <2>3. QED
    BY <2>1, <2>2, Zenon
<1>4. FilterTypeOK
  <2>1. reader \in [at : {"none", "read", "lines", "ended"}, pending : Seq(Piece)]
    BY <1>2, <1>3
  <2>2. filter \in [at : {"idle", "restored", "joining"}, started : BOOLEAN]
    BY <1>3
  <2>3. Len(pipe) <= Capacity
    BY <1>2, <1>3, FilterAssumption
  <2>4. QED
    BY <2>1, <2>2, <2>3, <1>2, <1>3 DEF FilterTypeOK
<1>5. LogInv(logged)
  BY <1>2, <1>3 DEF LogInv
<1>6. PhasesFit
  BY <1>2, <1>3 DEF PhasesFit
<1>7. PiecesSound(0, 0)
  <2>1. reader.pending = e
    BY <1>3
  <2>2. Segment(e, e, e, 0, 0)
    BY <1>2 DEF Segment
  <2>3. Accounts(e, e, 0, 0)
    BY <1>2 DEF Accounts
  <2>4. InOrder(e)
    BY <1>2 DEF InOrder
  <2>5. QED
    BY <2>1, <2>2, <2>3, <2>4, <1>2, <1>3 DEF PiecesSound
<1>8. QED
  BY <1>4, <1>5, <1>6, <1>7 DEF FilterInv

\* What is held, with one more piece.
LEMMA SegmentPiped ==
  ASSUME NEW log \in Seq(Piece), NEW n, NEW p \in Piece, Longer(n, log, p), NEW pe \in Seq(Piece),
         NEW pi \in Seq(Piece), NEW lo \in Nat, Segment(log, pe, pi, lo, Len(log)),
         NEW qi, qi = Append(pi, p)
  PROVE  Segment(n, pe, qi, lo, Len(log) + 1)
<1>1. PICK a \in Nat : a = Len(pe)
  BY LenProperties
<1>2. PICK b \in Nat : b = Len(pi)
  BY LenProperties
<1>3. PICK l \in Nat : l = Len(log)
  BY LenProperties
<1>4. l = lo + a + b
  BY <1>1, <1>2, <1>3 DEF Segment
<1>5. Len(qi) = b + 1 /\ qi[b + 1] = p /\ \A i \in 1..b : qi[i] = pi[i]
  BY <1>2, AppendProperties
<1>6. Len(n) = l + 1 /\ n[l + 1] = p /\ \A k \in 1..l : n[k] = log[k]
  BY <1>3 DEF Longer
<1>7. ASSUME NEW i \in 1..a
      PROVE  pe[i] = n[lo + i]
  <2>1. PICK k \in 1..l : k = lo + i
    BY <1>4
  <2>2. pe[i] = log[lo + i]
    BY <1>1 DEF Segment
  <2>3. log[k] = n[k]
    BY <1>6
  <2>4. QED
    BY <2>1, <2>2, <2>3
<1>8. ASSUME NEW i \in 1..(b + 1)
      PROVE  qi[i] = n[lo + a + i]
  <2>1. CASE i \in 1..b
    <3>1. PICK k \in 1..l : k = lo + a + i
      BY <2>1, <1>4
    <3>2. pi[i] = log[k]
      BY <2>1, <3>1, <1>1, <1>2 DEF Segment
    <3>3. qi[i] = pi[i] /\ n[k] = log[k]
      BY <2>1, <1>5, <1>6
    <3>4. QED
      BY <3>1, <3>2, <3>3
  <2>2. CASE i = b + 1
    <3>1. lo + a + i = l + 1
      BY <2>2, <1>4
    <3>2. qi[i] = p
      BY <2>2, <1>5
    <3>3. QED
      BY <3>1, <3>2, <1>6
  <2>3. i \in 1..b \/ i = b + 1
    OBVIOUS
  <2>4. QED
    BY <2>1, <2>2, <2>3
<1>9. l + 1 = lo + Len(pe) + Len(qi) /\ l + 1 <= Len(n)
  BY <1>1, <1>4, <1>5, <1>6
<1>10. \A i \in 1..Len(qi) : qi[i] = n[lo + Len(pe) + i]
  BY <1>1, <1>5, <1>8
<1>11. \A i \in 1..Len(pe) : pe[i] = n[lo + i]
  BY <1>1, <1>7
<1>12. QED
  BY <1>3, <1>9, <1>10, <1>11 DEF Segment

\* What is held, with one more piece in the log only.
LEMMA SegmentStays ==
  ASSUME NEW log \in Seq(Piece), NEW n, NEW p, Longer(n, log, p), NEW pe \in Seq(Piece),
         NEW pi \in Seq(Piece), NEW lo \in Nat, NEW hi \in Nat, Segment(log, pe, pi, lo, hi)
  PROVE  Segment(n, pe, pi, lo, hi)
<1>1. PICK a \in Nat : a = Len(pe)
  BY LenProperties
<1>2. PICK b \in Nat : b = Len(pi)
  BY LenProperties
<1>3. PICK l \in Nat : l = Len(log)
  BY LenProperties
<1>4. hi = lo + a + b /\ hi <= l
  BY <1>1, <1>2, <1>3 DEF Segment
<1>5. Len(n) = l + 1 /\ \A k \in 1..l : n[k] = log[k]
  BY <1>3 DEF Longer
<1>6. \A i \in 1..a : lo + i \in 1..l /\ pe[i] = n[lo + i]
  BY <1>1, <1>4, <1>5 DEF Segment
<1>7. \A i \in 1..b : lo + a + i \in 1..l /\ pi[i] = n[lo + a + i]
  BY <1>1, <1>2, <1>4, <1>5 DEF Segment
<1>8. QED
  BY <1>1, <1>2, <1>4, <1>5, <1>6, <1>7 DEF Segment

\* Something is logged, into the pipe or to the original descriptor.
LEMMA WriteKeeps ==
  ASSUME FilterInv, WriteLog
  PROVE  FilterInv'
<1>1. /\ FilterTypeOK /\ LogInv(logged) /\ PhasesFit
      /\ logged \in Seq(Piece) /\ shown \in Seq(Piece) /\ pipe \in Seq(Piece) /\ reader.pending \in Seq(Piece)
  BY DEF FilterInv, FilterTypeOK
<1>2. PICK lo \in Nat, hi \in Nat : PiecesSound(lo, hi)
  BY DEF FilterInv
<1>3. PICK second \in BOOLEAN : second = (logged # <<>> /\ ~Last(logged).last)
  OBVIOUS
<1>4. PICK noise \in IF second THEN {Last(logged).noise} ELSE BOOLEAN :
         LET p == [line |-> (Len(logged) \div 2) + 1, noise |-> noise, last |-> second]
         IN /\ p.line <= MaxLines
            /\ logged' = Append(logged, p)
            /\ IF target = "pipe"
               THEN Len(pipe) < Capacity /\ pipe' = Append(pipe, p) /\ shown' = shown
               ELSE shown' = Append(shown, p) /\ pipe' = pipe
  BY <1>3 DEF WriteLog
<1>5. PICK p : p = [line |-> (Len(logged) \div 2) + 1, noise |-> noise, last |-> second]
  OBVIOUS
<1>6. /\ p.line <= MaxLines /\ logged' = Append(logged, p)
      /\ target = "pipe" => Len(pipe) < Capacity /\ pipe' = Append(pipe, p) /\ shown' = shown
      /\ target # "pipe" => shown' = Append(shown, p) /\ pipe' = pipe
  BY <1>4, <1>5
<1>7. noise \in BOOLEAN /\ (second => noise = Last(logged).noise)
  <2>1. CASE second
    <3>1. logged # <<>>
      BY <2>1, <1>3
    <3>2. Last(logged) \in Piece
      BY <3>1, <1>1 DEF Last
    <3>3. QED
      BY <2>1, <3>2, <1>4, PieceFields
  <2>2. QED
    BY <2>1, <1>4
<1>8. p \in Piece /\ Position(p) = Len(logged) + 1 /\ LogInv(Append(logged, p))
  BY <1>1, <1>3, <1>5, <1>6, <1>7, LogGrows
<1>9. PICK n : n = Append(logged, p)
  OBVIOUS
<1>10. n \in Seq(Piece) /\ Longer(n, logged, p) /\ LogInv(n)
  BY <1>1, <1>8, <1>9, AppendProperties DEF Longer
<1>11. logged' = n
  BY <1>6, <1>9
<1>12. UNCHANGED <<filterEnv, target, writeEnd, filter, reader>>
  BY DEF WriteLog
<1>13. CASE target = "pipe"
  <2>1. PICK q : q = Append(pipe, p)
    OBVIOUS
  <2>2. q \in Seq(Piece) /\ Len(q) <= Capacity /\ pipe' = q /\ shown' = shown
    BY <2>1, <1>1, <1>6, <1>8, <1>13, AppendProperties, FilterAssumption
  <2>3. FilterTypeOK'
    BY <2>2, <1>1, <1>10, <1>11, <1>12 DEF FilterTypeOK
  <2>4. LogInv(n)
    BY <1>10
  <2>5. PhasesFit'
    BY <1>1, <1>12, <1>13 DEF PhasesFit
  <2>6. hi = Len(logged) /\ lo <= hi
    BY <1>1, <1>2, <1>13, LenProperties DEF PiecesSound, Segment
  <2>7. Segment(n, reader.pending, q, lo, Len(logged) + 1)
    BY <2>1, <2>6, <1>1, <1>2, <1>8, <1>10, SegmentPiped DEF PiecesSound
  <2>8. Accounts(n, shown, lo, Len(logged) + 1)
    BY <2>6, <1>1, <1>2, <1>10, AccountsPiped DEF PiecesSound
  <2>9. Len(n) = Len(logged) + 1
    BY <1>10 DEF Longer
  <2>10. PiecesSound(lo, Len(n))'
    BY <2>2, <2>7, <2>8, <2>9, <1>2, <1>11, <1>12 DEF PiecesSound
  <2>11. Len(n) \in Nat
    BY <1>10, LenProperties
  <2>12. QED
    BY <2>3, <2>4, <2>5, <2>10, <2>11, <1>11 DEF FilterInv
<1>14. CASE target # "pipe"
  <2>1. PICK to : to = Append(shown, p)
    OBVIOUS
  <2>2. to \in Seq(Piece) /\ pipe' = pipe /\ shown' = to
    BY <2>1, <1>1, <1>6, <1>8, <1>14, AppendProperties
  <2>3. FilterTypeOK'
    BY <2>2, <1>1, <1>10, <1>11, <1>12 DEF FilterTypeOK
  <2>4. LogInv(n)
    BY <1>10
  <2>5. PhasesFit'
    BY <2>2, <1>1, <1>12 DEF PhasesFit
  <2>6. lo <= hi /\ hi <= Len(logged)
    BY <1>1, <1>2, LenProperties DEF PiecesSound, Segment
  <2>7. CASE "late" \in filterEnv
    <3>1. Segment(n, reader.pending, pipe, lo, hi)
      BY <1>1, <1>2, <1>10, SegmentStays DEF PiecesSound
    <3>2. Accounts(n, to, lo, hi)
      BY <2>1, <2>6, <1>1, <1>2, <1>8, <1>10, AccountsDirect DEF PiecesSound
    <3>3. PiecesSound(lo, hi)'
      BY <3>1, <3>2, <2>2, <2>7, <1>11, <1>12, <1>14 DEF PiecesSound
    <3>4. QED
      BY <3>3, <2>3, <2>4, <2>5, <1>11 DEF FilterInv
  <2>8. CASE "late" \notin filterEnv
    <3>1. filter.at = "idle"
      BY <2>8 DEF WriteLog
    <3>2. reader.at = "none" /\ pipe = <<>> /\ reader.pending = <<>>
      BY <3>1, <1>1, <1>14 DEF PhasesFit
    <3>3. PICK l \in Nat : l = Len(logged)
      BY <1>1, LenProperties
    <3>4. PiecesSound(l, l)
      BY <3>2, <3>3, NothingHeld
    <3>5. Accounts(n, to, l, l)
      <4>1. Accounts(logged, shown, l, l)
        BY <3>4 DEF PiecesSound
      <4>2. l <= l /\ l <= Len(logged)
        BY <3>3
      <4>3. QED
        BY <4>1, <4>2, <2>1, <1>1, <1>8, <1>10, AccountsDirect
    <3>6. Len(n) = l + 1 /\ Len(n) \in Nat
      BY <3>3, <1>10 DEF Longer
    <3>7. Accounts(n, to, Len(n), Len(n))
      BY <3>5, <3>6, HeldNowhere
    <3>8. Segment(n, reader.pending, pipe, Len(n), Len(n))
      BY <3>2, <3>6 DEF Segment
    <3>9. InOrder(to)
      <4>1. PICK q : q = <<p>>
        OBVIOUS
      <4>2. q \in Seq(Piece) /\ Len(q) = 1 /\ q[1] = p
        BY <4>1, <1>8
      <4>3. to = shown \o q
        BY <4>1, <2>1, <1>1, <1>8, AppendIsConcat
      <4>4. \A i \in 1..Len(q) : Position(q[i]) = l + i
        BY <4>2, <3>3, <1>8
      <4>5. \A j \in 1..Len(shown) : Position(shown[j]) \in Nat /\ Position(shown[j]) <= l
        BY <3>3, <3>4, <1>1, ShownBefore DEF PiecesSound
      <4>6. InOrder(shown)
        BY <3>4, <2>8 DEF PiecesSound
      <4>7. QED
        BY <4>2, <4>3, <4>4, <4>5, <4>6, <1>1, OrderGrows
    <3>10. PiecesSound(Len(n), Len(n))'
      BY <3>7, <3>8, <3>9, <2>2, <1>11, <1>12 DEF PiecesSound
    <3>11. QED
      BY <3>6, <3>10, <2>3, <2>4, <2>5, <1>11 DEF FilterInv
  <2>9. QED
    BY <2>7, <2>8
<1>15. QED
  BY <1>13, <1>14

\* The filter starts, stops and is joined.
LEMMA StartStopKeep ==
  ASSUME FilterInv, StartFilter \/ StopFilter \/ CloseWriteEnd \/ JoinReader
  PROVE  FilterInv'
<1>1. FilterTypeOK /\ LogInv(logged) /\ PhasesFit
  BY DEF FilterInv
<1>2. UNCHANGED <<filterEnv, pipe, logged, shown>>
  BY DEF StartFilter, StopFilter, CloseWriteEnd, JoinReader
<1>3. reader'.pending = reader.pending
  BY <1>1 DEF FilterTypeOK, StartFilter, StopFilter, CloseWriteEnd, JoinReader
<1>4. PICK lo \in Nat, hi \in Nat : PiecesSound(lo, hi) /\ (target' = "pipe" => hi = Len(logged))
  <2>1. CASE target' = "pipe" /\ target # "pipe"
    <3>1. StartFilter /\ reader.at = "none"
      BY <2>1 DEF StartFilter, StopFilter, CloseWriteEnd, JoinReader
    <3>2. PiecesSound(Len(logged), Len(logged))
      BY <3>1, NothingHeld
    <3>3. Len(logged) \in Nat
      BY <1>1, LenProperties DEF LogInv
    <3>4. QED
      BY <3>2, <3>3
  <2>2. CASE ~(target' = "pipe" /\ target # "pipe")
    <3>1. PICK lo \in Nat, hi \in Nat : PiecesSound(lo, hi)
      BY DEF FilterInv
    <3>2. QED
      BY <2>2, <3>1 DEF PiecesSound
  <2>3. QED
    BY <2>1, <2>2
<1>5. FilterTypeOK'
  <2>1. CASE StartFilter
    BY <2>1, <1>1, <1>2 DEF FilterTypeOK, StartFilter
  <2>2. CASE StopFilter
    BY <2>2, <1>1, <1>2 DEF FilterTypeOK, StopFilter
  <2>3. CASE CloseWriteEnd
    BY <2>3, <1>1, <1>2 DEF FilterTypeOK, CloseWriteEnd
  <2>4. CASE JoinReader
    BY <2>4, <1>1, <1>2 DEF FilterTypeOK, JoinReader
  <2>5. QED
    BY <2>1, <2>2, <2>3, <2>4
<1>6. PhasesFit'
  <2>1. CASE StartFilter
    BY <2>1, <1>1 DEF PhasesFit, FilterTypeOK, StartFilter
  <2>2. CASE StopFilter
    BY <2>2, <1>1 DEF PhasesFit, FilterTypeOK, StopFilter
  <2>3. CASE CloseWriteEnd
    BY <2>3, <1>1 DEF PhasesFit, FilterTypeOK, CloseWriteEnd
  <2>4. CASE JoinReader
    BY <2>4, <1>1 DEF PhasesFit, FilterTypeOK, JoinReader
  <2>5. QED
    BY <2>1, <2>2, <2>3, <2>4
<1>7. LogInv(logged)'
  BY <1>1, <1>2
<1>8. PiecesSound(lo, hi)'
  BY <1>2, <1>3, <1>4 DEF PiecesSound
<1>9. QED
  BY <1>5, <1>6, <1>7, <1>8 DEF FilterInv

\* q is the first c pieces of s.
FirstPieces(q, s, c) == q \in Seq(Piece) /\ Len(q) = c /\ \A i \in 1..c : q[i] = s[i]

\* So are those that SubSeq takes.
LEMMA FirstPiecesTaken ==
  ASSUME NEW s \in Seq(Piece), NEW c \in 1..Len(s), NEW q, q = SubSeq(s, 1, c)
  PROVE  FirstPieces(q, s, c)
<1>1. c \in Nat /\ c >= 1 /\ \A i \in 1..c : s[i] \in Piece
  BY ElementOfSeq, LenProperties
<1>2. q \in Seq(Piece) /\ Len(q) = c /\ \A i \in 1..c : q[i] = s[1 + i - 1]
  BY <1>1, SubSeqProperties
<1>3. \A i \in 1..c : 1 + i - 1 = i
  BY <1>1
<1>4. QED
  BY <1>2, <1>3 DEF FirstPieces

\* q is s without its first c pieces.
RestOf(q, s, c) == q \in Seq(Piece) /\ Len(q) = Len(s) - c /\ \A i \in 1..(Len(s) - c) : q[i] = s[c + i]

\* So is what SubSeq takes up to the end.
LEMMA RestTaken ==
  ASSUME NEW s \in Seq(Piece), NEW c \in 0..Len(s), NEW q, q = SubSeq(s, c + 1, Len(s))
  PROVE  RestOf(q, s, c)
<1>1. PICK a \in Nat : a = Len(s) /\ c \in 0..a
  BY LenProperties
<1>2. q \in Seq(Piece) /\ Len(q) = a - c /\ \A i \in 1..(a - c) : q[i] = s[c + i]
  BY <1>1, SubSeqProperties
<1>3. QED
  BY <1>1, <1>2 DEF RestOf

\* q is the pieces of s, and then those of f.
JoinOf(q, s, f) ==
    /\ q \in Seq(Piece) /\ Len(q) = Len(s) + Len(f)
    /\ \A i \in 1..Len(s) : q[i] = s[i]
    /\ \A i \in 1..(Len(s) + Len(f)) : i > Len(s) => q[i] = f[i - Len(s)]

\* So is what \o makes.
LEMMA PiecesJoined ==
  ASSUME NEW s \in Seq(Piece), NEW f \in Seq(Piece), NEW q, q = s \o f
  PROVE  JoinOf(q, s, f)
<1>1. PICK a \in Nat, c \in Nat : a = Len(s) /\ c = Len(f)
  BY LenProperties
<1>2. q \in Seq(Piece) /\ Len(q) = a + c
  BY <1>1, ConcatProperties
<1>3. \A i \in 1..(a + c) : q[i] = IF i <= a THEN s[i] ELSE f[i - a]
  BY <1>1, ConcatProperties
<1>4. \A i \in 1..a : i \in 1..(a + c) /\ i <= a
  BY <1>1
<1>5. \A i \in 1..(a + c) : i > a => ~(i <= a)
  BY <1>1
<1>6. QED
  BY <1>1, <1>2, <1>3, <1>4, <1>5 DEF JoinOf

\* What is held moves from the pipe to the thread.
LEMMA SegmentRead ==
  ASSUME NEW log, NEW pe \in Seq(Piece), NEW pi \in Seq(Piece), NEW lo \in Nat, NEW hi \in Nat,
         Segment(log, pe, pi, lo, hi), NEW c \in Nat, c \in 1..Len(pi),
         NEW f, FirstPieces(f, pi, c), NEW qe, JoinOf(qe, pe, f), NEW qi, RestOf(qi, pi, c)
  PROVE  /\ qe \in Seq(Piece) /\ qi \in Seq(Piece) /\ Len(qi) <= Len(pi)
         /\ Segment(log, qe, qi, lo, hi)
<1>1. PICK a \in Nat : a = Len(pe)
  BY LenProperties
<1>2. PICK b \in Nat : b = Len(pi) /\ c \in 1..b
  BY LenProperties
<1>3. c \in Nat /\ c <= b
  BY <1>2
<1>4. f \in Seq(Piece) /\ Len(f) = c /\ \A i \in 1..c : f[i] = pi[i]
  BY DEF FirstPieces
<1>5. qi \in Seq(Piece) /\ Len(qi) = b - c /\ \A i \in 1..(b - c) : qi[i] = pi[c + i]
  BY <1>2 DEF RestOf
<1>6. /\ qe \in Seq(Piece) /\ Len(qe) = a + c
      /\ \A i \in 1..a : qe[i] = pe[i]
      /\ \A i \in 1..(a + c) : i > a => qe[i] = f[i - a]
  BY <1>1, <1>4 DEF JoinOf
<1>7. lo \in Nat /\ hi = lo + a + b /\ hi <= Len(log)
  BY <1>1, <1>2 DEF Segment
<1>8. ASSUME NEW i \in 1..(a + c)
      PROVE  qe[i] = log[lo + i]
  <2>1. CASE i \in 1..a
    BY <2>1, <1>1, <1>6 DEF Segment
  <2>2. CASE i > a
    <3>1. PICK j \in 1..c : j = i - a
      BY <2>2
    <3>2. qe[i] = f[j] /\ f[j] = pi[j] /\ j \in 1..b
      BY <2>2, <3>1, <1>3, <1>4, <1>6
    <3>5. \A k \in 1..Len(pi) : pi[k] = log[lo + Len(pe) + k]
      BY DEF Segment
    <3>6. pi[j] = log[lo + a + j]
      BY <3>2, <3>5, <1>1, <1>2
    <3>3. lo + a + j = lo + i
      BY <3>1, <1>7
    <3>4. QED
      BY <3>2, <3>3, <3>6
  <2>3. i \in 1..a \/ i > a
    BY <1>2
  <2>4. QED
    BY <2>1, <2>2, <2>3
<1>9. ASSUME NEW i \in 1..(b - c)
      PROVE  qi[i] = log[lo + (a + c) + i]
  <2>1. PICK j \in 1..b : j = c + i
    BY <1>2
  <2>2. qi[i] = pi[j] /\ pi[j] = log[lo + a + j]
    BY <2>1, <1>1, <1>2, <1>5 DEF Segment
  <2>3. lo + a + j = lo + (a + c) + i
    BY <2>1, <1>7
  <2>4. QED
    BY <2>2, <2>3
<1>10. hi = lo + Len(qe) + Len(qi) /\ Len(qi) <= Len(pi)
  <2>1. Len(qe) = a + c /\ Len(qi) = b - c /\ Len(pi) = b
    BY <1>2, <1>5, <1>6
  <2>2. hi = lo + (a + c) + (b - c) /\ b - c <= b
    BY <1>2, <1>7
  <2>3. QED
    BY <2>1, <2>2
<1>11. \A i \in 1..Len(qe) : qe[i] = log[lo + i]
  BY <1>6, <1>8
<1>12. \A i \in 1..Len(qi) : qi[i] = log[lo + Len(qe) + i]
  BY <1>5, <1>6, <1>9
<1>13. QED
  BY <1>5, <1>6, <1>7, <1>10, <1>11, <1>12 DEF Segment

\* The thread reads.
LEMMA ReadKeeps ==
  ASSUME FilterInv, ReadPipe
  PROVE  FilterInv'
<1>1. /\ FilterTypeOK /\ LogInv(logged) /\ PhasesFit
      /\ pipe \in Seq(Piece) /\ reader.pending \in Seq(Piece) /\ Len(pipe) <= Capacity
  BY DEF FilterInv, FilterTypeOK
<1>2. PICK lo \in Nat, hi \in Nat : PiecesSound(lo, hi)
  BY DEF FilterInv
<1>3. PICK c \in 1..Len(pipe) :
         /\ reader' = [at |-> "lines", pending |-> reader.pending \o SubSeq(pipe, 1, c)]
         /\ pipe' = SubSeq(pipe, c + 1, Len(pipe))
  BY DEF ReadPipe
<1>4. reader.at = "read" /\ UNCHANGED <<filterEnv, target, writeEnd, filter, logged, shown>>
  BY DEF ReadPipe
<1>5. PICK f, qe : f = SubSeq(pipe, 1, c) /\ qe = reader.pending \o f
  OBVIOUS
<1>6. PICK qi : qi = SubSeq(pipe, c + 1, Len(pipe))
  OBVIOUS
<1>7. reader' = [at |-> "lines", pending |-> qe] /\ pipe' = qi
  BY <1>3, <1>5, <1>6
<1>8. /\ qe \in Seq(Piece) /\ qi \in Seq(Piece) /\ Len(qi) <= Len(pipe)
      /\ Segment(logged, qe, qi, lo, hi)
  <2>1. Segment(logged, reader.pending, pipe, lo, hi)
    BY <1>2 DEF PiecesSound
  <2>2. PICK pe \in Seq(Piece), pi \in Seq(Piece), log \in Seq(Piece) :
           pe = reader.pending /\ pi = pipe /\ log = logged
    BY <1>1 DEF FilterTypeOK
  <2>3. Segment(log, pe, pi, lo, hi) /\ c \in Nat /\ c \in 1..Len(pi)
    BY <2>1, <2>2, LenProperties
  <2>4. FirstPieces(f, pi, c)
    BY <2>2, <2>3, <1>5, FirstPiecesTaken
  <2>8. RestOf(qi, pi, c)
    <3>1. c \in 0..Len(pi) /\ qi = SubSeq(pi, c + 1, Len(pi))
      BY <2>2, <2>3, <1>6, LenProperties
    <3>2. QED
      BY <3>1, <2>2, RestTaken
  <2>7. JoinOf(qe, pe, f)
    <3>1. f \in Seq(Piece) /\ qe = pe \o f
      BY <2>2, <2>4, <1>5 DEF FirstPieces
    <3>2. QED
      BY <3>1, <2>2, PiecesJoined
  <2>5. qe \in Seq(Piece) /\ qi \in Seq(Piece) /\ Len(qi) <= Len(pi) /\ Segment(log, qe, qi, lo, hi)
    BY <1>2, <2>2, <2>3, <2>4, <2>7, <2>8, SegmentRead
  <2>6. QED
    BY <2>2, <2>5
<1>9. Len(qi) <= Capacity
  BY <1>1, <1>8, LenProperties, FilterAssumption
<1>10. FilterTypeOK'
  BY <1>1, <1>4, <1>7, <1>8, <1>9 DEF FilterTypeOK
<1>11. PhasesFit'
  BY <1>1, <1>4, <1>7 DEF PhasesFit
<1>12. LogInv(logged)'
  BY <1>1, <1>4
<1>13. reader'.pending = qe
  BY <1>7
<1>14. PiecesSound(lo, hi)'
  BY <1>2, <1>4, <1>7, <1>8, <1>13 DEF PiecesSound
<1>15. QED
  BY <1>10, <1>11, <1>12, <1>14 DEF FilterInv

\* What is held, without the first c pieces.
LEMMA SegmentTaken ==
  ASSUME NEW log, NEW pe \in Seq(Piece), NEW pi, NEW lo, NEW hi,
         Segment(log, pe, pi, lo, hi), NEW c \in 0..Len(pe),
         NEW qe, qe = SubSeq(pe, c + 1, Len(pe)), Len(pi) \in Nat
  PROVE  qe \in Seq(Piece) /\ Segment(log, qe, pi, lo + c, hi)
<1>1. PICK a \in Nat : a = Len(pe) /\ c \in 0..a
  BY LenProperties
<1>2. qe \in Seq(Piece) /\ Len(qe) = a - c /\ \A i \in 1..(a - c) : qe[i] = pe[c + i]
  BY <1>1, RestTaken DEF RestOf
<1>3. PICK b \in Nat : b = Len(pi)
  OBVIOUS
<1>4. lo \in Nat /\ hi = lo + a + b /\ hi <= Len(log)
  BY <1>1, <1>3 DEF Segment
<1>5. ASSUME NEW i \in 1..(a - c)
      PROVE  qe[i] = log[lo + c + i]
  <2>1. PICK j \in 1..a : j = c + i
    BY <1>1
  <2>2. qe[i] = pe[j] /\ pe[j] = log[lo + j]
    BY <2>1, <1>1, <1>2 DEF Segment
  <2>3. lo + j = lo + c + i
    BY <2>1, <1>4
  <2>4. QED
    BY <2>2, <2>3
<1>6. ASSUME NEW i \in 1..b
      PROVE  pi[i] = log[lo + c + (a - c) + i]
  <2>1. pi[i] = log[lo + a + i]
    BY <1>1, <1>3 DEF Segment
  <2>2. lo + a + i = lo + c + (a - c) + i
    BY <1>1, <1>4
  <2>3. QED
    BY <2>1, <2>2
<1>7. hi = lo + c + (a - c) + b /\ lo + c \in Nat
  BY <1>1, <1>4
<1>8. hi = lo + c + Len(qe) + Len(pi)
  BY <1>2, <1>3, <1>7
<1>9. \A i \in 1..Len(qe) : qe[i] = log[lo + c + i]
  BY <1>2, <1>5
<1>10. \A i \in 1..Len(pi) : pi[i] = log[lo + c + Len(qe) + i]
  BY <1>2, <1>3, <1>6
<1>11. QED
  BY <1>2, <1>4, <1>7, <1>8, <1>9, <1>10 DEF Segment

\* The first line of pe that is whole ends with the c-th piece.
EndsAt(pe, c) == c \in 1..Len(pe) /\ pe[c].last /\ \A i \in 1..Len(pe) : pe[i].last => c <= i

\* q is what was logged after lo, c pieces of it; if it is noise it is a line.
LineAfter(q, log, lo, c) ==
    /\ q \in Seq(Piece) /\ Len(q) = c
    /\ \A i \in 1..c : q[i] = log[lo + i] /\ Position(q[i]) = lo + i
    /\ ShouldDropLine(q) => /\ c = 2 /\ log[lo + 1].noise /\ log[lo + 2].noise
                            /\ log[lo + 1].line = log[lo + 2].line

\* The next line that is whole: it is what was logged next, one piece or two that belong
\* together.
LEMMA LineTaken ==
  ASSUME NEW log, LogInv(log), NEW pe \in Seq(Piece), NEW pi, NEW lo \in Nat, NEW hi \in Nat,
         Segment(log, pe, pi, lo, hi), Len(pi) \in Nat, NEW c \in Nat, EndsAt(pe, c),
         NEW q, FirstPieces(q, pe, c)
  PROVE  LineAfter(q, log, lo, c) /\ lo + c <= hi
<1>1. PICK a \in Nat : a = Len(pe) /\ c \in 1..a
  BY LenProperties DEF EndsAt
<1>2. PICK l \in Nat : l = Len(log)
  BY LenProperties DEF LogInv
<1>3. q \in Seq(Piece) /\ Len(q) = c /\ \A i \in 1..c : q[i] = pe[i]
  BY DEF FirstPieces
<1>4. lo + a <= hi /\ hi <= l
  BY <1>1, <1>2 DEF Segment
<1>5. ASSUME NEW i \in 1..a
      PROVE  lo + i \in 1..l /\ pe[i] = log[lo + i] /\ Position(log[lo + i]) = lo + i
  <2>1. pe[i] = log[lo + i]
    <3>1. \A j \in 1..Len(pe) : pe[j] = log[lo + j]
      BY DEF Segment
    <3>2. QED
      BY <3>1, <1>1
  <2>2. lo + i \in 1..l
    <3>1. i \in Nat /\ i >= 1 /\ i <= a
      OBVIOUS
    <3>2. lo + i <= l
      BY <3>1, <1>4
    <3>3. QED
      BY <3>1, <3>2
  <2>3. QED
    BY <2>1, <2>2, <1>2 DEF LogInv
<1>6. ASSUME NEW i \in 1..c
      PROVE  q[i] = log[lo + i] /\ Position(q[i]) = lo + i
  <2>1. i \in 1..a
    BY <1>1
  <2>2. PICK x : x = log[lo + i]
    OBVIOUS
  <2>3. pe[i] = x /\ Position(x) = lo + i
    BY <2>1, <2>2, <1>5
  <2>4. q[i] = pe[i]
    BY <1>3
  <2>5. QED
    BY <2>2, <2>3, <2>4
<1>7. lo + c <= hi
  BY <1>1, <1>4
<1>8. ASSUME ShouldDropLine(q)
      PROVE  /\ c = 2 /\ log[lo + 1].noise /\ log[lo + 2].noise
             /\ log[lo + 1].line = log[lo + 2].line
  <2>1. c = 2 /\ q[1].noise
    BY <1>3, <1>8 DEF ShouldDropLine
  <2>2. PICK k \in 1..l : k = lo + 2 /\ k - 1 = lo + 1 /\ log[k].last
    <3>1. 2 \in 1..a /\ pe[2].last
      BY <2>1, <1>1 DEF EndsAt
    <3>2. lo + 2 \in 1..l /\ log[lo + 2].last
      BY <3>1, <1>5
    <3>3. QED
      BY <3>2, <1>4
  <2>3. log[k - 1].noise = log[k].noise /\ log[k - 1].line = log[k].line
    BY <2>2, <1>2, Halves DEF LogInv
  <2>4. log[lo + 1].noise
    BY <2>1, <1>6
  <2>5. QED
    BY <2>1, <2>2, <2>3, <2>4
<1>9. QED
  BY <1>3, <1>6, <1>7, <1>8 DEF LineAfter

\* The thread goes through what it has read, line by line.
LEMMA LinesKeep ==
  ASSUME FilterInv, NextLine
  PROVE  FilterInv'
<1>1. /\ FilterTypeOK /\ LogInv(logged) /\ PhasesFit
      /\ logged \in Seq(Piece) /\ shown \in Seq(Piece) /\ pipe \in Seq(Piece) /\ reader.pending \in Seq(Piece)
  BY DEF FilterInv, FilterTypeOK
<1>2. PICK lo \in Nat, hi \in Nat : PiecesSound(lo, hi)
  BY DEF FilterInv
<1>3. reader.at = "lines" /\ UNCHANGED <<filterEnv, target, pipe, writeEnd, filter, logged>>
  BY DEF NextLine
<1>4. reader = [at |-> "lines", pending |-> reader.pending]
  BY <1>1, <1>3 DEF FilterTypeOK
<1>5. LogInv(logged)'
  BY <1>1, <1>3
<1>6. CASE /\ {i \in 1..Len(reader.pending) : reader.pending[i].last} = {}
           /\ reader' = [reader EXCEPT !.at = "read"] /\ shown' = shown
  <2>1. reader' = [at |-> "read", pending |-> reader.pending]
    BY <1>4, <1>6
  <2>2. FilterTypeOK'
    BY <2>1, <1>1, <1>3, <1>6 DEF FilterTypeOK
  <2>3. \A i \in 1..Len(reader.pending) : ~reader.pending[i].last
    BY <1>6
  <2>4. PhasesFit'
    BY <2>1, <2>3, <1>1, <1>3 DEF PhasesFit
  <2>5. reader'.pending = reader.pending
    BY <2>1
  <2>6. PiecesSound(lo, hi)'
    BY <2>5, <1>2, <1>3, <1>6 DEF PiecesSound
  <2>7. QED
    BY <2>2, <2>4, <2>6, <1>5 DEF FilterInv
<1>7. CASE \E end \in {i \in 1..Len(reader.pending) : reader.pending[i].last} :
              /\ \A i \in {j \in 1..Len(reader.pending) : reader.pending[j].last} : end <= i
              /\ shown' = shown \o Filtered(SubSeq(reader.pending, 1, end))
              /\ reader' = [reader EXCEPT !.pending = SubSeq(@, end + 1, Len(@))]
  <2>1. PICK c \in 1..Len(reader.pending) :
           /\ reader.pending[c].last
           /\ \A i \in 1..Len(reader.pending) : reader.pending[i].last => c <= i
           /\ shown' = shown \o Filtered(SubSeq(reader.pending, 1, c))
           /\ reader' = [reader EXCEPT !.pending = SubSeq(reader.pending, c + 1, Len(reader.pending))]
    BY <1>7
  <2>2. PICK q : q = SubSeq(reader.pending, 1, c)
    OBVIOUS
  <2>3. PICK qe : qe = SubSeq(reader.pending, c + 1, Len(reader.pending))
    OBVIOUS
  <2>4. reader' = [at |-> "lines", pending |-> qe] /\ shown' = shown \o Filtered(q)
    <3>1. reader' = [reader EXCEPT !.pending = qe] /\ shown' = shown \o Filtered(q)
      BY <2>1, <2>2, <2>3, Zenon
    <3>2. QED
      BY <3>1, <1>4
  <2>5. PICK pe \in Seq(Piece), pi \in Seq(Piece), log \in Seq(Piece) :
           pe = reader.pending /\ pi = pipe /\ log = logged
    BY <1>1
  <2>6. LogInv(log) /\ Segment(log, pe, pi, lo, hi) /\ Len(pi) \in Nat
    BY <2>5, <1>1, <1>2, LenProperties DEF PiecesSound
  <2>7. EndsAt(pe, c) /\ c \in 1..Len(pe) /\ c \in Nat
    BY <2>1, <2>5, LenProperties DEF EndsAt
  <2>8. FirstPieces(q, pe, c) /\ qe = SubSeq(pe, c + 1, Len(pe))
    BY <2>2, <2>3, <2>5, <2>7, FirstPiecesTaken
  <2>21. LineAfter(q, log, lo, c) /\ lo + c <= hi
    BY <2>5, <2>6, <2>7, <2>8, LineTaken
  <2>9. /\ q \in Seq(Piece) /\ Len(q) = c /\ lo + c <= hi
        /\ \A i \in 1..Len(q) : q[i] = log[lo + i] /\ Position(q[i]) = lo + i
        /\ ShouldDropLine(q) => /\ c = 2 /\ log[lo + 1].noise /\ log[lo + 2].noise
                                /\ log[lo + 1].line = log[lo + 2].line
    BY <2>21 DEF LineAfter
  <2>10. c \in 0..Len(pe) /\ c \in Nat
    BY <2>5, <2>7, LenProperties
  <2>11. qe \in Seq(Piece) /\ Segment(log, qe, pi, lo + c, hi)
    BY <2>5, <2>6, <2>8, <2>10, SegmentTaken
  <2>12. Accounts(log, shown, lo, hi) /\ hi <= Len(log)
    BY <2>5, <2>6, <1>2 DEF PiecesSound, Segment
  <2>13. PICK to : to = shown'
    OBVIOUS
  <2>14. to \in Seq(Piece) /\ Accounts(log, to, lo + c, hi) /\ ("late" \notin filterEnv => InOrder(to))
    <3>1. CASE ShouldDropLine(q)
      <4>1. Filtered(q) = <<>>
        BY <3>1 DEF Filtered
      <4>2. to = shown
        BY <4>1, <2>4, <2>13, <1>1, ConcatEmptySeq
      <4>3. Accounts(log, shown, lo + 2, hi)
        BY <3>1, <2>6, <2>9, <2>12, AccountsDropped
      <4>4. c = 2
        BY <3>1, <2>9
      <4>5. QED
        BY <4>2, <4>3, <4>4, <1>1, <1>2 DEF PiecesSound
    <3>2. CASE ~ShouldDropLine(q)
      <4>1. to = shown \o q
        BY <3>2, <2>4, <2>13 DEF Filtered
      <4>2. to \in Seq(Piece)
        BY <4>1, <2>9, <1>1, ConcatProperties
      <4>3. lo + Len(q) <= hi /\ \A i \in 1..Len(q) : q[i] = log[lo + i]
        BY <2>9
      <4>4. Accounts(log, to, lo + Len(q), hi)
        BY <4>1, <4>3, <2>6, <2>9, <2>12, <1>1, AccountsShown
      <4>5. ASSUME "late" \notin filterEnv
            PROVE  InOrder(to)
        <5>1. hi = Len(log) /\ InOrder(shown)
          BY <4>5, <2>5, <1>2 DEF PiecesSound
        <5>2. \A j \in 1..Len(shown) : Position(shown[j]) \in Nat /\ Position(shown[j]) <= lo
          BY <5>1, <2>6, <2>12, ShownBefore
        <5>3. \A i \in 1..Len(q) : Position(q[i]) = lo + i
          BY <2>9
        <5>4. QED
          BY <5>1, <5>2, <5>3, <4>1, <2>9, <1>1, OrderGrows
      <4>6. Len(q) = c
        BY <2>9
      <4>7. QED
        BY <4>2, <4>4, <4>5, <4>6
    <3>3. QED
      BY <3>1, <3>2
  <2>15. FilterTypeOK'
    BY <2>4, <2>11, <2>13, <2>14, <1>1, <1>3 DEF FilterTypeOK
  <2>16. PhasesFit'
    BY <2>4, <1>1, <1>3 DEF PhasesFit
  <2>17. reader'.pending = qe
    BY <2>4
  <2>18. PiecesSound(lo + c, hi)'
    BY <2>5, <2>11, <2>13, <2>14, <2>17, <1>2, <1>3 DEF PiecesSound
  <2>19. lo + c \in Nat
    BY <2>10
  <2>20. QED
    BY <2>15, <2>16, <2>18, <2>19, <1>5 DEF FilterInv
<1>8. QED
  BY <1>6, <1>7 DEF NextLine

\* Nothing more comes: what was not finished is one piece at most, and is shown.
LEMMA EndKeeps ==
  ASSUME FilterInv, PipeEnds
  PROVE  FilterInv'
<1>1. /\ FilterTypeOK /\ LogInv(logged) /\ PhasesFit
      /\ logged \in Seq(Piece) /\ shown \in Seq(Piece) /\ reader.pending \in Seq(Piece)
  BY DEF FilterInv, FilterTypeOK
<1>2. PICK lo \in Nat, hi \in Nat : PiecesSound(lo, hi)
  BY DEF FilterInv
<1>3. /\ reader.at = "read" /\ pipe = <<>> /\ ~writeEnd /\ target = "original"
      /\ UNCHANGED <<filterEnv, target, pipe, writeEnd, filter, logged>>
  BY DEF PipeEnds
<1>4. PICK q \in Seq(Piece), log \in Seq(Piece), l \in Nat, c \in Nat :
         q = reader.pending /\ log = logged /\ l = Len(log) /\ c = Len(q)
  BY <1>1, LenProperties
<1>5. LogInv(log) /\ hi = lo + c /\ hi <= l /\ \A i \in 1..c : q[i] = log[lo + i]
  BY <1>1, <1>2, <1>3, <1>4 DEF PiecesSound, Segment
<1>6. \A i \in 1..c : ~q[i].last
  BY <1>1, <1>3, <1>4 DEF PhasesFit
<1>7. ~ShouldDropLine(q)
  <2>1. SUFFICES ASSUME c = 2
                 PROVE  FALSE
    BY <1>4 DEF ShouldDropLine
  <2>2. PICK k \in 1..l : k = lo + 1 /\ k < l
    BY <2>1, <1>5
  <2>3. 1 \in 1..c /\ 2 \in 1..c
    BY <2>1
  <2>4. ~log[k].last /\ ~log[k + 1].last
    <3>1. q[1] = log[lo + 1] /\ ~q[1].last
      BY <2>3, <1>5, <1>6
    <3>2. q[2] = log[lo + 2] /\ ~q[2].last
      BY <2>3, <1>5, <1>6
    <3>3. k + 1 = lo + 2
      BY <2>2
    <3>4. QED
      BY <2>2, <3>1, <3>2, <3>3
  <2>5. QED
    BY <2>2, <2>4, <1>4, <1>5, Halves
<1>8. PICK to : to = shown'
  OBVIOUS
<1>9. to = shown \o q /\ reader' = [at |-> "ended", pending |-> <<>>]
  BY <1>4, <1>7, <1>8 DEF PipeEnds, Filtered
<1>10. to \in Seq(Piece)
  BY <1>1, <1>9, ConcatProperties
<1>11. Accounts(log, shown, lo, hi)
  BY <1>2, <1>4 DEF PiecesSound
<1>12. Accounts(log, to, hi, hi)
  <2>1. lo + Len(q) <= hi /\ hi <= Len(log) /\ \A i \in 1..Len(q) : q[i] = log[lo + i]
    BY <1>4, <1>5
  <2>2. Accounts(log, to, lo + Len(q), hi)
    BY <2>1, <1>1, <1>2, <1>5, <1>9, <1>11, AccountsShown
  <2>3. lo + Len(q) = hi
    BY <1>4, <1>5
  <2>4. QED
    BY <2>2, <2>3
<1>13. ASSUME "late" \notin filterEnv
       PROVE  InOrder(to)
  <2>1. hi = Len(log) /\ InOrder(shown)
    BY <1>2, <1>4, <1>13 DEF PiecesSound
  <2>2. \A j \in 1..Len(shown) : Position(shown[j]) \in Nat /\ Position(shown[j]) <= lo
    BY <2>1, <1>2, <1>5, <1>11, ShownBefore
  <2>3. \A i \in 1..Len(q) : Position(q[i]) = lo + i
    <3>1. TAKE i \in 1..Len(q)
    <3>2. PICK k \in 1..l : k = lo + i
      BY <1>4, <1>5
    <3>3. q[i] = log[k] /\ Position(log[k]) = k
      BY <3>2, <1>4, <1>5 DEF LogInv
    <3>4. QED
      BY <3>2, <3>3
  <2>4. QED
    BY <2>1, <2>2, <2>3, <1>1, <1>2, <1>9, OrderGrows
<1>14. PICK e \in Seq(Piece) : e = <<>> /\ Len(e) = 0
  BY EmptySeq
<1>15. reader' = [at |-> "ended", pending |-> e] /\ reader'.pending = e
  BY <1>9, <1>14
<1>16. FilterTypeOK'
  BY <1>1, <1>3, <1>8, <1>10, <1>14, <1>15 DEF FilterTypeOK
<1>17. PhasesFit'
  BY <1>1, <1>3, <1>14, <1>15 DEF PhasesFit, FilterTypeOK
<1>18. Segment(log, e, e, hi, hi)
  BY <1>2, <1>4, <1>5, <1>14 DEF Segment
<1>19. pipe' = e /\ logged' = log
  BY <1>3, <1>4, <1>14
<1>20. PiecesSound(hi, hi)'
  <2>1. target # "pipe"
    BY <1>3
  <2>2. "late" \notin filterEnv => hi = Len(log)
    BY <1>2, <1>4 DEF PiecesSound
  <2>3. QED
    BY <2>1, <2>2, <1>3, <1>8, <1>12, <1>13, <1>15, <1>18, <1>19 DEF PiecesSound
<1>21. LogInv(logged)'
  BY <1>1, <1>3
<1>22. QED
  BY <1>2, <1>16, <1>17, <1>20, <1>21 DEF FilterInv

-----------------------------------------------------------------------------
\* What the thread and the pipe hold is a piece of the log, what is missing is noise.
THEOREM FilterInvariant == FilterSpec => []FilterInv
<1>1. FilterInv /\ [FilterNext]_filterVars => FilterInv'
  <2>1. SUFFICES ASSUME FilterInv, [FilterNext]_filterVars
                 PROVE  FilterInv'
    OBVIOUS
  <2>2. CASE UNCHANGED filterVars
    <3>1. UNCHANGED <<filterEnv, target, pipe, writeEnd, filter, reader, logged, shown>>
      BY <2>2 DEF filterVars
    <3>2. FilterTypeOK' /\ LogInv(logged)' /\ PhasesFit'
      BY <2>1, <3>1 DEF FilterInv, FilterTypeOK, PhasesFit
    <3>3. PICK lo \in Nat, hi \in Nat : PiecesSound(lo, hi)
      BY <2>1 DEF FilterInv
    <3>4. PiecesSound(lo, hi)'
      BY <3>1, <3>3 DEF PiecesSound
    <3>5. QED
      BY <3>2, <3>4 DEF FilterInv
  <2>3. CASE WriteLog
    BY <2>1, <2>3, WriteKeeps
  <2>4. CASE StartFilter \/ StopFilter \/ CloseWriteEnd \/ JoinReader
    BY <2>1, <2>4, StartStopKeep
  <2>5. CASE ReadPipe
    BY <2>1, <2>5, ReadKeeps
  <2>6. CASE NextLine
    BY <2>1, <2>6, LinesKeep
  <2>7. CASE PipeEnds
    BY <2>1, <2>7, EndKeeps
  <2>8. QED
    BY <2>1, <2>2, <2>3, <2>4, <2>5, <2>6, <2>7 DEF FilterNext, FilterStep
<1>2. QED
  BY <1>1, FilterStarts, PTL DEF FilterSpec

\* When the filter has stopped only noise is missing, whole lines of it.
LEMMA FilterShows ==
  ASSUME FilterInv, ~filter.started
  PROVE  FilterSound
<1>1. LogInv(logged) /\ PiecesSound(Len(logged), Len(logged))
  <2>1. reader.at \in {"none", "ended"}
    BY DEF FilterInv, PhasesFit
  <2>2. QED
    BY <2>1, NothingHeld DEF FilterInv
<1>2. PICK l \in Nat : l = Len(logged)
  BY <1>1 DEF LogInv
<1>3. Accounts(logged, shown, l, l) /\ ("late" \notin filterEnv => InOrder(shown))
  BY <1>1, <1>2 DEF PiecesSound
<1> DEFINE Gone(k) == Missing(logged, shown, l, l, k)
           drop == {logged[k].line : k \in {i \in 1..l : Gone(i) /\ logged[i].last}}
<1>4. ASSUME NEW k \in 1..l
      PROVE  Gone(k) <=> ~IsShown(logged[k])
  BY <1>2 DEF Missing, IsShown
<1>5. ASSUME NEW k \in 1..l, Gone(k)
      PROVE  /\ logged[k].noise
             /\ \E m \in 1..l : m # k /\ logged[m].line = logged[k].line /\ Gone(m)
  BY <1>2, <1>3, <1>5 DEF Accounts
<1> HIDE DEF Gone
<1>6. \A k \in 1..l : logged[k] \in Piece /\ logged[k].last \in BOOLEAN
  BY <1>1, <1>2, PieceFields, ElementOfSeq DEF LogInv
<1>7. ASSUME NEW j \in 1..l, NEW k \in 1..l, logged[j].line = logged[k].line,
             logged[j].last = logged[k].last
      PROVE  j = k
  BY <1>1, <1>2, <1>7, Halves
<1>8. ASSUME NEW k \in 1..l
      PROVE  IsShown(logged[k]) <=> logged[k].line \notin drop
  <2>1. ASSUME Gone(k)
        PROVE  logged[k].line \in drop
    <3>1. CASE logged[k].last
      BY <2>1, <3>1
    <3>2. CASE ~logged[k].last
      <4>1. PICK m \in 1..l : m # k /\ logged[m].line = logged[k].line /\ Gone(m)
        BY <2>1, <1>5
      <4>2. logged[m].last
        BY <3>2, <4>1, <1>6, <1>7
      <4>3. QED
        BY <4>1, <4>2
    <3>3. QED
      BY <3>1, <3>2
  <2>2. ASSUME logged[k].line \in drop
        PROVE  Gone(k)
    <3>1. PICK i \in 1..l : Gone(i) /\ logged[i].last /\ logged[i].line = logged[k].line
      BY <2>2
    <3>2. PICK m \in 1..l : m # i /\ logged[m].line = logged[i].line /\ Gone(m)
      BY <3>1, <1>5
    <3>3. ~logged[m].last
      BY <3>1, <3>2, <1>6, <1>7
    <3>4. CASE logged[k].last
      BY <3>1, <3>4, <1>6, <1>7
    <3>5. CASE ~logged[k].last
      BY <3>1, <3>2, <3>3, <3>5, <1>6, <1>7
    <3>6. QED
      BY <3>4, <3>5
  <2>3. QED
    BY <2>1, <2>2, <1>4
<1>9. drop \in SUBSET {logged[k].line : k \in {i \in 1..l : logged[i].noise /\ logged[i].last}}
  BY <1>5
<1>10. ASSUME "late" \notin filterEnv
       PROVE  ShownInOrder
  <2>1. \A j \in 1..Len(shown) : \E k \in 1..Len(logged) : shown[j] = logged[k]
    BY <1>3 DEF Accounts
  <2>2. \A i, j \in 1..Len(shown) : i < j => Position(shown[i]) < Position(shown[j])
    BY <1>3, <1>10 DEF InOrder
  <2>3. \E d \in SUBSET {logged[k].line : k \in {i \in 1..Len(logged) : logged[i].noise /\ logged[i].last}} :
           \A k \in 1..Len(logged) : IsShown(logged[k]) <=> logged[k].line \notin d
    <3>1. \A k \in 1..l : IsShown(logged[k]) <=> logged[k].line \notin drop
      BY <1>8
    <3> HIDE DEF drop
    <3>2. QED
      BY <3>1, <1>2, <1>9
  <2>4. QED
    BY <2>1, <2>2, <2>3, Zenon DEF ShownInOrder
<1>11. NothingLost
  <2>1. SUFFICES ASSUME NEW k \in 1..l, ~logged[k].noise
                 PROVE  \E i \in 1..Len(shown) : \A j \in 1..Len(shown) : shown[j] = logged[k] <=> j = i
    BY <1>2 DEF NothingLost
  <2>2. IsShown(logged[k])
    BY <2>1, <1>4, <1>5
  <2>3. PICK i \in 1..Len(shown) : shown[i] = logged[k]
    BY <2>2 DEF IsShown
  <2>4. \A j \in 1..Len(shown) : shown[j] = logged[k] <=> j = i
    BY <2>3, <1>3 DEF Accounts
  <2>5. QED
    BY <2>4
<1>12. QED
  BY <1>10, <1>11 DEF FilterSound, ShownInOrder

\* The variables of the log filter have their types.
THEOREM FilterTypes == FilterSpec => []FilterTypeOK
<1>1. FilterInv => FilterTypeOK
  BY DEF FilterInv
<1>2. QED
  BY <1>1, FilterInvariant, PTL

\* The filter takes away whole lines of noise and nothing else, and what it leaves
\* keeps its order; also with other threads writing while it stops no line that is
\* not noise is lost or shown twice.
THEOREM FilterIsSound == FilterSpec => []FilterSound
<1>1. FilterInv => FilterSound
  <2>1. filter.started => FilterSound
    BY DEF FilterSound, ShownInOrder, NothingLost
  <2>2. QED
    BY <2>1, FilterShows
<1>2. QED
  BY <1>1, FilterInvariant, PTL
==============================================================================
