-------------------------- MODULE VoiceStatesProofs --------------------------
(***************************************************************************)
(* What GatewaySessions and VoiceStates guarantee for any number of users, *)
(* sockets, channels, threads and requests, whatever Env allows and        *)
(* whatever overlaps, and that VoiceStates implements GatewaySessions.     *)
(***************************************************************************)
EXTENDS VoiceStates, TLAPS

-----------------------------------------------------------------------------
(* Gateway sessions.  RoutingSound and DeliveredToMembers are not          *)
(* inductive: an event reaches whatever the session object holds, and      *)
(* handlers go on writing to it after the socket has closed, so the        *)
(* invariant speaks of every session object and of what each suspended     *)
(* handler still refers to.                                                *)

\* A handler past the registration of its socket has a session to write to.
HandlersSound ==
    \A s \in Socket :
        /\ s \in sessions => socketUser[s] \in User /\ readyState[s] # "none"
        /\ connecting[s] = "lookup" =>
              s \notin sessions /\ socketUser[s] \in User /\ readyState[s] # "none"
        /\ connecting[s] \in {"redis", "db", "announce"} => s \in sessions
        /\ leaving[s] # "no" => s \in sessions
        /\ subscribing[s] # {} => s \in sessions

\* Whatever a session object lists, its user is a member of, closed or not.
SubsSound ==
    \A s \in Socket :
        /\ \A c \in channelSubs[s] : socketUser[s] \in member[GuildOf[c]]
        /\ \A g \in guildSubs[s] : socketUser[s] \in member[g]
        /\ \A t \in dmSubs[s] : socketUser[s] \in threadMember[t]

\* Only a session has subscriptions.
SubsOfSessions ==
    \A s \in Socket : s \notin sessions =>
        channelSubs[s] = {} /\ guildSubs[s] = {} /\ dmSubs[s] = {}

IInv ==
    /\ GatewayTypeOK /\ HandlersSound /\ SubsSound /\ SubsOfSessions /\ RoutingSound

-----------------------------------------------------------------------------
\* The invariant holds of a server without connections.
LEMMA InitIInv == GatewayInit => IInv
  BY GatewayAssumption
     DEF GatewayInit, NoSockets, IInv, GatewayTypeOK, HandlersSound, SubsSound,
         SubsOfSessions, RoutingSound, PresenceCall, NoPresenceCall, Status

\* Registering and opening a socket.
LEMMA ConnectKeeps ==
  ASSUME IInv, NEW s \in Socket,
         \/ \E u \in User : Connect(s, u)
         \/ RejectConnection(s)
         \/ Register(s)
  PROVE  IInv'
<1>1. ASSUME NEW u \in User, Connect(s, u) PROVE IInv'
  <2>1. s \notin sessions
    BY <1>1 DEF Connect, IInv, HandlersSound
  <2>2. GatewayTypeOK'
    BY <1>1 DEF Connect, IInv, GatewayTypeOK, tables, subs, rows, status
  <2>3. HandlersSound'
    BY <1>1, <2>1 DEF Connect, IInv, GatewayTypeOK, HandlersSound, tables
  <2>4. SubsSound' /\ SubsOfSessions'
    BY <1>1, <2>1 DEF Connect, IInv, GatewayTypeOK, SubsSound, SubsOfSessions, tables, subs, rows
  <2>5. RoutingSound'
    BY <1>1, <2>1 DEF Connect, IInv, GatewayTypeOK, RoutingSound, tables
  <2>6. QED
    BY <2>2, <2>3, <2>4, <2>5 DEF IInv
<1>2. CASE RejectConnection(s)
  <2>1. s \notin sessions
    BY <1>2 DEF RejectConnection, IInv, HandlersSound
  <2>2. GatewayTypeOK'
    BY <1>2 DEF RejectConnection, IInv, GatewayTypeOK, tables, subs, rows, status
  <2>3. HandlersSound' /\ RoutingSound'
    BY <1>2, <2>1 DEF RejectConnection, IInv, GatewayTypeOK, HandlersSound, RoutingSound, tables
  <2>4. SubsSound' /\ SubsOfSessions'
    BY <1>2 DEF RejectConnection, IInv, SubsSound, SubsOfSessions, tables, subs, rows
  <2>5. QED
    BY <2>2, <2>3, <2>4 DEF IInv
<1>3. CASE Register(s)
  <2>1. s \notin sessions /\ socketUser[s] \in User /\ readyState[s] # "none"
    BY <1>3 DEF Register, IInv, HandlersSound
  <2>2. GatewayTypeOK'
    BY <1>3, <2>1 DEF Register, IInv, GatewayTypeOK, rows, status
  <2>3. HandlersSound'
    BY <1>3, <2>1 DEF Register, IInv, GatewayTypeOK, HandlersSound
  <2>4. SubsSound' /\ SubsOfSessions'
    BY <1>3, <2>1 DEF Register, IInv, GatewayTypeOK, SubsSound, SubsOfSessions, rows
  <2>5. RoutingSound'
    BY <1>3, <2>1 DEF Register, IInv, GatewayTypeOK, RoutingSound
  <2>6. QED
    BY <2>2, <2>3, <2>4, <2>5 DEF IInv
<1>4. QED
  BY <1>1, <1>2, <1>3

\* The effects of the handlers on Redis, Postgres and the clients leave the
\* sockets alone.
LEMMA StatusKeeps ==
  ASSUME IInv,
         \/ \E s \in Socket : ConnectRedis(s) \/ ConnectDb(s) \/ ConnectAnnounce(s)
         \/ \E s \in Socket : DisconnectVoice(s) \/ LeaveStores(s)
         \/ \E s \in Socket, st \in Chosen : PresenceSet(s, st)
         \/ \E u \in User, st \in Chosen : UpdateStatus(u, st)
         \/ \E u \in User : PresenceStep(u) \/ RedisExpire(u)
  PROVE  IInv'
<1> DEFINE Unmoved ==
      /\ UNCHANGED <<readyState, socketUser, tables, subs, subscribing, rows>>
      /\ presenceCall' \in [User -> PresenceCall]
      /\ redis' \in [User -> Status \cup {"expired"}]
      /\ presence' \in [User -> Status] /\ announced' \in [User -> Status]
      /\ connecting' \in [Socket -> {"no", "lookup", "redis", "db", "announce"}]
      /\ leaving' \in [Socket -> {"no", "voice", "redis", "db", "announce"}]
      /\ \A s \in Socket : /\ connecting'[s] # connecting[s] =>
                                connecting[s] # "no" /\ connecting'[s] # "lookup" /\ s \in sessions
                           /\ leaving'[s] # leaving[s] => s \in sessions
<1>1. ASSUME NEW s \in Socket, ConnectRedis(s) \/ ConnectDb(s) \/ ConnectAnnounce(s)
      PROVE  Unmoved
  <2>1. s \in sessions
    BY <1>1 DEF ConnectRedis, ConnectDb, ConnectAnnounce, IInv, HandlersSound
  <2>2. CASE ConnectRedis(s)
    BY <2>1, <2>2 DEF ConnectRedis, IInv, GatewayTypeOK, tables, subs, rows, Status
  <2>3. CASE ConnectDb(s)
    BY <2>1, <2>3 DEF ConnectDb, IInv, GatewayTypeOK, tables, subs, rows, Status
  <2>4. CASE ConnectAnnounce(s)
    BY <2>1, <2>4 DEF ConnectAnnounce, IInv, GatewayTypeOK, tables, subs, rows, Status
  <2>5. QED
    BY <1>1, <2>2, <2>3, <2>4
<1>2. ASSUME NEW s \in Socket, DisconnectVoice(s) \/ LeaveStores(s)
      PROVE  Unmoved
  <2>1. s \in sessions
    BY <1>2 DEF DisconnectVoice, LeaveStores, DisconnectRedis, DisconnectDb,
                DisconnectAnnounce, IInv, HandlersSound
  <2>2. CASE DisconnectVoice(s)
    BY <2>1, <2>2 DEF DisconnectVoice, IInv, GatewayTypeOK, tables, subs, rows, status
  <2>3. CASE DisconnectRedis(s)
    BY <2>1, <2>3 DEF DisconnectRedis, IInv, GatewayTypeOK, tables, subs, rows, Status
  <2>4. CASE DisconnectDb(s)
    BY <2>1, <2>4 DEF DisconnectDb, IInv, GatewayTypeOK, tables, subs, rows, Status
  <2>5. CASE DisconnectAnnounce(s)
    BY <2>1, <2>5 DEF DisconnectAnnounce, IInv, GatewayTypeOK, tables, subs, rows, Status
  <2>6. QED
    BY <1>2, <2>2, <2>3, <2>4, <2>5 DEF LeaveStores
<1>3. ASSUME NEW u \in User \cup {NoUser}, NEW pc \in {"wsRedis", "restDb"}, NEW st \in Chosen,
             StartPresence(u, pc, st)
      PROVE  Unmoved
  BY <1>3, GatewayAssumption
     DEF StartPresence, PresenceCall, IInv, GatewayTypeOK, tables, subs, rows, status
<1>4. ASSUME NEW s \in Socket, NEW st \in Chosen, PresenceSet(s, st) PROVE Unmoved
  BY <1>3, <1>4 DEF PresenceSet, IInv, GatewayTypeOK
<1>5. ASSUME NEW u \in User, NEW st \in Chosen, UpdateStatus(u, st) PROVE Unmoved
  BY <1>3, <1>5 DEF UpdateStatus
<1>6. ASSUME NEW u \in User, PresenceStep(u) PROVE Unmoved
  <2>1. presenceCall[u] \in PresenceCall
    BY DEF IInv, GatewayTypeOK
  <2>2. CASE PresenceRedis(u)
    <3>1. presenceCall[u].pc \in {"wsRedis", "restRedis"}
      BY <2>2 DEF PresenceRedis, AfterRedis
    <3>2. AfterRedis[presenceCall[u].pc] \in {"wsDb", "announce"}
      BY <3>1 DEF AfterRedis
    <3>3. presenceCall' \in [User -> PresenceCall]
      BY <2>1, <2>2, <3>2 DEF PresenceRedis, PresenceCall, IInv, GatewayTypeOK
    <3>4. QED
      BY <2>1, <2>2, <3>3 DEF PresenceRedis, PresenceCall, IInv, GatewayTypeOK
  <2>3. CASE PresenceDb(u)
    <3>1. presenceCall[u].pc \in {"wsDb", "restDb"}
      BY <2>3 DEF PresenceDb, AfterDb
    <3>2. AfterDb[presenceCall[u].pc] \in {"announce", "restRedis"}
      BY <3>1 DEF AfterDb
    <3>3. presenceCall' \in [User -> PresenceCall]
      BY <2>1, <2>3, <3>2 DEF PresenceDb, PresenceCall, IInv, GatewayTypeOK
    <3>4. QED
      BY <2>1, <2>3, <3>3 DEF PresenceDb, PresenceCall, IInv, GatewayTypeOK
  <2>4. CASE PresenceAnnounce(u)
    BY <2>1, <2>4 DEF PresenceAnnounce, NoPresenceCall, PresenceCall, Status, IInv,
                      GatewayTypeOK, tables, subs, rows
  <2>5. QED
    BY <1>6, <2>2, <2>3, <2>4 DEF PresenceStep
<1>7. ASSUME NEW u \in User, RedisExpire(u) PROVE Unmoved
  BY <1>7 DEF RedisExpire, IInv, GatewayTypeOK, handlers, tables, subs, rows
<1>8. Unmoved
  BY <1>1, <1>2, <1>4, <1>5, <1>6, <1>7
<1>9. GatewayTypeOK'
  BY <1>8 DEF IInv, GatewayTypeOK, tables, subs, rows
<1>10. HandlersSound'
  BY <1>8 DEF IInv, GatewayTypeOK, HandlersSound, tables
<1>11. SubsSound' /\ SubsOfSessions' /\ RoutingSound'
  BY <1>8 DEF IInv, SubsSound, SubsOfSessions, RoutingSound, tables, subs, rows
<1>12. QED
  BY <1>9, <1>10, <1>11 DEF IInv

\* Closing a socket, and forgetting it once nothing refers to it.
LEMMA CloseKeeps ==
  ASSUME IInv, NEW s \in Socket, Disconnect(s) \/ Collect(s)
  PROVE  IInv'
<1>1. CASE Disconnect(s)
  <2>1. GatewayTypeOK'
    BY <1>1 DEF Disconnect, Closed, IInv, GatewayTypeOK, subs, rows, status
  <2>2. HandlersSound'
    BY <1>1 DEF Disconnect, Closed, IInv, GatewayTypeOK, HandlersSound
  <2>3. SubsSound' /\ SubsOfSessions'
    BY <1>1 DEF Disconnect, Closed, IInv, SubsSound, SubsOfSessions, subs, rows
  <2>4. RoutingSound'
    <3>1. /\ readyState' = [readyState EXCEPT ![s] = "closed"]
          /\ UNCHANGED <<socketUser, sessions>>
      BY <1>1 DEF Disconnect, Closed
    <3>2. CASE s \notin sessions
      <4>1. UNCHANGED socketsByUserId
        BY <1>1, <3>2 DEF Disconnect
      <4>2. QED
        BY <3>1, <3>2, <4>1 DEF IInv, GatewayTypeOK, RoutingSound
    <3>3. CASE s \in sessions
      <4>1. socketsByUserId' = [socketsByUserId EXCEPT ![socketUser[s]] = @ \ {s}]
        BY <1>1, <3>3 DEF Disconnect
      <4>2. \A u \in User : /\ socketsByUserId'[u] \subseteq socketsByUserId[u]
                            /\ socketsByUserId[u] \ {s} \subseteq socketsByUserId'[u]
        BY <4>1 DEF IInv, GatewayTypeOK
      <4>3. \A x \in sessions : socketUser[x] \in User /\ readyState'[x] = "open" => x # s
        BY <3>1 DEF IInv, GatewayTypeOK, HandlersSound
      <4>4. \A x \in sessions : readyState'[x] = "open" => x \in socketsByUserId'[socketUser[x]]
        <5> SUFFICES ASSUME NEW x \in sessions, readyState'[x] = "open"
                     PROVE  x \in socketsByUserId'[socketUser[x]]
          OBVIOUS
        <5>1. socketUser[x] \in User /\ x # s /\ readyState[x] = "open"
          BY <3>1, <4>3 DEF IInv, GatewayTypeOK, HandlersSound
        <5>2. x \in socketsByUserId[socketUser[x]]
          BY <5>1 DEF IInv, RoutingSound
        <5>3. QED
          BY <4>2, <5>1, <5>2
      <4>5. QED
        BY <3>1, <4>2, <4>4 DEF IInv, RoutingSound
    <3>4. QED
      BY <3>2, <3>3
  <2>5. QED
    BY <2>1, <2>2, <2>3, <2>4 DEF IInv
<1>2. CASE Collect(s)
  <2>1. GatewayTypeOK'
    BY <1>2 DEF Collect, IInv, GatewayTypeOK, handlers, rows, status
  <2>2. HandlersSound'
    BY <1>2 DEF Collect, IInv, GatewayTypeOK, HandlersSound, handlers
  <2>3. SubsSound' /\ SubsOfSessions'
    BY <1>2 DEF Collect, IInv, GatewayTypeOK, SubsSound, SubsOfSessions, rows
  <2>4. RoutingSound'
    BY <1>2 DEF Collect, IInv, GatewayTypeOK, RoutingSound
  <2>5. QED
    BY <2>1, <2>2, <2>3, <2>4 DEF IInv
<1>3. QED
  BY <1>1, <1>2

\* Subscribing: the answer of Postgres lists only the user's own channels and
\* threads, and nobody is removed between the answer and its use.
LEMMA SubscribeKeeps ==
  ASSUME IInv, NEW s \in Socket,
         \/ \E cs \in Asked : SubscribeChannels(s, cs)
         \/ \E ts \in SUBSET Thread : SubscribeDm(s, ts)
         \/ Subscribed(s)
  PROVE  IInv'
<1>1. ASSUME NEW p \in SUBSET Place,
             readyState[s] = "open", s \in sessions,
             subscribing' = [subscribing EXCEPT ![s] = p],
             UNCHANGED <<readyState, socketUser, tables, subs, connecting, leaving,
                         presenceCall, rows, status>>
      PROVE  IInv'
  <2>1. GatewayTypeOK' /\ HandlersSound'
    BY <1>1 DEF IInv, GatewayTypeOK, HandlersSound, tables, subs, rows, status
  <2>2. SubsSound' /\ SubsOfSessions' /\ RoutingSound'
    BY <1>1 DEF IInv, SubsSound, SubsOfSessions, RoutingSound, tables, subs, rows
  <2>3. QED
    BY <2>1, <2>2 DEF IInv
<1>2. ASSUME NEW cs \in Asked, SubscribeChannels(s, cs) PROVE IInv'
  <2>1. cs \X {"channel"} \in SUBSET Place
    BY GatewayAssumption DEF Place
  <2>2. QED
    BY <1>1, <1>2, <2>1 DEF SubscribeChannels
<1>3. ASSUME NEW ts \in SUBSET Thread, SubscribeDm(s, ts) PROVE IInv'
  <2>1. ts \X {"thread"} \in SUBSET Place
    BY DEF Place
  <2>2. QED
    BY <1>1, <1>3, <2>1 DEF SubscribeDm
<1>4. CASE Subscribed(s)
  <2>1. s \in sessions
    BY <1>4 DEF Subscribed, IInv, HandlersSound
  <2>2. GatewayTypeOK'
    <3>1. Memberships(s) \subseteq Channel /\ ValidThreads(s) \subseteq Thread
      BY DEF Memberships, ValidThreads
    <3>2. {GuildOf[c] : c \in Memberships(s)} \subseteq Guild
      BY <3>1, GatewayAssumption
    <3>3. QED
      BY <1>4, <3>1, <3>2 DEF Subscribed, IInv, GatewayTypeOK, tables, rows, status
  <2>3. HandlersSound' /\ RoutingSound'
    BY <1>4 DEF Subscribed, IInv, GatewayTypeOK, HandlersSound, RoutingSound, tables
  <2>4. SubsSound'
    <3>1. /\ channelSubs' = [channelSubs EXCEPT ![s] = @ \cup Memberships(s)]
          /\ guildSubs' = [guildSubs EXCEPT ![s] = @ \cup {GuildOf[c] : c \in Memberships(s)}]
          /\ dmSubs' = [dmSubs EXCEPT ![s] = @ \cup ValidThreads(s)]
          /\ UNCHANGED <<socketUser, member, threadMember>>
      BY <1>4 DEF Subscribed, rows
    <3>2. /\ \A c \in Memberships(s) : socketUser[s] \in member[GuildOf[c]]
          /\ \A t \in ValidThreads(s) : socketUser[s] \in threadMember[t]
      BY DEF Memberships, ValidThreads
    <3>3. ASSUME NEW x \in Socket, NEW c \in channelSubs'[x]
          PROVE  socketUser[x] \in member[GuildOf[c]]
      <4>1. c \in channelSubs[x] \/ (x = s /\ c \in Memberships(s))
        BY <3>1 DEF IInv, GatewayTypeOK
      <4>2. QED
        BY <3>2, <4>1 DEF IInv, SubsSound
    <3>4. ASSUME NEW x \in Socket, NEW g \in guildSubs'[x]
          PROVE  socketUser[x] \in member[g]
      <4>1. g \in guildSubs[x] \/ (x = s /\ \E c \in Memberships(s) : g = GuildOf[c])
        BY <3>1 DEF IInv, GatewayTypeOK
      <4>2. QED
        BY <3>2, <4>1 DEF IInv, SubsSound
    <3>5. ASSUME NEW x \in Socket, NEW t \in dmSubs'[x]
          PROVE  socketUser[x] \in threadMember[t]
      <4>1. t \in dmSubs[x] \/ (x = s /\ t \in ValidThreads(s))
        BY <3>1 DEF IInv, GatewayTypeOK
      <4>2. QED
        BY <3>2, <4>1 DEF IInv, SubsSound
    <3>6. QED
      BY <3>1, <3>3, <3>4, <3>5 DEF SubsSound
  <2>5. SubsOfSessions'
    BY <1>4, <2>1 DEF Subscribed, IInv, GatewayTypeOK, SubsOfSessions, tables
  <2>6. QED
    BY <2>2, <2>3, <2>4, <2>5 DEF IInv
<1>5. QED
  BY <1>2, <1>3, <1>4

\* Guilds and threads only gain members; a thread gets them all at once.
LEMMA MembershipKeeps ==
  ASSUME IInv,
         \/ \E u \in User, g \in Guild : JoinGuild(u, g)
         \/ \E t \in Thread, us \in SUBSET User : CreateThread(t, us)
  PROVE  IInv'
<1>1. /\ member' \in [Guild -> SUBSET User] /\ \A g \in Guild : member[g] \subseteq member'[g]
      /\ threadMember' \in [Thread -> SUBSET User]
      /\ \A t \in Thread : threadMember[t] \subseteq threadMember'[t]
      /\ UNCHANGED <<readyState, socketUser, tables, subs, handlers, status>>
  BY DEF JoinGuild, CreateThread, IInv, GatewayTypeOK
<1>2. GatewayTypeOK'
  BY <1>1 DEF IInv, GatewayTypeOK, tables, subs, handlers, status
<1>3. HandlersSound' /\ SubsOfSessions' /\ RoutingSound'
  BY <1>1 DEF IInv, HandlersSound, SubsOfSessions, RoutingSound, tables, subs, handlers
<1>4. SubsSound'
  BY <1>1, GatewayAssumption DEF IInv, GatewayTypeOK, SubsSound, subs
<1>5. QED
  BY <1>2, <1>3, <1>4 DEF IInv

\* A restart forgets every socket and handler.
LEMMA RestartKeeps ==
  ASSUME IInv, GatewayRestart
  PROVE  IInv'
BY GatewayAssumption
   DEF GatewayRestart, IInv, GatewayTypeOK, HandlersSound, SubsSound, SubsOfSessions,
       RoutingSound, PresenceCall, NoPresenceCall, Status, rows, status

\* Every step keeps the invariant.
LEMMA NextKeeps == IInv /\ [GatewayNext]_gatewayVars => IInv'
<1> SUFFICES ASSUME IInv, [GatewayNext]_gatewayVars PROVE IInv'
  OBVIOUS
<1>1. ASSUME NEW s \in Socket, SocketNext(s) PROVE IInv'
  BY <1>1, ConnectKeeps, StatusKeeps, CloseKeeps, SubscribeKeeps
     DEF SocketNext, SocketStep, ConnectStep
<1>2. ASSUME NEW u \in User, UserNext(u) PROVE IInv'
  BY <1>2, StatusKeeps, MembershipKeeps DEF UserNext
<1>3. ASSUME NEW t \in Thread, NEW us \in SUBSET User, CreateThread(t, us) PROVE IInv'
  BY <1>3, MembershipKeeps
<1>4. CASE GatewayRestart
  BY <1>4, RestartKeeps
<1>5. CASE UNCHANGED gatewayVars
  BY <1>5 DEF IInv, GatewayTypeOK, HandlersSound, SubsSound, SubsOfSessions, RoutingSound,
              gatewayVars, tables, subs, handlers, rows, status
<1>6. QED
  BY <1>1, <1>2, <1>3, <1>4, <1>5 DEF GatewayNext

-----------------------------------------------------------------------------
\* The inductive invariant holds in every reachable state.
THEOREM GatewayInvariant == GatewaySpec => []IInv
  BY InitIInv, NextKeeps, PTL DEF GatewaySpec

\* Every variable of the gateway keeps its type.
THEOREM GatewayTypeCorrect == GatewaySpec => []GatewayTypeOK
<1>1. IInv => GatewayTypeOK
  BY DEF IInv
<1>2. QED
  BY <1>1, GatewayInvariant, PTL

\* socketsByUserId lists exactly what it must: emitToUser reaches every live
\* connection of a user and nobody else's.
THEOREM RoutingSoundTheorem == GatewaySpec => []RoutingSound
<1>1. IInv => RoutingSound
  BY DEF IInv
<1>2. QED
  BY <1>1, GatewayInvariant, PTL

\* emitToChannel, emitToGuild and emitToDmThread write to members only.
THEOREM DeliveredToMembersTheorem == GatewaySpec => []DeliveredToMembers
<1>1. IInv => DeliveredToMembers
  BY DEF IInv, GatewayTypeOK, SubsSound, DeliveredToMembers, ChannelAudience, GuildAudience,
         ThreadAudience, Routed
<1>2. QED
  BY <1>1, GatewayInvariant, PTL

-----------------------------------------------------------------------------
(* Presence.  A step is of one user; while the events of a user do not      *)
(* overlap, that user has one handler at an await, and the place it is at   *)
(* tells what it has written so far.                                        *)

Calm == "overlap" \notin Env

\* The environments in which each of the three properties holds.
StoresKept == Env \cap {"overlap", "restart"} = {}
NeverOffline == Calm /\ "OFFLINE" \notin Chosen
Orderly == Env \cap {"overlap", "earlyClose", "rest", "restart"} = {}

Busy(s) == connecting[s] # "no" \/ leaving[s] # "no"

\* The connections handleConnection has registered.
Live(u) == Open(u) \cap sessions

\* A socket nobody has opened is nobody's.
Unused == \A s \in Socket : readyState[s] = "none" => socketUser[s] = NoUser

OneHandler(u) ==
    Calm =>
        /\ \A s, t \in SocketsOf(u) : Busy(s) /\ Busy(t) => s = t
        /\ \A s \in SocketsOf(u) :
              /\ Busy(s) => presenceCall[u].pc = "idle"
              /\ connecting[s] = "no" \/ leaving[s] = "no"

Agree(u) == announced[u] = presence[u] /\ redis[u] \in {presence[u], "expired"}

\* What the handler of the socket has written so far.
WrittenBy(s, u) ==
    /\ connecting[s] \in {"lookup", "redis"} \/ leaving[s] \in {"voice", "redis"} => Agree(u)
    /\ connecting[s] \in {"db", "announce"} => redis[u] \in {"ONLINE", "expired"}
    /\ connecting[s] = "announce" => presence[u] = "ONLINE"
    /\ leaving[s] \in {"db", "announce"} => redis[u] \in {"OFFLINE", "expired"}
    /\ leaving[s] = "announce" => presence[u] = "OFFLINE"

\* What presence_set or PATCH /presence/me has written so far.
WrittenByCall(u) ==
    /\ presenceCall[u].pc \in {"wsRedis", "restDb"} => Agree(u)
    /\ presenceCall[u].pc \in {"wsDb", "announce"} =>
          redis[u] \in {presenceCall[u].status, "expired"}
    /\ presenceCall[u].pc \in {"restRedis", "announce"} =>
          presence[u] = presenceCall[u].status

StoresFollowed(u) ==
    StoresKept =>
        /\ Quiet(u) => Agree(u)
        /\ \A s \in SocketsOf(u) : WrittenBy(s, u)
        /\ WrittenByCall(u)

OnlineFollowed(u) ==
    NeverOffline =>
        /\ presenceCall[u].pc # "idle" => presenceCall[u].status # "OFFLINE"
        /\ \A s \in SocketsOf(u) : leaving[s] # "no" => Live(u) = {}
        /\ Live(u) # {} =>
              \/ presence[u] # "OFFLINE"
              \/ \E s \in SocketsOf(u) : connecting[s] \in {"redis", "db"}

OfflineFollowed(u) ==
    Orderly =>
        /\ \A s \in SocketsOf(u) : connecting[s] # "no" => readyState[s] = "open"
        /\ \A s \in socketsByUserId[u] : readyState[s] = "open"
        /\ presenceCall[u].pc # "idle" => Live(u) # {}
        /\ Live(u) = {} =>
              \/ presence[u] = "OFFLINE"
              \/ \E s \in SocketsOf(u) : leaving[s] \in {"voice", "redis", "db"}

UserFollowed(u) ==
    OneHandler(u) /\ StoresFollowed(u) /\ OnlineFollowed(u) /\ OfflineFollowed(u)

PresenceInv == Unused /\ \A u \in User : UserFollowed(u)

\* A step leaves the sockets, the handlers and the presence of the user alone; the
\* Redis key may expire at any time.
UserKept(u) ==
    /\ \A s \in Socket :
          /\ socketUser'[s] = u <=> socketUser[s] = u
          /\ socketUser[s] = u => /\ connecting'[s] = connecting[s] /\ leaving'[s] = leaving[s]
                                  /\ readyState'[s] = readyState[s]
                                  /\ s \in sessions' <=> s \in sessions
    /\ socketsByUserId'[u] = socketsByUserId[u]
    /\ presenceCall'[u] = presenceCall[u]
    /\ presence'[u] = presence[u] /\ announced'[u] = announced[u]
    /\ redis'[u] \in {redis[u], "expired"}

\* Such a step keeps what presence follows of that user.
LEMMA KeptFollowed ==
  ASSUME NEW u \in User, UserFollowed(u), UserKept(u),
         \A s \in socketsByUserId[u] : s \in Socket /\ socketUser[s] = u
  PROVE  UserFollowed(u)'
<1>1. SocketsOf(u)' = SocketsOf(u) /\ Live(u)' = Live(u)
  BY DEF UserKept, SocketsOf, Live, Open
<1>2. \A s \in SocketsOf(u) : /\ connecting'[s] = connecting[s] /\ leaving'[s] = leaving[s]
                              /\ readyState'[s] = readyState[s] /\ Busy(s)' = Busy(s)
  BY DEF UserKept, SocketsOf, Busy
<1>3. Quiet(u)' = Quiet(u)
  BY <1>1, <1>2 DEF Quiet, UserKept
<1>4. Agree(u) => Agree(u)'
  BY DEF Agree, UserKept
<1>5. OneHandler(u)'
  BY <1>1, <1>2 DEF UserFollowed, OneHandler, Calm, UserKept
<1>6. StoresFollowed(u)'
  <2>1. ASSUME NEW s \in SocketsOf(u), WrittenBy(s, u)
        PROVE  WrittenBy(s, u)'
    BY <1>2, <1>4, <2>1 DEF WrittenBy, UserKept
  <2>2. WrittenByCall(u) => WrittenByCall(u)'
    BY <1>4 DEF WrittenByCall, UserKept
  <2>3. QED
    BY <1>1, <1>3, <1>4, <2>1, <2>2 DEF UserFollowed, StoresFollowed, StoresKept
<1>7. OnlineFollowed(u)'
  BY <1>1, <1>2 DEF UserFollowed, OnlineFollowed, NeverOffline, Calm, UserKept
<1>8. OfflineFollowed(u)'
  BY <1>1, <1>2 DEF UserFollowed, OfflineFollowed, Orderly, UserKept, SocketsOf
<1>9. QED
  BY <1>5, <1>6, <1>7, <1>8 DEF UserFollowed

\* A step that keeps all users but one.
LEMMA OneUserMoves ==
  ASSUME IInv, PresenceInv, NEW x, Unused',
         \A u \in User : u # x => UserKept(u),
         x \in User => UserFollowed(x)'
  PROVE  PresenceInv'
<1>1. \A u \in User : \A s \in socketsByUserId[u] : s \in Socket /\ socketUser[s] = u
  BY DEF IInv, GatewayTypeOK, RoutingSound
<1>2. ASSUME NEW u \in User, u # x
      PROVE  UserFollowed(u)'
  BY <1>1, <1>2, KeptFollowed DEF PresenceInv
<1>3. QED
  BY <1>2 DEF PresenceInv

\* Nothing that presence follows changes.
LEMMA NobodyMoves ==
  ASSUME IInv, PresenceInv, Unused', \A u \in User : UserKept(u)
  PROVE  PresenceInv'
<1>1. \A u \in User : \A s \in socketsByUserId[u] : s \in Socket /\ socketUser[s] = u
  BY DEF IInv, GatewayTypeOK, RoutingSound
<1>2. QED
  BY <1>1, KeptFollowed DEF PresenceInv

\* The handler that takes a step is the only one of its user.
LEMMA Alone ==
  ASSUME NEW s \in Socket, NEW u \in User, socketUser[s] = u, Busy(s), UserFollowed(u), Calm
  PROVE  /\ \A t \in SocketsOf(u) : t # s => ~Busy(t)
         /\ presenceCall[u].pc = "idle" /\ (connecting[s] = "no" \/ leaving[s] = "no")
BY DEF UserFollowed, OneHandler, SocketsOf

\* After a step the handler of one socket is the only one of its user that may
\* be at an await: what it has written is all there is to tell.
LEMMA SoleHandler ==
  ASSUME NEW s \in Socket, NEW u \in User, socketUser'[s] = u,
         Calm => /\ \A t \in SocketsOf(u)' : t # s => ~Busy(t)'
                 /\ presenceCall'[u].pc = "idle"
                 /\ connecting'[s] = "no" \/ leaving'[s] = "no",
         StoresKept => WrittenBy(s, u)' /\ (~Busy(s)' => Agree(u)')
  PROVE  OneHandler(u)' /\ StoresFollowed(u)'
<1>1. s \in SocketsOf(u)' /\ (StoresKept => Calm)
  BY DEF SocketsOf, StoresKept, Calm
<1>2. OneHandler(u)'
  BY <1>1 DEF OneHandler, Calm, Busy
<1>3. ASSUME StoresKept
      PROVE  /\ Quiet(u)' => Agree(u)'
             /\ \A t \in SocketsOf(u)' : WrittenBy(t, u)'
             /\ WrittenByCall(u)'
  <2>1. \A t \in SocketsOf(u)' : t # s => connecting'[t] = "no" /\ leaving'[t] = "no"
    BY <1>1, <1>3 DEF Busy
  <2>2. \A t \in SocketsOf(u)' : WrittenBy(t, u)'
    BY <1>3, <2>1 DEF WrittenBy
  <2>3. WrittenByCall(u)'
    BY <1>1, <1>3 DEF WrittenByCall
  <2>4. Quiet(u)' => Agree(u)'
    BY <1>1, <1>3 DEF Quiet, Busy
  <2>5. QED
    BY <2>2, <2>3, <2>4
<1>4. QED
  BY <1>2, <1>3 DEF StoresFollowed, StoresKept

\* The others of its user are idle before the step and stay so.
LEMMA OthersIdle ==
  ASSUME IInv, NEW s \in Socket, NEW u \in User, socketUser[s] = u, socketUser'[s] = u, Calm,
         UserFollowed(u), Busy(s) \/ Quiet(u),
         \A t \in Socket : t # s => /\ connecting'[t] = connecting[t] /\ leaving'[t] = leaving[t]
                                    /\ socketUser'[t] = socketUser[t]
  PROVE  /\ \A t \in SocketsOf(u) : t # s => connecting[t] = "no" /\ leaving[t] = "no"
         /\ \A t \in SocketsOf(u)' : t # s => /\ connecting'[t] = "no" /\ leaving'[t] = "no"
                                              /\ ~Busy(t)'
         /\ presenceCall[u].pc = "idle"
         /\ SocketsOf(u)' = SocketsOf(u) /\ s \in SocketsOf(u)
<1>1. SocketsOf(u)' = SocketsOf(u) /\ s \in SocketsOf(u)
  BY DEF SocketsOf
<1>2. /\ \A t \in SocketsOf(u) : t # s => ~Busy(t)
      /\ presenceCall[u].pc = "idle"
  BY Alone DEF Quiet, Busy
<1>3. \A t \in SocketsOf(u) : t # s => connecting[t] = "no" /\ leaving[t] = "no"
  BY <1>2 DEF Busy
<1>4. QED
  BY <1>1, <1>2, <1>3 DEF Busy, SocketsOf

\* A client opens a socket.
LEMMA OpenFollows ==
  ASSUME IInv, PresenceInv, NEW s \in Socket, NEW u \in User, Connect(s, u)
  PROVE  PresenceInv'
<1>1. /\ readyState[s] = "none" /\ socketUser[s] = NoUser /\ NoUser \notin User
      /\ s \notin sessions /\ connecting[s] = "no" /\ leaving[s] = "no" /\ (Calm => Quiet(u))
  BY GatewayAssumption
     DEF Connect, MayCome, Calm, PresenceInv, Unused, IInv, GatewayTypeOK, HandlersSound
<1>2. /\ readyState' = [readyState EXCEPT ![s] = "open"]
      /\ socketUser' = [socketUser EXCEPT ![s] = u]
      /\ connecting' = [connecting EXCEPT ![s] = "lookup"]
      /\ UNCHANGED <<socketsByUserId, sessions, leaving, presenceCall, redis, presence, announced>>
  BY DEF Connect, tables, status
<1>3. /\ \A t \in Socket : t # s => /\ readyState'[t] = readyState[t] /\ socketUser'[t] = socketUser[t]
                                   /\ connecting'[t] = connecting[t]
      /\ readyState'[s] = "open" /\ socketUser'[s] = u /\ connecting'[s] = "lookup"
  BY <1>2 DEF IInv, GatewayTypeOK
<1>4. Unused'
  BY <1>3 DEF PresenceInv, Unused
<1>5. \A x \in User : x # u => UserKept(x)
  BY <1>1, <1>2, <1>3 DEF UserKept
<1>6. /\ SocketsOf(u)' = SocketsOf(u) \cup {s} /\ s \notin SocketsOf(u) /\ UserFollowed(u)
      /\ \A t \in SocketsOf(u) : t \in Socket /\ t # s
      /\ Live(u)' = Live(u)
  BY <1>1, <1>2, <1>3 DEF SocketsOf, Live, Open, PresenceInv
<1>7. Calm => /\ presenceCall[u].pc = "idle"
              /\ \A t \in SocketsOf(u) : connecting[t] = "no" /\ leaving[t] = "no"
  BY <1>1 DEF Quiet
<1>8. /\ StoresKept => Agree(u)
      /\ Agree(u)' <=> Agree(u)
  BY <1>1, <1>2, <1>6 DEF UserFollowed, StoresFollowed, StoresKept, Calm, Agree
<1>9. StoresKept => WrittenBy(s, u)'
  BY <1>1, <1>2, <1>3, <1>8 DEF WrittenBy
<1>10. OneHandler(u)' /\ StoresFollowed(u)'
  <2>1. Busy(s)' /\ leaving'[s] = "no"
    BY <1>1, <1>2, <1>3 DEF Busy
  <2>2. Calm => \A t \in SocketsOf(u)' : t # s => ~Busy(t)'
    BY <1>2, <1>3, <1>6, <1>7 DEF Busy
  <2>3. QED
    BY <1>2, <1>3, <1>7, <1>9, <2>1, <2>2, SoleHandler
<1>11. OnlineFollowed(u)'
  BY <1>1, <1>2, <1>3, <1>6, <1>7 DEF UserFollowed, OnlineFollowed, NeverOffline, Calm
<1>12. OfflineFollowed(u)'
  BY <1>1, <1>2, <1>3, <1>6, <1>7
     DEF UserFollowed, OfflineFollowed, Orderly, IInv, GatewayTypeOK, RoutingSound
<1>13. QED
  BY <1>4, <1>5, <1>10, <1>11, <1>12, OneUserMoves DEF UserFollowed

\* A connection is refused, before or after the lookup of its user.
LEMMA RejectFollows ==
  ASSUME IInv, PresenceInv, NEW s \in Socket, RejectConnection(s)
  PROVE  PresenceInv'
<1>1. /\ readyState' = [readyState EXCEPT ![s] = "closed"]
      /\ connecting' = [connecting EXCEPT ![s] = "no"]
      /\ UNCHANGED <<socketUser, socketsByUserId, sessions, leaving, presenceCall, redis,
                     presence, announced>>
  BY DEF RejectConnection, tables, status
<1>2. /\ \A t \in Socket : t # s => readyState'[t] = readyState[t] /\ connecting'[t] = connecting[t]
      /\ readyState'[s] = "closed" /\ connecting'[s] = "no" /\ s \notin sessions
  BY <1>1 DEF RejectConnection, IInv, GatewayTypeOK, HandlersSound
<1>3. Unused'
  BY <1>1, <1>2 DEF PresenceInv, Unused
<1>4. \A x \in User : x # socketUser[s] => UserKept(x)
  BY <1>1, <1>2 DEF UserKept
<1>5. ASSUME NEW u \in User, socketUser[s] = u
      PROVE  UserFollowed(u)'
  <2>1. connecting[s] = "lookup" /\ Busy(s)
    BY <1>5, GatewayAssumption DEF RejectConnection, PresenceInv, Unused, Busy
  <2>2. Live(u)' = Live(u) /\ UserFollowed(u) /\ socketUser'[s] = u
    BY <1>1, <1>2, <1>5 DEF Live, Open, SocketsOf, PresenceInv
  <2>3. Calm => leaving[s] = "no"
    BY <1>5, <2>1, <2>2, Alone
  <2>4. Calm => /\ \A t \in SocketsOf(u) : t # s => connecting[t] = "no" /\ leaving[t] = "no"
                /\ \A t \in SocketsOf(u)' : t # s => /\ connecting'[t] = "no" /\ leaving'[t] = "no"
                                                     /\ ~Busy(t)'
                /\ presenceCall[u].pc = "idle"
                /\ SocketsOf(u)' = SocketsOf(u) /\ s \in SocketsOf(u)
    BY <1>1, <1>2, <1>5, <2>1, <2>2, OthersIdle
  <2>5. StoresKept => Calm /\ Agree(u)'
    BY <1>1, <1>5, <2>1, <2>2
       DEF UserFollowed, StoresFollowed, StoresKept, Calm, WrittenBy, SocketsOf, Agree
  <2>6. StoresKept => WrittenBy(s, u)'
    BY <1>1, <1>2, <2>3, <2>5 DEF WrittenBy
  <2>7. OneHandler(u)' /\ StoresFollowed(u)'
    BY <1>1, <1>2, <2>2, <2>4, <2>5, <2>6, SoleHandler
  <2>8. OnlineFollowed(u)'
    BY <1>1, <1>2, <2>1, <2>2, <2>3, <2>4 DEF UserFollowed, OnlineFollowed, NeverOffline
  <2>9. OfflineFollowed(u)'
    <3>1. Orderly => Calm
      BY DEF Orderly, Calm
    <3>2. \A t \in socketsByUserId[u] : t # s /\ t \in Socket
      BY <1>2 DEF IInv, GatewayTypeOK, RoutingSound
    <3>3. QED
      BY <1>1, <1>2, <2>1, <2>2, <2>3, <2>4, <3>1, <3>2
         DEF UserFollowed, OfflineFollowed, Orderly, SocketsOf
  <2>10. QED
    BY <2>7, <2>8, <2>9 DEF UserFollowed
<1>6. QED
  BY <1>3, <1>4, <1>5, OneUserMoves

\* handleConnection goes on.
LEMMA ConnectFollows ==
  ASSUME IInv, PresenceInv, NEW s \in Socket, NEW u \in User, socketUser[s] = u, ConnectStep(s)
  PROVE  PresenceInv'
<1>1. /\ connecting[s] # "no" /\ Busy(s)
      /\ UNCHANGED <<readyState, socketUser, presenceCall, leaving>>
      /\ \A t \in Socket : t # s => connecting'[t] = connecting[t]
  BY DEF ConnectStep, Register, ConnectRedis, ConnectDb, ConnectAnnounce, IInv, GatewayTypeOK, Busy
<1>2. \/ /\ connecting[s] = "lookup" /\ connecting'[s] = "redis"
         /\ sessions' = sessions \cup {s}
         /\ socketsByUserId' = [socketsByUserId EXCEPT ![u] = @ \cup {s}]
         /\ UNCHANGED <<redis, presence, announced>>
      \/ /\ connecting[s] = "redis" /\ connecting'[s] = "db" /\ UNCHANGED <<sessions, socketsByUserId>>
         /\ redis' = [redis EXCEPT ![u] = "ONLINE"] /\ UNCHANGED <<presence, announced>>
      \/ /\ connecting[s] = "db" /\ connecting'[s] = "announce" /\ UNCHANGED <<sessions, socketsByUserId>>
         /\ presence' = [presence EXCEPT ![u] = "ONLINE"] /\ UNCHANGED <<redis, announced>>
      \/ /\ connecting[s] = "announce" /\ connecting'[s] = "no" /\ UNCHANGED <<sessions, socketsByUserId>>
         /\ announced' = [announced EXCEPT ![u] = "ONLINE"] /\ UNCHANGED <<redis, presence>>
  BY DEF ConnectStep, Register, ConnectRedis, ConnectDb, ConnectAnnounce, IInv, GatewayTypeOK,
         status, tables
<1>3. /\ redis'[u] = IF connecting[s] = "redis" THEN "ONLINE" ELSE redis[u]
      /\ presence'[u] = IF connecting[s] = "db" THEN "ONLINE" ELSE presence[u]
      /\ announced'[u] = IF connecting[s] = "announce" THEN "ONLINE" ELSE announced[u]
  BY <1>2 DEF IInv, GatewayTypeOK
<1>4. Unused'
  BY <1>1 DEF PresenceInv, Unused
<1>5. \A x \in User : x # u => UserKept(x)
  BY <1>1, <1>2 DEF UserKept, IInv, GatewayTypeOK
<1>6. /\ UserFollowed(u) /\ socketUser'[s] = u
      /\ StoresKept => Calm
      /\ Orderly => Calm
      /\ NeverOffline => Calm
      /\ Calm => leaving[s] = "no" /\ leaving'[s] = "no"
  BY <1>1, Alone DEF PresenceInv, StoresKept, Calm, Orderly, NeverOffline
<1>7. Calm => /\ \A t \in SocketsOf(u) : t # s => connecting[t] = "no" /\ leaving[t] = "no"
              /\ \A t \in SocketsOf(u)' : t # s => /\ connecting'[t] = "no" /\ leaving'[t] = "no"
                                                   /\ ~Busy(t)'
              /\ presenceCall[u].pc = "idle"
              /\ SocketsOf(u)' = SocketsOf(u) /\ s \in SocketsOf(u)
  BY <1>1, <1>6, OthersIdle
<1>8. StoresKept => WrittenBy(s, u)' /\ (~Busy(s)' => Agree(u)')
  <2>1. StoresKept => WrittenBy(s, u)
    BY <1>6 DEF UserFollowed, StoresFollowed, SocketsOf
  <2>2. StoresKept /\ connecting'[s] = "redis" => Agree(u)'
    BY <1>2, <1>3, <2>1 DEF WrittenBy, Agree
  <2>3. StoresKept => WrittenBy(s, u)'
    BY <1>2, <1>3, <1>6, <2>1, <2>2 DEF WrittenBy
  <2>4. StoresKept /\ ~Busy(s)' => Agree(u)'
    BY <1>2, <1>3, <2>1 DEF WrittenBy, Agree, Busy
  <2>5. QED
    BY <2>3, <2>4
<1>9. OneHandler(u)' /\ StoresFollowed(u)'
  BY <1>1, <1>6, <1>7, <1>8, SoleHandler
<1>10. /\ connecting[s] # "lookup" => s \in sessions
       /\ connecting'[s] # "redis" => Live(u)' = Live(u)
       /\ s \in sessions'
       /\ readyState[s] = "open" => s \in Live(u)'
  BY <1>1, <1>2, <1>6 DEF IInv, HandlersSound, GatewayTypeOK, Live, Open, SocketsOf
<1>11. OnlineFollowed(u)'
  <2>1. NeverOffline => \A t \in SocketsOf(u)' : leaving'[t] = "no"
    BY <1>6, <1>7
  <2>2. ASSUME NeverOffline, Live(u)' # {}
        PROVE  presence'[u] # "OFFLINE" \/ connecting'[s] \in {"redis", "db"}
    <3>1. CASE connecting[s] = "announce"
      BY <1>2, <1>3, <1>6, <1>7, <1>10, <2>2, <3>1 DEF UserFollowed, OnlineFollowed
    <3>2. QED
      BY <1>2, <1>3, <3>1
  <2>3. QED
    BY <1>1, <1>6, <1>7, <2>1, <2>2 DEF OnlineFollowed, NeverOffline
<1>12. OfflineFollowed(u)'
  <2>1. Orderly => readyState[s] = "open"
    BY <1>1, <1>6, <1>7 DEF UserFollowed, OfflineFollowed
  <2>2. socketsByUserId'[u] \subseteq socketsByUserId[u] \cup {s}
    BY <1>2 DEF IInv, GatewayTypeOK
  <2>3. Orderly => Live(u)' # {}
    BY <1>10, <2>1
  <2>4. QED
    BY <1>1, <1>6, <1>7, <2>1, <2>2, <2>3 DEF UserFollowed, OfflineFollowed, Orderly
<1>13. QED
  BY <1>4, <1>5, <1>9, <1>11, <1>12, OneUserMoves DEF UserFollowed

\* handleDisconnect goes on.
LEMMA LeaveFollows ==
  ASSUME IInv, PresenceInv, NEW s \in Socket, NEW u \in User, socketUser[s] = u,
         LeaveStep(s)
  PROVE  PresenceInv'
<1>1. /\ leaving[s] # "no" /\ Busy(s)
      /\ UNCHANGED <<readyState, socketUser, presenceCall, connecting, sessions, socketsByUserId>>
      /\ \A t \in Socket : t # s => leaving'[t] = leaving[t]
  BY DEF LeaveStep, LeaveStores, DisconnectVoice, DisconnectRedis, DisconnectDb,
         DisconnectAnnounce, IInv, GatewayTypeOK, Busy, tables
<1>2. \/ /\ leaving[s] = "voice" /\ leaving'[s] = "redis"
         /\ UNCHANGED <<redis, presence, announced>>
      \/ /\ leaving[s] = "redis" /\ leaving'[s] = "db"
         /\ redis' = [redis EXCEPT ![u] = "OFFLINE"] /\ UNCHANGED <<presence, announced>>
      \/ /\ leaving[s] = "db" /\ leaving'[s] = "announce"
         /\ presence' = [presence EXCEPT ![u] = "OFFLINE"] /\ UNCHANGED <<redis, announced>>
      \/ /\ leaving[s] = "announce" /\ leaving'[s] = "no"
         /\ announced' = [announced EXCEPT ![u] = "OFFLINE"] /\ UNCHANGED <<redis, presence>>
  BY DEF LeaveStep, LeaveStores, DisconnectVoice, DisconnectRedis, DisconnectDb,
         DisconnectAnnounce, IInv, GatewayTypeOK, status
<1>3. /\ redis'[u] = IF leaving[s] = "redis" THEN "OFFLINE" ELSE redis[u]
      /\ presence'[u] = IF leaving[s] = "db" THEN "OFFLINE" ELSE presence[u]
      /\ announced'[u] = IF leaving[s] = "announce" THEN "OFFLINE" ELSE announced[u]
  BY <1>2 DEF IInv, GatewayTypeOK
<1>4. Unused'
  BY <1>1 DEF PresenceInv, Unused
<1>5. \A x \in User : x # u => UserKept(x)
  BY <1>1, <1>2 DEF UserKept, IInv, GatewayTypeOK
<1>6. /\ UserFollowed(u) /\ socketUser'[s] = u
      /\ StoresKept => Calm
      /\ Orderly => Calm
      /\ NeverOffline => Calm
      /\ Calm => connecting[s] = "no" /\ connecting'[s] = "no"
  BY <1>1, Alone DEF PresenceInv, StoresKept, Calm, Orderly, NeverOffline
<1>7. Calm => /\ \A t \in SocketsOf(u) : t # s => connecting[t] = "no" /\ leaving[t] = "no"
              /\ \A t \in SocketsOf(u)' : t # s => /\ connecting'[t] = "no" /\ leaving'[t] = "no"
                                                   /\ ~Busy(t)'
              /\ presenceCall[u].pc = "idle"
              /\ SocketsOf(u)' = SocketsOf(u) /\ s \in SocketsOf(u)
  BY <1>1, <1>6, OthersIdle
<1>8. StoresKept => WrittenBy(s, u)' /\ (~Busy(s)' => Agree(u)')
  <2>1. StoresKept => WrittenBy(s, u)
    BY <1>6 DEF UserFollowed, StoresFollowed, SocketsOf
  <2>2. StoresKept /\ leaving'[s] = "redis" => Agree(u)'
    BY <1>2, <1>3, <2>1 DEF WrittenBy, Agree
  <2>3. StoresKept => WrittenBy(s, u)'
    BY <1>2, <1>3, <1>6, <2>1, <2>2 DEF WrittenBy
  <2>4. StoresKept /\ ~Busy(s)' => Agree(u)'
    BY <1>2, <1>3, <2>1 DEF WrittenBy, Agree, Busy
  <2>5. QED
    BY <2>3, <2>4
<1>9. OneHandler(u)' /\ StoresFollowed(u)'
  BY <1>1, <1>6, <1>7, <1>8, SoleHandler
<1>10. Live(u)' = Live(u)
  BY <1>1 DEF Live, Open, SocketsOf
<1>11. OnlineFollowed(u)'
  BY <1>1, <1>6, <1>7, <1>10 DEF UserFollowed, OnlineFollowed, NeverOffline
<1>12. OfflineFollowed(u)'
  <2>1. ASSUME Orderly, Live(u)' = {}
        PROVE  presence'[u] = "OFFLINE" \/ leaving'[s] \in {"voice", "redis", "db"}
    <3>1. CASE leaving[s] = "announce"
      BY <1>2, <1>3, <1>6, <1>7, <1>10, <2>1, <3>1 DEF UserFollowed, OfflineFollowed
    <3>2. QED
      BY <1>2, <1>3, <3>1
  <2>2. QED
    BY <1>1, <1>6, <1>7, <2>1 DEF UserFollowed, OfflineFollowed, Orderly
<1>13. QED
  BY <1>4, <1>5, <1>9, <1>11, <1>12, OneUserMoves DEF UserFollowed

\* A socket closes: the last one of its user starts the cleanup.
LEMMA CloseFollows ==
  ASSUME IInv, PresenceInv, NEW s \in Socket, Disconnect(s)
  PROVE  PresenceInv'
<1> DEFINE last == s \in sessions /\ socketsByUserId[socketUser[s]] = {s}
<1>1. /\ readyState' = [readyState EXCEPT ![s] = "closed"] /\ readyState[s] = "open"
      /\ UNCHANGED <<socketUser, sessions, connecting, presenceCall, redis, presence, announced>>
      /\ leaving' = IF last THEN [leaving EXCEPT ![s] = "voice"] ELSE leaving
      /\ socketsByUserId' = IF s \in sessions
                            THEN [socketsByUserId EXCEPT ![socketUser[s]] = @ \ {s}]
                            ELSE socketsByUserId
  BY DEF Disconnect, Closed, status
<1> HIDE DEF last
<1>2. /\ \A t \in Socket : t # s => readyState'[t] = readyState[t] /\ leaving'[t] = leaving[t]
      /\ readyState'[s] = "closed"
      /\ leaving'[s] = IF last THEN "voice" ELSE leaving[s]
  BY <1>1 DEF IInv, GatewayTypeOK
<1>3. Unused'
  BY <1>1, <1>2 DEF PresenceInv, Unused
<1>4. \A x \in User : x # socketUser[s] => UserKept(x)
  BY <1>1, <1>2 DEF UserKept, IInv, GatewayTypeOK
<1>5. ASSUME NEW u \in User, socketUser[s] = u
      PROVE  UserFollowed(u)'
  <2>1. /\ UserFollowed(u) /\ socketUser'[s] = u
        /\ StoresKept => Calm
        /\ Orderly => Calm /\ connecting[s] # "lookup"
        /\ NeverOffline => Calm
    BY <1>1, <1>5
       DEF PresenceInv, StoresKept, Calm, Orderly, NeverOffline, Disconnect, Closed, CloseMayCome
  <2>2. Calm => \/ connecting[s] = "lookup" /\ Busy(s) /\ s \notin sessions
                \/ Quiet(u)
    BY <1>5 DEF Disconnect, Closed, CloseMayCome, MayCome, Calm, Busy, IInv, HandlersSound
  <2>3. Calm => /\ \A t \in SocketsOf(u) : t # s => connecting[t] = "no" /\ leaving[t] = "no"
                /\ \A t \in SocketsOf(u)' : t # s => /\ connecting'[t] = "no" /\ leaving'[t] = "no"
                                                     /\ ~Busy(t)'
                /\ presenceCall[u].pc = "idle"
                /\ SocketsOf(u)' = SocketsOf(u) /\ s \in SocketsOf(u)
    BY <1>1, <1>2, <1>5, <2>1, <2>2, OthersIdle
  <2>4. Calm => leaving[s] = "no"
    BY <1>5, <2>1, <2>2, Alone DEF Quiet, SocketsOf
  <2>5. Calm /\ last => connecting[s] = "no"
    BY <1>5, <2>2 DEF last, Quiet, SocketsOf
  <2>6. StoresKept => Agree(u)'
    <3>1. Agree(u)' <=> Agree(u)
      BY <1>1 DEF Agree
    <3>2. StoresKept => WrittenBy(s, u) /\ (Quiet(u) => Agree(u))
      BY <1>5, <2>1 DEF UserFollowed, StoresFollowed, SocketsOf
    <3>3. QED
      BY <2>1, <2>2, <3>1, <3>2 DEF WrittenBy
  <2>7. StoresKept => WrittenBy(s, u)'
    <3>1. StoresKept => connecting'[s] \in {"no", "lookup"} /\ leaving'[s] \in {"no", "voice"}
      BY <1>1, <1>2, <1>5, <2>1, <2>2, <2>4 DEF Quiet, SocketsOf
    <3>2. QED
      BY <2>6, <3>1 DEF WrittenBy
  <2>8. OneHandler(u)' /\ StoresFollowed(u)'
    <3>1. Calm => connecting'[s] = "no" \/ leaving'[s] = "no"
      BY <1>1, <1>2, <2>4, <2>5
    <3>2. QED
      BY <1>1, <2>1, <2>3, <2>6, <2>7, <3>1, SoleHandler
  <2>9. Live(u)' = Live(u) \ {s}
    BY <1>1, <1>2 DEF Live, Open, SocketsOf
  <2>10. last => Live(u)' = {}
    <3>1. Live(u) \subseteq socketsByUserId[u]
      BY DEF Live, Open, SocketsOf, IInv, RoutingSound
    <3>2. QED
      BY <1>5, <2>9, <3>1 DEF last
  <2>11. OnlineFollowed(u)'
    <3>1. NeverOffline => \A t \in SocketsOf(u)' : leaving'[t] # "no" => Live(u)' = {}
      BY <1>2, <2>1, <2>3, <2>4, <2>10
    <3>2. ASSUME NeverOffline, Live(u)' # {}
          PROVE  presence'[u] # "OFFLINE"
      <4>1. Live(u) # {}
        BY <2>9, <3>2
      <4>2. \A t \in SocketsOf(u) : connecting[t] \in {"no", "lookup"}
        BY <2>1, <2>2, <2>3, <3>2 DEF Quiet
      <4>3. QED
        BY <1>1, <2>1, <3>2, <4>1, <4>2 DEF UserFollowed, OnlineFollowed
    <3>3. QED
      BY <1>1, <2>1, <2>3, <3>1, <3>2 DEF OnlineFollowed, NeverOffline
  <2>12. OfflineFollowed(u)'
    <3>1. Orderly => connecting'[s] = "no"
      BY <1>1, <1>5, <2>1, <2>2 DEF Quiet, SocketsOf
    <3>2. s \notin socketsByUserId'[u] /\ socketsByUserId'[u] \subseteq socketsByUserId[u]
      BY <1>1, <1>5 DEF IInv, GatewayTypeOK, RoutingSound
    <3>3. Orderly => \A t \in socketsByUserId'[u] : readyState'[t] = "open"
      BY <1>2, <2>1, <3>2 DEF UserFollowed, OfflineFollowed, IInv, GatewayTypeOK
    <3>4. ASSUME Orderly, Live(u)' = {}
          PROVE  presence'[u] = "OFFLINE" \/ leaving'[s] = "voice"
      <4>1. CASE s \in sessions
        <5>1. s \in socketsByUserId[u]
          BY <1>1, <1>5, <4>1 DEF IInv, RoutingSound
        <5>2. \A t \in socketsByUserId[u] : t \in Live(u)
          BY <2>1, <3>4
             DEF UserFollowed, OfflineFollowed, Live, Open, SocketsOf, IInv, GatewayTypeOK, RoutingSound
        <5>3. last
          BY <1>5, <2>9, <3>4, <4>1, <5>1, <5>2 DEF last
        <5>4. QED
          BY <1>2, <5>3
      <4>2. CASE s \notin sessions
        <5>1. Live(u) = {}
          BY <2>9, <3>4, <4>2 DEF Live
        <5>2. \A t \in SocketsOf(u) : leaving[t] = "no"
          BY <2>1, <2>3, <2>4, <3>4
        <5>3. QED
          BY <1>1, <2>1, <3>4, <5>1, <5>2 DEF UserFollowed, OfflineFollowed
      <4>3. QED
        BY <4>1, <4>2
    <3>5. QED
      BY <1>1, <1>2, <2>1, <2>3, <3>1, <3>3, <3>4 DEF OfflineFollowed, Orderly
  <2>13. QED
    BY <2>8, <2>11, <2>12 DEF UserFollowed
<1>6. QED
  BY <1>3, <1>4, <1>5, OneUserMoves

\* An object that nothing refers to is reused: no live connection is lost.
LEMMA CollectFollows ==
  ASSUME IInv, PresenceInv, NEW s \in Socket, Collect(s)
  PROVE  PresenceInv'
<1>1. /\ readyState[s] = "closed" /\ connecting[s] = "no" /\ leaving[s] = "no"
      /\ \A x \in User : s \notin socketsByUserId[x]
      /\ readyState' = [readyState EXCEPT ![s] = "none"]
      /\ socketUser' = [socketUser EXCEPT ![s] = NoUser]
      /\ sessions' = sessions \ {s}
      /\ UNCHANGED <<socketsByUserId, connecting, leaving, presenceCall, redis, presence, announced>>
  BY DEF Collect, handlers, status
<1>2. /\ \A t \in Socket : t # s => readyState'[t] = readyState[t] /\ socketUser'[t] = socketUser[t]
      /\ readyState'[s] = "none" /\ socketUser'[s] = NoUser /\ NoUser \notin User
  BY <1>1, GatewayAssumption DEF IInv, GatewayTypeOK
<1>3. Unused'
  BY <1>2 DEF PresenceInv, Unused
<1>4. \A x \in User : x # socketUser[s] => UserKept(x)
  BY <1>1, <1>2 DEF UserKept
<1>5. ASSUME NEW u \in User, socketUser[s] = u
      PROVE  UserFollowed(u)'
  <2>1. UserFollowed(u)
    BY DEF PresenceInv
  <2>2. /\ SocketsOf(u)' = SocketsOf(u) \ {s}
        /\ Live(u)' = Live(u)
        /\ \A t \in SocketsOf(u)' : t \in SocketsOf(u) /\ readyState'[t] = readyState[t]
    BY <1>1, <1>2 DEF SocketsOf, Live, Open
  <2>3. /\ \A t \in SocketsOf(u) : Busy(t) => t \in SocketsOf(u)'
        /\ \A t : Busy(t)' <=> Busy(t)
    BY <1>1, <2>2 DEF Busy
  <2>4. (Quiet(u)' <=> Quiet(u)) /\ (Agree(u)' <=> Agree(u))
    BY <1>1, <2>2 DEF Quiet, Agree
  <2>5. OneHandler(u)'
    BY <1>1, <2>1, <2>2, <2>3 DEF UserFollowed, OneHandler, Calm
  <2>6. StoresFollowed(u)'
    <3>1. \A t \in SocketsOf(u)' : WrittenBy(t, u) => WrittenBy(t, u)'
      BY <1>1, <2>4 DEF WrittenBy
    <3>2. WrittenByCall(u) => WrittenByCall(u)'
      BY <1>1, <2>4 DEF WrittenByCall
    <3>3. QED
      BY <2>1, <2>2, <2>4, <3>1, <3>2 DEF UserFollowed, StoresFollowed, StoresKept
  <2>7. OnlineFollowed(u)'
    <3>1. \A t \in SocketsOf(u) : connecting[t] \in {"redis", "db"} => t \in SocketsOf(u)'
      BY <1>1, <2>2
    <3>2. QED
      BY <1>1, <2>1, <2>2, <3>1 DEF UserFollowed, OnlineFollowed, NeverOffline, Calm
  <2>8. OfflineFollowed(u)'
    <3>1. \A t \in SocketsOf(u) : leaving[t] # "no" => t \in SocketsOf(u)'
      BY <1>1, <2>2
    <3>2. \A t \in socketsByUserId[u] : t \in Socket /\ t # s
      BY <1>1 DEF IInv, GatewayTypeOK
    <3>3. QED
      BY <1>1, <1>2, <2>1, <2>2, <3>1, <3>2 DEF UserFollowed, OfflineFollowed, Orderly
  <2>9. QED
    BY <2>5, <2>6, <2>7, <2>8 DEF UserFollowed
<1>6. QED
  BY <1>3, <1>4, <1>5, OneUserMoves

\* presence_set and PATCH /presence/me start.
LEMMA PresenceStarts ==
  ASSUME IInv, PresenceInv, NEW u \in User, NEW st \in Chosen,
         NEW pc \in {"wsRedis", "restDb"}, StartPresence(u, pc, st),
         "rest" \in Env \/ Live(u) # {}
  PROVE  PresenceInv'
<1>1. /\ presenceCall' = [presenceCall EXCEPT ![u] = [pc |-> pc, status |-> st]]
      /\ UNCHANGED <<readyState, socketUser, sessions, socketsByUserId, connecting, leaving,
                     redis, presence, announced>>
      /\ presenceCall[u].pc = "idle" /\ (Calm => Quiet(u))
  BY DEF StartPresence, MayCome, Calm, tables, status
<1>2. presenceCall'[u].pc = pc /\ presenceCall'[u].status = st
  BY <1>1 DEF IInv, GatewayTypeOK
<1>3. Unused'
  BY <1>1 DEF PresenceInv, Unused
<1>4. \A x \in User : x # u => UserKept(x)
  BY <1>1 DEF UserKept, IInv, GatewayTypeOK
<1>5. /\ UserFollowed(u) /\ SocketsOf(u)' = SocketsOf(u) /\ Live(u)' = Live(u)
      /\ (Agree(u)' <=> Agree(u)) /\ ~Quiet(u)'
      /\ \A t : Busy(t)' <=> Busy(t)
  BY <1>1, <1>2 DEF PresenceInv, SocketsOf, Live, Open, Agree, Quiet, Busy
<1>6. Calm => \A t \in SocketsOf(u) : ~Busy(t) /\ connecting[t] = "no" /\ leaving[t] = "no"
  BY <1>1 DEF Quiet, Busy
<1>7. OneHandler(u)'
  BY <1>1, <1>5, <1>6 DEF OneHandler, Calm
<1>8. StoresFollowed(u)'
  <2>1. StoresKept => Calm /\ Agree(u)
    BY <1>1, <1>5 DEF UserFollowed, StoresFollowed, StoresKept, Calm
  <2>2. StoresKept => \A t \in SocketsOf(u) : WrittenBy(t, u)'
    BY <1>1, <1>6, <2>1 DEF WrittenBy
  <2>3. StoresKept => WrittenByCall(u)'
    BY <1>2, <1>5, <2>1 DEF WrittenByCall
  <2>4. QED
    BY <1>5, <2>2, <2>3 DEF StoresFollowed, StoresKept
<1>9. OnlineFollowed(u)'
  BY <1>1, <1>2, <1>5 DEF UserFollowed, OnlineFollowed, NeverOffline, Calm
<1>10. OfflineFollowed(u)'
  BY <1>1, <1>2, <1>5 DEF UserFollowed, OfflineFollowed, Orderly
<1>11. QED
  BY <1>3, <1>4, <1>7, <1>8, <1>9, <1>10, OneUserMoves DEF UserFollowed

\* presence_set and PATCH /presence/me go on.
LEMMA PresenceFollows ==
  ASSUME IInv, PresenceInv, NEW u \in User, PresenceStep(u)
  PROVE  PresenceInv'
<1> DEFINE st == presenceCall[u].status
           pc == presenceCall[u].pc
           next == presenceCall'[u].pc
<1>1. /\ UNCHANGED <<readyState, socketUser, sessions, socketsByUserId, connecting, leaving>>
      /\ \A x \in User : x # u => /\ presenceCall'[x] = presenceCall[x] /\ redis'[x] = redis[x]
                                  /\ presence'[x] = presence[x] /\ announced'[x] = announced[x]
  BY DEF PresenceStep, PresenceRedis, PresenceDb, PresenceAnnounce, tables, IInv, GatewayTypeOK
<1>2. \/ /\ pc \in {"wsRedis", "restRedis"} /\ next = AfterRedis[pc] /\ presenceCall'[u].status = st
         /\ redis'[u] = st /\ presence'[u] = presence[u] /\ announced'[u] = announced[u]
      \/ /\ pc \in {"wsDb", "restDb"} /\ next = AfterDb[pc] /\ presenceCall'[u].status = st
         /\ redis'[u] = redis[u] /\ presence'[u] = st /\ announced'[u] = announced[u]
      \/ /\ pc = "announce" /\ next = "idle"
         /\ redis'[u] = redis[u] /\ presence'[u] = presence[u] /\ announced'[u] = st
  BY DEF PresenceStep, PresenceRedis, PresenceDb, PresenceAnnounce, AfterRedis, AfterDb,
         NoPresenceCall, IInv, GatewayTypeOK, PresenceCall
<1>3. \/ pc = "wsRedis" /\ next = "wsDb"
      \/ pc = "wsDb" /\ next = "announce"
      \/ pc = "restDb" /\ next = "restRedis"
      \/ pc = "restRedis" /\ next = "announce"
      \/ pc = "announce" /\ next = "idle"
  BY <1>2 DEF AfterRedis, AfterDb
<1> HIDE DEF st, pc, next
<1>4. Unused'
  BY <1>1 DEF PresenceInv, Unused
<1>5. \A x \in User : x # u => UserKept(x)
  BY <1>1 DEF UserKept, IInv, GatewayTypeOK
<1>6. /\ UserFollowed(u) /\ SocketsOf(u)' = SocketsOf(u) /\ Live(u)' = Live(u)
      /\ \A t : Busy(t)' <=> Busy(t)
  BY <1>1 DEF PresenceInv, SocketsOf, Live, Open, Busy
<1>7. pc # "idle"
  BY <1>3
<1>8. Calm => \A t \in SocketsOf(u) : ~Busy(t) /\ connecting[t] = "no" /\ leaving[t] = "no"
  BY <1>6, <1>7 DEF UserFollowed, OneHandler, Busy, pc
<1>9. OneHandler(u)'
  BY <1>1, <1>6, <1>8 DEF OneHandler, Calm
<1>10. StoresFollowed(u)'
  <2>1. StoresKept => Calm /\ WrittenByCall(u)
    BY <1>6 DEF UserFollowed, StoresFollowed, StoresKept, Calm
  <2>2. StoresKept => \A t \in SocketsOf(u) : WrittenBy(t, u)'
    BY <1>1, <1>8, <2>1 DEF WrittenBy
  <2>3. StoresKept => /\ pc \in {"wsRedis", "restDb"} => Agree(u)
                      /\ pc \in {"wsDb", "announce"} => redis[u] \in {st, "expired"}
                      /\ pc \in {"restRedis", "announce"} => presence[u] = st
    BY <2>1 DEF WrittenByCall, st, pc
  <2>4. StoresKept => /\ next \in {"wsDb", "announce"} => redis'[u] \in {st, "expired"}
                      /\ next \in {"restRedis", "announce"} => presence'[u] = st
                      /\ next = "idle" => Agree(u)'
    <3>1. ASSUME StoresKept, next = "idle"
          PROVE  Agree(u)'
      BY <1>2, <1>3, <2>3, <3>1 DEF Agree
    <3>2. QED
      BY <1>2, <1>3, <2>3, <3>1
  <2>5. StoresKept => WrittenByCall(u)'
    <3>1. next # "idle" => presenceCall'[u].status = st
      BY <1>2
    <3>2. next \notin {"wsRedis", "restDb"}
      BY <1>3
    <3>3. QED
      BY <2>4, <3>1, <3>2 DEF WrittenByCall, next
  <2>6. StoresKept => (Quiet(u)' => Agree(u)')
    BY <2>4 DEF Quiet, next
  <2>7. QED
    BY <1>6, <2>2, <2>5, <2>6 DEF StoresFollowed, StoresKept
<1>11. OnlineFollowed(u)'
  <2>1. ASSUME NeverOffline
        PROVE  /\ st # "OFFLINE"
               /\ Live(u) # {} => presence[u] # "OFFLINE"
    BY <1>6, <1>7, <1>8, <2>1 DEF UserFollowed, OnlineFollowed, NeverOffline, st, pc
  <2>2. NeverOffline =>
          /\ next # "idle" => presenceCall'[u].status # "OFFLINE"
          /\ Live(u)' # {} => presence'[u] # "OFFLINE"
    BY <1>2, <1>6, <2>1
  <2>3. QED
    BY <1>1, <1>6, <1>8, <2>2 DEF OnlineFollowed, NeverOffline, next
<1>12. OfflineFollowed(u)'
  <2>1. Orderly => Live(u)' # {}
    BY <1>6, <1>7 DEF UserFollowed, OfflineFollowed, pc
  <2>2. QED
    BY <1>1, <1>6, <2>1 DEF UserFollowed, OfflineFollowed, Orderly
<1>13. QED
  BY <1>4, <1>5, <1>9, <1>10, <1>11, <1>12, OneUserMoves DEF UserFollowed

\* Subscriptions, memberships and an expiring Redis key move nobody.
LEMMA RestFollows ==
  ASSUME IInv, PresenceInv,
         \/ \E s \in Socket : \/ \E cs \in Asked : SubscribeChannels(s, cs)
                              \/ \E ts \in SUBSET Thread : SubscribeDm(s, ts)
                              \/ Subscribed(s)
         \/ \E u \in User : RedisExpire(u) \/ \E g \in Guild : JoinGuild(u, g)
         \/ \E t \in Thread, us \in SUBSET User : CreateThread(t, us)
         \/ UNCHANGED gatewayVars
  PROVE  PresenceInv'
<1>1. /\ UNCHANGED <<readyState, socketUser, sessions, socketsByUserId, connecting, leaving,
                     presenceCall, presence, announced>>
      /\ \A u \in User : redis'[u] \in {redis[u], "expired"}
  BY DEF SubscribeChannels, SubscribeDm, Subscribed, RedisExpire, JoinGuild, CreateThread,
         gatewayVars, tables, handlers, status, IInv, GatewayTypeOK
<1>2. Unused' /\ \A u \in User : UserKept(u)
  BY <1>1 DEF PresenceInv, Unused, UserKept
<1>3. QED
  BY <1>2, NobodyMoves

\* A server without connections has nothing to follow.
LEMMA InitFollows == GatewayInit => PresenceInv
<1> SUFFICES ASSUME GatewayInit PROVE PresenceInv
  OBVIOUS
<1>1. Unused
  BY DEF GatewayInit, NoSockets, Unused
<1>2. ASSUME NEW u \in User
      PROVE  UserFollowed(u)
  <2>1. /\ \A s \in SocketsOf(u) : ~Busy(s) /\ connecting[s] = "no" /\ leaving[s] = "no"
        /\ presenceCall[u].pc = "idle" /\ Live(u) = {} /\ socketsByUserId[u] = {}
        /\ redis[u] = "expired" /\ presence[u] = "OFFLINE" /\ announced[u] = "OFFLINE"
    BY DEF GatewayInit, NoSockets, Busy, SocketsOf, Live, Open, NoPresenceCall
  <2>2. OneHandler(u) /\ OnlineFollowed(u) /\ OfflineFollowed(u)
    BY <2>1 DEF OneHandler, OnlineFollowed, OfflineFollowed
  <2>3. StoresFollowed(u)
    BY <2>1 DEF StoresFollowed, WrittenBy, WrittenByCall, Agree
  <2>4. QED
    BY <2>2, <2>3 DEF UserFollowed
<1>3. QED
  BY <1>1, <1>2 DEF PresenceInv

\* A restart leaves the stores as they are: of the three, only NeverOffline
\* allows one, and it says nothing of a user without a connection.
LEMMA RestartFollows ==
  ASSUME GatewayRestart
  PROVE  PresenceInv'
<1>1. Unused'
  BY DEF GatewayRestart, Unused
<1>2. ASSUME NEW u \in User
      PROVE  UserFollowed(u)'
  <2>1. /\ \A s \in SocketsOf(u)' : ~Busy(s)' /\ connecting'[s] = "no" /\ leaving'[s] = "no"
        /\ presenceCall'[u].pc = "idle" /\ Live(u)' = {}
    BY DEF GatewayRestart, Busy, SocketsOf, Live, Open, NoPresenceCall
  <2>2. ~StoresKept /\ ~Orderly
    BY DEF GatewayRestart, StoresKept, Orderly
  <2>3. OneHandler(u)' /\ OnlineFollowed(u)'
    BY <2>1 DEF OneHandler, OnlineFollowed
  <2>4. QED
    BY <2>2, <2>3 DEF UserFollowed, StoresFollowed, OfflineFollowed
<1>3. QED
  BY <1>1, <1>2 DEF PresenceInv

\* Every step keeps what presence follows.
LEMMA NextFollows == IInv /\ PresenceInv /\ [GatewayNext]_gatewayVars => PresenceInv'
<1> SUFFICES ASSUME IInv, PresenceInv, [GatewayNext]_gatewayVars PROVE PresenceInv'
  OBVIOUS
<1>1. ASSUME NEW s \in Socket, ConnectStep(s) \/ LeaveStep(s)
      PROVE  PresenceInv'
  <2>1. PICK u \in User : socketUser[s] = u
    BY <1>1 DEF ConnectStep, LeaveStep, LeaveStores, Register, ConnectRedis, ConnectDb,
                ConnectAnnounce, DisconnectVoice, DisconnectRedis, DisconnectDb,
                DisconnectAnnounce, IInv, HandlersSound
  <2>2. QED
    BY <1>1, <2>1, ConnectFollows, LeaveFollows
<1>2. ASSUME NEW s \in Socket, NEW st \in Chosen, PresenceSet(s, st)
      PROVE  PresenceInv'
  <2>1. PICK u \in User : socketUser[s] = u
    BY <1>2 DEF PresenceSet, IInv, HandlersSound
  <2>2. s \in Live(u)
    BY <1>2, <2>1 DEF PresenceSet, Live, Open, SocketsOf
  <2>3. StartPresence(u, "wsRedis", st)
    BY <1>2, <2>1 DEF PresenceSet
  <2>4. QED
    BY <2>2, <2>3, PresenceStarts
<1>3. ASSUME NEW s \in Socket, SocketNext(s)
      PROVE  PresenceInv'
  BY <1>1, <1>2, <1>3, OpenFollows, RejectFollows, CollectFollows, CloseFollows, RestFollows
     DEF SocketNext, SocketStep, LeaveStep
<1>4. ASSUME NEW u \in User, NEW st \in Chosen, UpdateStatus(u, st)
      PROVE  PresenceInv'
  <2>1. "rest" \in Env \/ Live(u) # {}
    BY <1>4 DEF UpdateStatus, Live, Open, SocketsOf, IInv, GatewayTypeOK, RoutingSound
  <2>2. QED
    BY <1>4, <2>1, PresenceStarts DEF UpdateStatus
<1>5. ASSUME NEW u \in User, UserNext(u)
      PROVE  PresenceInv'
  BY <1>4, <1>5, PresenceFollows, RestFollows DEF UserNext
<1>6. CASE GatewayRestart
  BY <1>6, RestartFollows
<1>7. QED
  BY <1>3, <1>5, <1>6, RestFollows DEF GatewayNext

\* What presence follows holds in every reachable state.
THEOREM PresenceInvariant == GatewaySpec => [](IInv /\ PresenceInv)
<1>1. GatewayInit => IInv /\ PresenceInv
  BY InitIInv, InitFollows
<1>2. (IInv /\ PresenceInv) /\ [GatewayNext]_gatewayVars => (IInv /\ PresenceInv)'
  BY NextKeeps, NextFollows
<1>3. QED
  BY <1>1, <1>2, PTL DEF GatewaySpec

\* Where the events of a user do not overlap, a connected user who chose no
\* OFFLINE is not shown OFFLINE, whatever closes early, expires or restarts.
THEOREM ConnectedNotOfflineTheorem == NeverOffline => (GatewaySpec => []ConnectedNotOffline)
<1> SUFFICES ASSUME NeverOffline PROVE GatewaySpec => []ConnectedNotOffline
  OBVIOUS
<1>1. IInv /\ PresenceInv => ConnectedNotOffline
  BY DEF PresenceInv, UserFollowed, OnlineFollowed, ConnectedNotOffline, Quiet, Live
<1>2. QED
  BY <1>1, PresenceInvariant, PTL

\* Where, besides, sockets do not close before their registration, nothing is set
\* without a connection and the server stays up, a user who is gone is OFFLINE.
THEOREM GoneIsOfflineTheorem == Orderly => (GatewaySpec => []GoneIsOffline)
<1> SUFFICES ASSUME Orderly PROVE GatewaySpec => []GoneIsOffline
  OBVIOUS
<1>1. IInv /\ PresenceInv => GoneIsOffline
  BY DEF PresenceInv, UserFollowed, OfflineFollowed, GoneIsOffline, Quiet, Live
<1>2. QED
  BY <1>1, PresenceInvariant, PTL

\* Where events do not overlap and the server stays up, Postgres, Redis and the
\* clients agree on every user without a running handler.
THEOREM StoresAgreeTheorem == StoresKept => (GatewaySpec => []StoresAgree)
<1> SUFFICES ASSUME StoresKept PROVE GatewaySpec => []StoresAgree
  OBVIOUS
<1>1. IInv /\ PresenceInv => StoresAgree
  BY DEF PresenceInv, UserFollowed, StoresFollowed, StoresAgree, Agree
<1>2. QED
  BY <1>1, PresenceInvariant, PTL

-----------------------------------------------------------------------------
(* Voice states.  The properties of voice rows and of the cache are not    *)
(* inductive: rows are written from what a request read or checked before  *)
(* its last await, so the invariant says what is still true of that.       *)

\* What a request has checked still holds when it writes; a row with the id of
\* one it has read is still the same user's in the same guild; and what a
\* speaking event has read may go into the cache.
RequestsSound ==
    \A k \in Call : call[k].pc # "idle" =>
        /\ call[k].pc \in {"upsert", "deleteStale", "joined", "updated"} => Placed(call[k])
        /\ \A f \in call[k].found : \A r \in voice :
              r.id = f.id => r.user = f.user /\ r.guild = f.guild
        /\ call[k].pc \in {"write", "fill"} =>
              \A f \in call[k].found : f.user = call[k].user /\ f.guild = call[k].guild
        /\ call[k].pc = "fill" =>
              /\ \A f \in call[k].found : Placed(f)
              /\ \A f1, f2 \in call[k].found : f1 = f2

VInv ==
    IInv /\ VoiceTypeOK /\ VoiceRowsValid /\ AudioAdmitsMembers /\ RequestsSound

-----------------------------------------------------------------------------
\* Every step of the composition is a step of the gateway or leaves it alone.
LEMMA VoiceStepMaps == [VoiceNext]_vars => [GatewayNext]_gatewayVars
<1>1. ASSUME NEW k \in Call, CallStep(k) \/ SpeakRequest(k) \/ \E u \in User : UserRequest(k, u)
      PROVE  UNCHANGED gatewayVars
  BY <1>1 DEF CallStep, JoinUpsert, JoinDeleteStale, JoinDone, LeaveDelete, LeaveDone,
              UpdateWrite, UpdateDone, ListDelete, ListDone, SpeakFind, SpeakFill,
              SpeakRequest, UserRequest, Join, Leave, Update, List, Speak, Receive
<1>2. ASSUME NEW s \in Socket, CleanupStep(s) \/ Close(s)
      PROVE  GatewayNext \/ UNCHANGED gatewayVars
  BY <1>2 DEF CleanupStep, CleanupFind, CleanupDelete, CleanupDone, Close, GatewayNext,
              SocketNext
<1>3. GatewayStep \/ ServerRestart => GatewayNext
  BY DEF GatewayStep, ServerRestart, GatewayNext, SocketNext
<1>4. UNCHANGED vars => UNCHANGED gatewayVars
  BY DEF vars
<1>5. QED
  BY <1>1, <1>2, <1>3, <1>4 DEF VoiceNext

\* No step removes a member from a guild.
LEMMA MembersStay ==
  ASSUME IInv, [GatewayNext]_gatewayVars
  PROVE  \A g \in Guild : member[g] \subseteq member'[g]
<1>1. ASSUME NEW s \in Socket, SocketNext(s) PROVE UNCHANGED member
  BY <1>1 DEF SocketNext, SocketStep, ConnectStep, LeaveStores, Connect, RejectConnection,
              Register, ConnectRedis, ConnectDb, ConnectAnnounce, Disconnect, Closed, DisconnectVoice,
              DisconnectRedis, DisconnectDb, DisconnectAnnounce, SubscribeChannels, SubscribeDm,
              Subscribed, PresenceSet, StartPresence, Collect, rows
<1>2. ASSUME NEW u \in User, UserNext(u) PROVE \A g \in Guild : member[g] \subseteq member'[g]
  BY <1>2 DEF UserNext, UpdateStatus, StartPresence, PresenceStep, PresenceRedis, PresenceDb,
              PresenceAnnounce, RedisExpire, JoinGuild, IInv, GatewayTypeOK, rows
<1>3. QED
  BY <1>1, <1>2 DEF GatewayNext, CreateThread, GatewayRestart, gatewayVars, rows

\* The invariant holds of an empty table and an empty cache.
LEMMA InitVInv == VoiceInit => VInv
  BY InitIInv DEF VoiceInit, VInv, VoiceTypeOK, VoiceRowsValid, AudioAdmitsMembers,
                  RequestsSound, IdleCall, NoCleanup

-----------------------------------------------------------------------------
\* Steps that only remove rows and cache entries, and move requests on.
LEMMA ShrinkKeeps ==
  ASSUME VInv, IInv', VoiceTypeOK', \A g \in Guild : member[g] \subseteq member'[g],
         voice' \subseteq voice, cache' \subseteq cache,
         \A k \in Call :
            \/ call'[k] = IdleCall
            \/ call'[k] = call[k]
            \/ /\ call[k] \in VoiceCall
               /\ \/ call'[k] = [call[k] EXCEPT !.pc = "left"]
                  \/ call'[k] = [call[k] EXCEPT !.pc = "evicted"]
                  \/ call'[k] = [call[k] EXCEPT !.pc = "joined"] /\ call[k].pc = "deleteStale"
  PROVE  VInv'
<1>1. \A r \in Row \cup Entry : Placed(r) => Placed(r)'
  BY DEF Placed, Row, Entry
<1>2. VoiceRowsValid'
  BY <1>1 DEF VInv, VoiceTypeOK, VoiceRowsValid
<1>3. AudioAdmitsMembers'
  BY <1>1 DEF VInv, VoiceTypeOK, AudioAdmitsMembers
<1>4. RequestsSound'
  <2> SUFFICES ASSUME NEW k \in Call, call'[k].pc # "idle"
               PROVE  /\ call'[k].pc \in {"upsert", "deleteStale", "joined", "updated"} =>
                            Placed(call[k])'
                      /\ \A f \in call'[k].found : \A r \in voice' :
                            r.id = f.id => r.user = f.user /\ r.guild = f.guild
                      /\ call'[k].pc \in {"write", "fill"} =>
                            \A f \in call'[k].found : f.user = call'[k].user /\ f.guild = call'[k].guild
                      /\ call'[k].pc = "fill" =>
                            /\ \A f \in call'[k].found : Placed(f)'
                            /\ \A f1, f2 \in call'[k].found : f1 = f2
    BY DEF RequestsSound
  <2>1. call[k] \in VoiceCall
    BY DEF VInv, VoiceTypeOK, IdleCall
  <2>2. /\ call'[k].user = call[k].user /\ call'[k].guild = call[k].guild
        /\ call'[k].channel = call[k].channel /\ call'[k].found = call[k].found
        /\ \/ call'[k].pc = call[k].pc
           \/ call'[k].pc \in {"left", "evicted"}
           \/ call'[k].pc = "joined" /\ call[k].pc = "deleteStale"
    <3>1. call'[k] # IdleCall
      BY DEF IdleCall
    <3>2. CASE call'[k] = call[k]
      BY <3>2
    <3>3. CASE call'[k] = [call[k] EXCEPT !.pc = "left"]
      BY <2>1, <3>3 DEF VoiceCall
    <3>4. CASE call'[k] = [call[k] EXCEPT !.pc = "evicted"]
      BY <2>1, <3>4 DEF VoiceCall
    <3>5. CASE call'[k] = [call[k] EXCEPT !.pc = "joined"] /\ call[k].pc = "deleteStale"
      BY <2>1, <3>5 DEF VoiceCall
    <3>6. QED
      BY <3>1, <3>2, <3>3, <3>4, <3>5
  <2>3. call[k].pc # "idle"
    BY <2>1 DEF VoiceCall, VoicePc
  <2>4. call[k].guild \in Guild /\ call[k].found \subseteq Row
    BY <2>1 DEF VoiceCall
  <2>5. QED
    BY <1>1, <2>2, <2>3, <2>4 DEF VInv, RequestsSound, Placed
<1>5. QED
  BY <1>2, <1>3, <1>4 DEF VInv

\* A request is taken in with rows that are in the table.
LEMMA ReceiveKeeps ==
  ASSUME VInv, IInv', NEW k \in Call, NEW u \in User, NEW g \in Guild, NEW c \in Channel,
         NEW m \in BOOLEAN, NEW rs \in SUBSET voice,
         NEW pc \in {"upsert", "delete", "write", "evict", "speak"},
         Receive(k, u, pc, g, c, m, rs),
         pc = "upsert" => c \in VoiceChannel /\ GuildOf[c] = g /\ u \in member[g],
         pc = "write" => \A r \in rs : r.user = u /\ r.guild = g
  PROVE  VInv'
<1> DEFINE q == [pc |-> pc, user |-> u, guild |-> g, channel |-> c, muted |-> m, found |-> rs]
<1>1. q \in VoiceCall
  BY DEF VoiceCall, VoicePc, VInv, VoiceTypeOK
<1>2. call' = [call EXCEPT ![k] = q] /\ UNCHANGED <<member, voice, cache, cleanup, told>>
  BY DEF Receive, gatewayVars, rows
<1>3. VoiceTypeOK' /\ VoiceRowsValid' /\ AudioAdmitsMembers'
  BY <1>1, <1>2 DEF VInv, VoiceTypeOK, VoiceRowsValid, AudioAdmitsMembers, Placed
<1>4. RequestsSound'
  BY <1>1, <1>2 DEF VInv, VoiceTypeOK, VoiceRowsValid, RequestsSound, Placed
<1>5. QED
  BY <1>3, <1>4 DEF VInv
-----------------------------------------------------------------------------
\* What is true of a request that is under way.
LEMMA CallTyped ==
  ASSUME VInv, NEW k \in Call, call[k].pc # "idle"
  PROVE  /\ call[k] \in VoiceCall
         /\ call[k].pc \in VoicePc /\ call[k].user \in User /\ call[k].guild \in Guild
         /\ call[k].channel \in Channel /\ call[k].muted \in BOOLEAN
         /\ call[k].found \subseteq Row
  BY DEF VInv, VoiceTypeOK, IdleCall, VoiceCall

\* The new row takes the place of the one of its user and guild, under its id
\* or under one that no row and no request refers to.
LEMMA JoinUpsertKeeps ==
  ASSUME VInv, IInv', NEW k \in Call, JoinUpsert(k)
  PROVE  VInv'
<1> DEFINE q == call[k]
           old == RowOf(q.user, q.guild)
<1>1. /\ q \in VoiceCall /\ q.user \in User /\ q.guild \in Guild /\ q.channel \in Channel
      /\ q.muted \in BOOLEAN /\ q.found \subseteq Row /\ Placed(q)
  BY CallTyped DEF JoinUpsert, At, VInv, RequestsSound
<1>2. PICK i \in IF old = {} THEN FreshId ELSE {r.id : r \in old} :
         voice' = (voice \ old) \cup {[id |-> i, guild |-> q.guild, user |-> q.user,
                                       channel |-> q.channel, muted |-> q.muted]}
  BY DEF JoinUpsert
<1> DEFINE n == [id |-> i, guild |-> q.guild, user |-> q.user,
                 channel |-> q.channel, muted |-> q.muted]
<1>3. /\ UNCHANGED <<member, cache, cleanup, told>>
      /\ \E pc \in {"joined", "deleteStale"} : call' = [call EXCEPT ![k].pc = pc]
  BY DEF JoinUpsert, Goto, gatewayVars, rows
<1>4. old \subseteq voice /\ \A r \in old : r.user = q.user /\ r.guild = q.guild
  BY DEF RowOf, RowsOf
<1>5. i \in RowId
  BY <1>2, <1>4 DEF FreshId, VInv, VoiceTypeOK, Row
<1>6. n \in Row /\ Placed(n)
  BY <1>1, <1>5 DEF Row, Placed
<1>7. \A r \in voice \ old : r.id # i /\ (r.user # q.user \/ r.guild # q.guild)
  BY <1>2, <1>4 DEF FreshId, RowOf, RowsOf, VInv, VoiceRowsValid
<1>8. \A j \in Call : call[j].pc # "idle" =>
         \A f \in call[j].found : f.id = i => f.user = q.user /\ f.guild = q.guild
  <2> SUFFICES ASSUME NEW j \in Call, call[j].pc # "idle", NEW f \in call[j].found, f.id = i
               PROVE  f.user = q.user /\ f.guild = q.guild
    OBVIOUS
  <2>1. CASE old = {}
    BY <1>2, <2>1 DEF FreshId, At
  <2>2. CASE old # {}
    BY <1>2, <1>4, <2>2 DEF VInv, RequestsSound
  <2>3. QED
    BY <2>1, <2>2
<1> HIDE DEF n, old
<1>9. voice' = (voice \ old) \cup {n}
  BY <1>2 DEF n
<1>10. n.id = i /\ n.user = q.user /\ n.guild = q.guild
  BY DEF n
<1>11. \A j \in Call : /\ call'[j].pc # "idle" => call[j].pc # "idle"
                       /\ call'[j].pc # "idle" => /\ call'[j].user = call[j].user
                                                  /\ call'[j].guild = call[j].guild
                                                  /\ call'[j].channel = call[j].channel
                                                  /\ call'[j].found = call[j].found
                       /\ \/ call'[j].pc = call[j].pc
                          \/ j = k /\ call'[j].pc \in {"joined", "deleteStale"}
  BY <1>1, <1>3 DEF VInv, VoiceTypeOK, VoiceCall, VoicePc
<1>12. VoiceTypeOK'
  BY <1>1, <1>3, <1>4, <1>6, <1>9 DEF VInv, VoiceTypeOK, VoiceCall, VoicePc
<1>13. VoiceRowsValid' /\ AudioAdmitsMembers'
  BY <1>3, <1>6, <1>7, <1>9, <1>10 DEF VInv, VoiceRowsValid, AudioAdmitsMembers, Placed
<1>14. RequestsSound'
  BY <1>1, <1>3, <1>8, <1>9, <1>10, <1>11 DEF VInv, RequestsSound, Placed
<1>15. QED
  BY <1>12, <1>13, <1>14 DEF VInv

\* Postgres writes the flags into the row that is there, and the request takes
\* the channel of that row.
LEMMA UpdateWriteKeeps ==
  ASSUME VInv, IInv', NEW k \in Call, UpdateWrite(k)
  PROVE  VInv'
<1> DEFINE q == call[k]
           rs == WithId(q.found)
<1>1. /\ q \in VoiceCall /\ q.user \in User /\ q.guild \in Guild /\ q.channel \in Channel
      /\ q.muted \in BOOLEAN /\ q.found \subseteq Row
  BY CallTyped DEF UpdateWrite, At
<1>2. rs \subseteq voice /\ \A r \in rs : r.user = q.user /\ r.guild = q.guild
  <2>1. q.pc = "write"
    BY DEF UpdateWrite, At
  <2>2. rs \subseteq voice /\ \A r \in rs : \E f \in q.found : r.id = f.id
    BY DEF WithId
  <2>3. \A f \in q.found : /\ f.user = q.user /\ f.guild = q.guild
                          /\ \A r \in voice : r.id = f.id => r.user = f.user /\ r.guild = f.guild
    BY <2>1 DEF VInv, RequestsSound
  <2>4. QED
    BY <2>2, <2>3
<1>3. /\ voice' = (voice \ rs) \cup {[r EXCEPT !.muted = q.muted] : r \in rs}
      /\ UNCHANGED <<member, cache, cleanup, told>>
  BY DEF UpdateWrite, gatewayVars, rows
<1>4. \A n \in voice' : /\ n \in Row
                        /\ \E r \in voice : /\ r.id = n.id /\ r.user = n.user
                                            /\ r.guild = n.guild /\ r.channel = n.channel
                                            /\ \/ n = r /\ r \notin rs
                                               \/ n = [r EXCEPT !.muted = q.muted] /\ r \in rs
  <2> SUFFICES ASSUME NEW n \in voice'
               PROVE  /\ n \in Row
                      /\ \E r \in voice : /\ r.id = n.id /\ r.user = n.user
                                          /\ r.guild = n.guild /\ r.channel = n.channel
                                          /\ \/ n = r /\ r \notin rs
                                             \/ n = [r EXCEPT !.muted = q.muted] /\ r \in rs
    OBVIOUS
  <2>1. CASE n \in voice \ rs
    BY <2>1 DEF VInv, VoiceTypeOK
  <2>2. ASSUME NEW r \in rs, n = [r EXCEPT !.muted = q.muted] PROVE r \in Row /\ n \in Row
    BY <1>1, <1>2, <2>2 DEF VInv, VoiceTypeOK, Row
  <2>3. QED
    BY <1>2, <1>3, <2>1, <2>2 DEF Row
<1> HIDE DEF rs
<1>5. VoiceRowsValid' /\ AudioAdmitsMembers'
  BY <1>3, <1>4 DEF VInv, VoiceRowsValid, AudioAdmitsMembers, Placed
<1>6. \/ call' = [call EXCEPT ![k] = IdleCall]
      \/ \E r \in rs : call' = [call EXCEPT ![k] = [q EXCEPT !.pc = "updated",
                                                          !.channel = r.channel]]
  BY DEF UpdateWrite, Finish, rs
<1>7. CASE call' = [call EXCEPT ![k] = IdleCall]
  <2>1. VoiceTypeOK'
    BY <1>3, <1>4, <1>7 DEF VInv, VoiceTypeOK
  <2>2. RequestsSound'
    BY <1>3, <1>4, <1>7 DEF VInv, VoiceTypeOK, RequestsSound, Placed, IdleCall
  <2>3. QED
    BY <1>5, <2>1, <2>2 DEF VInv
<1>8. ASSUME NEW r \in rs, NEW p, p = [q EXCEPT !.pc = "updated", !.channel = r.channel],
             call' = [call EXCEPT ![k] = p]
      PROVE  VInv'
  <2>1. r \in voice /\ r \in Row /\ r.user = q.user /\ r.guild = q.guild /\ Placed(r)
    BY <1>2 DEF VInv, VoiceTypeOK, VoiceRowsValid
  <2>2. /\ p \in VoiceCall /\ p.pc = "updated" /\ p.user = r.user /\ p.guild = r.guild
        /\ p.channel = r.channel /\ p.found = q.found
    BY <1>1, <1>8, <2>1 DEF VoiceCall, VoicePc, Row
  <2>3. VoiceTypeOK'
    BY <1>3, <1>4, <1>8, <2>2 DEF VInv, VoiceTypeOK
  <2>4. RequestsSound'
    <3>1. q.pc = "write"
      BY DEF UpdateWrite, At
    <3>2. \A f \in p.found : \A n \in voice : n.id = f.id => n.user = f.user /\ n.guild = f.guild
      BY <2>2, <3>1 DEF VInv, RequestsSound
    <3>3. Placed(p)'
      BY <1>3, <2>1, <2>2 DEF Placed
    <3>4. QED
      BY <1>3, <1>4, <1>8, <2>2, <3>2, <3>3 DEF VInv, VoiceTypeOK, RequestsSound, Placed
  <2>5. QED
    BY <1>5, <2>3, <2>4 DEF VInv
<1>9. QED
  BY <1>6, <1>7, <1>8
-----------------------------------------------------------------------------
\* The lists the clients show stay lists of users.
LEMMA ToldTyped ==
  ASSUME VInv, NEW rs, NEW c \in Channel, NEW u \in User
  PROVE  Leaves(rs) \in [Channel -> SUBSET User] /\ Joins(Leaves(rs), c, u) \in [Channel -> SUBSET User]
         /\ Joins(told, c, u) \in [Channel -> SUBSET User]
<1>1. told \in [Channel -> SUBSET User]
  BY DEF VInv, VoiceTypeOK
<1>2. Leaves(rs) \in [Channel -> SUBSET User]
  BY <1>1 DEF Leaves
<1>3. QED
  BY <1>1, <1>2 DEF Joins

\* A request ends by entering what it has written into the cache.
LEMMA TrackKeeps ==
  ASSUME VInv, IInv', NEW k \in Call, NEW es \in SUBSET cache, NEW e \in Entry, Placed(e),
         cache' = Track(es, e), UNCHANGED <<member, voice, cleanup>>,
         told' \in [Channel -> SUBSET User], Finish(k)
  PROVE  VInv'
<1>1. cache' = Untrack(es, {e}) \cup {e} /\ Untrack(es, {e}) \subseteq cache
  BY DEF Track, Untrack
<1>2. \A x \in Untrack(es, {e}) : x.user # e.user \/ x.guild # e.guild
  BY DEF Untrack
<1>3. VoiceTypeOK'
  BY <1>1 DEF VInv, VoiceTypeOK, Finish
<1>4. VoiceRowsValid' /\ AudioAdmitsMembers'
  BY <1>1, <1>2 DEF VInv, VoiceRowsValid, AudioAdmitsMembers, Placed
<1>5. RequestsSound'
  BY DEF VInv, VoiceTypeOK, RequestsSound, Finish, IdleCall, Placed
<1>6. QED
  BY <1>3, <1>4, <1>5 DEF VInv

\* What goes into the cache is the row that was written.
LEMMA DoneKeeps ==
  ASSUME VInv, IInv', NEW k \in Call, JoinDone(k) \/ UpdateDone(k)
  PROVE  VInv'
<1> DEFINE q == call[k]
<1>1. /\ q.user \in User /\ q.guild \in Guild /\ q.channel \in Channel /\ q.muted \in BOOLEAN
      /\ Placed(q)
  BY CallTyped DEF JoinDone, UpdateDone, At, VInv, RequestsSound
<1>2. PICK e : e = [guild |-> q.guild, user |-> q.user, channel |-> q.channel, muted |-> q.muted]
  OBVIOUS
<1>3. e \in Entry /\ Placed(e)
  BY <1>1, <1>2 DEF Entry, Placed
<1>4. UNCHANGED <<member, voice, cleanup>> /\ Finish(k)
  BY DEF JoinDone, UpdateDone, gatewayVars, rows
<1>5. CASE JoinDone(k)
  <2>1. Untrack(cache, Stale(k)) \in SUBSET cache /\ cache' = Track(Untrack(cache, Stale(k)), e)
    BY <1>2, <1>5 DEF JoinDone, Untrack
  <2>2. told' \in [Channel -> SUBSET User]
    BY <1>1, <1>5, ToldTyped DEF JoinDone
  <2>3. QED
    BY <1>3, <1>4, <2>1, <2>2, TrackKeeps
<1>6. CASE UpdateDone(k)
  <2>1. cache' = Track(cache, e)
    BY <1>2, <1>6 DEF UpdateDone
  <2>2. told' \in [Channel -> SUBSET User]
    BY <1>1, <1>6, ToldTyped DEF UpdateDone
  <2>3. QED
    BY <1>3, <1>4, <2>1, <2>2, TrackKeeps
<1>7. QED
  BY <1>5, <1>6

\* The row a speaking event reads is its own user's; it may be stale by the
\* time it goes into the cache, but members stay members.
LEMMA SpeakKeeps ==
  ASSUME VInv, IInv', NEW k \in Call, SpeakFind(k) \/ SpeakFill(k)
  PROVE  VInv'
<1>1. /\ call[k] \in VoiceCall /\ call[k].user \in User /\ call[k].guild \in Guild
      /\ call[k].found \subseteq Row /\ call[k].pc # "idle"
  BY CallTyped DEF SpeakFind, SpeakFill, At
<1>2. UNCHANGED <<member, voice, cleanup, told>>
  BY DEF SpeakFind, SpeakFill, gatewayVars, rows
<1>3. CASE SpeakFind(k)
  <2>1. PICK rs : rs = RowOf(call[k].user, call[k].guild)
    OBVIOUS
  <2>2. PICK p : p = [call[k] EXCEPT !.pc = "fill", !.found = rs]
    OBVIOUS
  <2>3. /\ rs \subseteq voice /\ rs \subseteq Row
        /\ \A r \in rs : r.user = call[k].user /\ r.guild = call[k].guild
    BY <2>1 DEF RowOf, RowsOf, VInv, VoiceTypeOK
  <2>4. /\ p \in VoiceCall /\ p.pc = "fill" /\ p.user = call[k].user /\ p.guild = call[k].guild
        /\ p.found = rs
    BY <1>1, <2>2, <2>3 DEF VoiceCall, VoicePc
  <2>5. call' = [call EXCEPT ![k] = p] /\ cache' = cache
    BY <1>3, <2>1, <2>2 DEF SpeakFind
  <2>6. VoiceTypeOK' /\ VoiceRowsValid' /\ AudioAdmitsMembers'
    BY <1>2, <2>4, <2>5 DEF VInv, VoiceTypeOK, VoiceRowsValid, AudioAdmitsMembers, Placed
  <2>7. /\ \A f \in rs : Placed(f) /\ \A r \in voice : r.id = f.id => r = f
        /\ \A f1, f2 \in rs : f1 = f2
    BY <2>3 DEF VInv, VoiceRowsValid
  <2>8. RequestsSound'
    BY <1>2, <2>3, <2>4, <2>5, <2>7 DEF VInv, VoiceTypeOK, RequestsSound, Placed
  <2>9. QED
    BY <2>6, <2>8 DEF VInv
<1>4. CASE SpeakFill(k)
  <2>1. PICK rs : rs = call[k].found
    OBVIOUS
  <2>2. /\ rs \subseteq Row /\ \A f \in rs : Placed(f) /\ f.user = call[k].user /\ f.guild = call[k].guild
        /\ \A f1, f2 \in rs : f1 = f2
    BY <1>1, <1>4, <2>1 DEF SpeakFill, At, VInv, RequestsSound
  <2>3. /\ cache' = Untrack(cache, rs) \cup {EntryOf(r) : r \in rs}
        /\ call' = [call EXCEPT ![k] = IdleCall]
    BY <1>4, <2>1 DEF SpeakFill, Finish
  <2>4. \A r \in rs : /\ EntryOf(r) \in Entry /\ Placed(EntryOf(r))
                      /\ EntryOf(r).user = r.user /\ EntryOf(r).guild = r.guild
    BY <2>2 DEF EntryOf, Entry, Row, Placed
  <2>5. /\ Untrack(cache, rs) \subseteq cache
        /\ \A x \in Untrack(cache, rs), r \in rs : x.user # r.user \/ x.guild # r.guild
    BY DEF Untrack
  <2>6. \A e \in cache' : e \in Untrack(cache, rs) \/ \E r \in rs : e = EntryOf(r)
    BY <2>3
  <2>7. VoiceTypeOK'
    BY <1>2, <2>3, <2>4, <2>5, <2>6 DEF VInv, VoiceTypeOK
  <2>8. AudioAdmitsMembers'
    <3>1. \A e \in cache' : Placed(e)
      BY <2>4, <2>5, <2>6 DEF VInv, AudioAdmitsMembers
    <3>2. ASSUME NEW e1 \in cache', NEW e2 \in cache', e1.guild = e2.guild, e1.user = e2.user
          PROVE  e1 = e2
      BY <2>2, <2>4, <2>5, <2>6, <3>2 DEF VInv, AudioAdmitsMembers
    <3>3. QED
      BY <1>2, <3>1, <3>2 DEF AudioAdmitsMembers, Placed
  <2>9. VoiceRowsValid' /\ RequestsSound'
    BY <1>2, <2>3 DEF VInv, VoiceTypeOK, VoiceRowsValid, RequestsSound, IdleCall, Placed
  <2>10. QED
    BY <2>7, <2>8, <2>9 DEF VInv
<1>5. QED
  BY <1>3, <1>4
-----------------------------------------------------------------------------
\* Requests are taken in with what the table holds at that moment.
LEMMA RequestKeeps ==
  ASSUME VInv, IInv', NEW k \in Call,
         SpeakRequest(k) \/ \E u \in User : UserRequest(k, u)
  PROVE  VInv'
<1>1. ASSUME NEW u \in User, NEW c \in VoiceChannel, NEW m \in Flags, Join(k, u, c, m)
      PROVE  VInv'
  <2>1. c \in Channel /\ GuildOf[c] \in Guild /\ m \in BOOLEAN /\ RowsOf(u) \in SUBSET voice
    BY VoiceAssumption, GatewayAssumption DEF RowsOf
  <2>2. QED
    BY <1>1, <2>1, ReceiveKeeps DEF Join
<1>2. ASSUME NEW u \in User, NEW g \in Guild, Leave(k, u, g) PROVE VInv'
  <2>1. PICK r \in RowOf(u, g) : Receive(k, u, "delete", g, r.channel, r.muted, {r})
    BY <1>2 DEF Leave
  <2>2. r \in voice /\ r.channel \in Channel /\ r.muted \in BOOLEAN
    BY DEF RowOf, RowsOf, VInv, VoiceTypeOK, Row
  <2>3. {r} \in SUBSET voice
    BY <2>2
  <2>4. QED
    BY <2>1, <2>2, <2>3, ReceiveKeeps
<1>3. ASSUME NEW u \in User, NEW g \in Guild, NEW m \in Flags, Update(k, u, g, m) PROVE VInv'
  <2>1. PICK r \in RowOf(u, g) : Receive(k, u, "write", g, r.channel, m, {r})
    BY <1>3 DEF Update
  <2>2. r \in voice /\ r.channel \in Channel /\ m \in BOOLEAN /\ r.user = u /\ r.guild = g
    BY VoiceAssumption DEF RowOf, RowsOf, VInv, VoiceTypeOK, Row
  <2>3. {r} \in SUBSET voice
    BY <2>2
  <2>4. QED
    BY <2>1, <2>2, <2>3, ReceiveKeeps
<1>4. ASSUME NEW u \in User, NEW c \in Channel, List(k, u, c) PROVE VInv'
  <2>1. PICK rs : rs = {r \in voice : r.channel = c /\ presence[r.user] = "OFFLINE"}
    OBVIOUS
  <2>2. rs \in SUBSET voice /\ GuildOf[c] \in Guild
    BY <2>1, GatewayAssumption
  <2>3. Receive(k, u, "evict", GuildOf[c], c, FALSE, rs)
    BY <1>4, <2>1 DEF List
  <2>4. QED
    BY <2>2, <2>3, ReceiveKeeps
<1>5. ASSUME NEW s \in Socket, NEW g \in Guild, NEW c \in Channel, Speak(k, s, g, c) PROVE VInv'
  <2>1. socketUser[s] \in User
    BY <1>5 DEF Speak, VInv, IInv, HandlersSound
  <2>2. Receive(k, socketUser[s], "speak", g, c, FALSE, {})
    BY <1>5 DEF Speak
  <2>3. {} \in SUBSET voice
    OBVIOUS
  <2>4. QED
    BY <2>1, <2>2, <2>3, ReceiveKeeps
<1>6. QED
  BY <1>1, <1>2, <1>3, <1>4, <1>5 DEF UserRequest, SpeakRequest

\* The writes that only delete, and the code after them.
LEMMA DeleteKeeps ==
  ASSUME VInv, IInv', NEW k \in Call,
         JoinDeleteStale(k) \/ LeaveDelete(k) \/ LeaveDone(k) \/ ListDelete(k) \/ ListDone(k)
  PROVE  VInv'
<1>1. call[k] \in VoiceCall
  BY CallTyped DEF JoinDeleteStale, LeaveDelete, LeaveDone, ListDelete, ListDone, At
<1>2. /\ voice' \subseteq voice /\ cache' \subseteq cache /\ UNCHANGED <<member, cleanup>>
      /\ told' \in [Channel -> SUBSET User]
  <2>1. told \in [Channel -> SUBSET User] /\ Leaves(call[k].found) \in [Channel -> SUBSET User]
    BY DEF VInv, VoiceTypeOK, Leaves
  <2>2. QED
    BY <2>1 DEF JoinDeleteStale, LeaveDelete, LeaveDone, ListDelete, ListDone, Untrack,
                gatewayVars, rows
<1>3. \/ call' = [call EXCEPT ![k] = IdleCall]
      \/ call' = [call EXCEPT ![k].pc = "joined"] /\ call[k].pc = "deleteStale"
      \/ call' = [call EXCEPT ![k].pc = "left"]
      \/ call' = [call EXCEPT ![k].pc = "evicted"]
  BY DEF JoinDeleteStale, LeaveDelete, LeaveDone, ListDelete, ListDone, At, Goto, Finish
<1>4. PICK p : /\ call' = [call EXCEPT ![k] = p]
               /\ \/ p = IdleCall
                  \/ p = [call[k] EXCEPT !.pc = "joined"] /\ call[k].pc = "deleteStale"
                  \/ p = [call[k] EXCEPT !.pc = "left"]
                  \/ p = [call[k] EXCEPT !.pc = "evicted"]
  BY <1>3
<1>5. p \in VoiceCall \cup {IdleCall}
  BY <1>1, <1>4 DEF VoiceCall, VoicePc
<1>6. VoiceTypeOK'
  BY <1>2, <1>4, <1>5 DEF VInv, VoiceTypeOK
<1>7. \A j \in Call : call'[j] = IF j = k THEN p ELSE call[j]
  BY <1>4 DEF VInv, VoiceTypeOK
<1>8. QED
  BY <1>1, <1>2, <1>4, <1>6, <1>7, ShrinkKeeps

\* The steps that move no request: handleDisconnect, the gateway, a restart.
LEMMA OtherKeeps ==
  ASSUME VInv, IInv', \A g \in Guild : member[g] \subseteq member'[g],
         \/ \E s \in Socket : CleanupStep(s) \/ Close(s)
         \/ GatewayStep
         \/ ServerRestart
         \/ UNCHANGED vars
  PROVE  VInv'
<1> DEFINE Shrunk ==
      /\ voice' \subseteq voice /\ cache' \subseteq cache
      /\ call' = call \/ call' = [k \in Call |-> IdleCall]
      /\ VoiceTypeOK'
<1>1. ASSUME UNCHANGED voiceVars PROVE Shrunk
  BY <1>1 DEF VInv, VoiceTypeOK, voiceVars
<1>2. ASSUME NEW s \in Socket, CleanupStep(s) PROVE Shrunk
  <2>1. CASE CleanupFind(s)
    <3>1. CASE RowsOf(socketUser[s]) = {}
      BY <1>1, <2>1, <3>1 DEF CleanupFind
    <3>2. CASE RowsOf(socketUser[s]) # {}
      <4>1. PICK rs : rs = RowsOf(socketUser[s])
        OBVIOUS
      <4>2. rs \subseteq Row
        BY <4>1 DEF RowsOf, VInv, VoiceTypeOK
      <4>3. cleanup' = [cleanup EXCEPT ![s] = [pc |-> "delete", found |-> rs]]
            /\ UNCHANGED <<voice, cache, call, told>>
        BY <2>1, <3>2, <4>1 DEF CleanupFind
      <4>4. QED
        BY <4>2, <4>3 DEF VInv, VoiceTypeOK
    <3>3. QED
      BY <3>1, <3>2
  <2>2. CASE CleanupDelete(s)
    BY <2>2 DEF CleanupDelete, VInv, VoiceTypeOK
  <2>3. CASE CleanupDone(s)
    <3>1. Leaves(cleanup[s].found) \in [Channel -> SUBSET User]
      BY DEF VInv, VoiceTypeOK, Leaves
    <3>2. Untrack(cache, cleanup[s].found) \subseteq cache
      BY DEF Untrack
    <3>3. QED
      BY <2>3, <3>1, <3>2 DEF CleanupDone, NoCleanup, VInv, VoiceTypeOK
  <2>4. QED
    BY <1>2, <2>1, <2>2, <2>3 DEF CleanupStep
<1>3. ASSUME ServerRestart PROVE Shrunk
  <2>1. /\ voice' = voice /\ told' = told /\ cache' = {}
        /\ call' = [k \in Call |-> IdleCall] /\ cleanup' = [s \in Socket |-> NoCleanup]
    BY <1>3 DEF ServerRestart
  <2>2. VoiceTypeOK'
    BY <2>1 DEF NoCleanup, VInv, VoiceTypeOK
  <2>3. QED
    BY <2>1, <2>2
<1>4. Shrunk
  <2>1. ASSUME NEW s \in Socket, Close(s) PROVE UNCHANGED voiceVars
    BY <2>1 DEF Close
  <2>2. CASE GatewayStep
    BY <1>1, <2>2 DEF GatewayStep
  <2>3. CASE UNCHANGED vars
    BY <1>1, <2>3 DEF vars
  <2>4. QED
    BY <1>1, <1>2, <1>3, <2>1, <2>2, <2>3
<1>5. \A k \in Call : call'[k] = IdleCall \/ call'[k] = call[k]
  BY <1>4
<1>6. QED
  BY <1>4, <1>5, ShrinkKeeps

\* Every step keeps the invariant.
LEMMA VoiceNextKeeps == VInv /\ [VoiceNext]_vars => VInv'
<1> SUFFICES ASSUME VInv, [VoiceNext]_vars PROVE VInv'
  OBVIOUS
<1>1. [GatewayNext]_gatewayVars
  BY VoiceStepMaps
<1>2. IInv' /\ \A g \in Guild : member[g] \subseteq member'[g]
  BY <1>1, NextKeeps, MembersStay DEF VInv
<1>3. ASSUME NEW k \in Call, CallStep(k) PROVE VInv'
  BY <1>2, <1>3, JoinUpsertKeeps, UpdateWriteKeeps, DoneKeeps, SpeakKeeps, DeleteKeeps
     DEF CallStep
<1>4. ASSUME NEW k \in Call, SpeakRequest(k) \/ \E u \in User : UserRequest(k, u) PROVE VInv'
  BY <1>2, <1>4, RequestKeeps
<1>5. QED
  BY <1>2, <1>3, <1>4, OtherKeeps DEF VoiceNext

-----------------------------------------------------------------------------
\* Voice states are built on the gateway and on nothing else of it than its
\* interface: seen through the gateway's variables, they are the gateway.
THEOREM VoiceImplementsGateway == VoiceSpec => GatewaySpec
<1>1. VoiceInit => GatewayInit
  BY DEF VoiceInit
<1>2. QED
  BY <1>1, VoiceStepMaps, PTL DEF VoiceSpec, GatewaySpec

\* The inductive invariant holds in every reachable state.
THEOREM VoiceInvariant == VoiceSpec => []VInv
  BY InitVInv, VoiceNextKeeps, PTL DEF VoiceSpec

\* Every variable of the voice states keeps its type.
THEOREM VoiceTypeCorrect == VoiceSpec => []VoiceTypeOK
<1>1. VInv => VoiceTypeOK
  BY DEF VInv
<1>2. QED
  BY <1>1, VoiceInvariant, PTL

\* The VoiceState table is sound whatever requests, disconnects and restarts
\* overlap: rows name a voice channel of their guild and a member of it, and a
\* user has one row in a guild.
THEOREM VoiceRowsValidTheorem == VoiceSpec => []VoiceRowsValid
<1>1. VInv => VoiceRowsValid
  BY DEF VInv
<1>2. QED
  BY <1>1, VoiceInvariant, PTL

\* The cache that handleVoiceAudio consults never admits somebody who is not a
\* member of the guild, nor a user twice.
THEOREM AudioAdmitsMembersTheorem == VoiceSpec => []AudioAdmitsMembers
<1>1. VInv => AudioAdmitsMembers
  BY DEF VInv
<1>2. QED
  BY <1>1, VoiceInvariant, PTL

-----------------------------------------------------------------------------
(***************************************************************************)
(* From here on: the voice states while the requests of a user do not      *)
(* overlap and nobody chooses OFFLINE.  The cache, the table and what the  *)
(* subscribers of a channel are shown agree on every user without a        *)
(* request or a handler under way, and a user is in one voice channel.     *)
(* Between two awaits they disagree, and the invariant says by how much at *)
(* each of them.                                                           *)
(***************************************************************************)

\* What the voice states hold of one user: the entries of the cache and the
\* channels whose subscribers are shown the user.
EntriesOf(u) == {e \in cache : e.user = u}
ShownIn(u) == {c \in Channel : u \in told[c]}

Entered(e, u) == \E r \in RowsOf(u) : EntryOf(r) = e

\* The cache holds nothing of the user but copies of rows.
Cached(u) == \A e \in EntriesOf(u) : Entered(e, u)

\* The user is shown where the rows say, or where the rows that were read said.
ShownAt(u, rs) == \A c \in Channel : c \in ShownIn(u) <=> \E r \in rs : r.channel = c

OneRow(u) == \A r1, r2 \in RowsOf(u) : r1 = r2

\* What a request has read is still so, and what it has written and not yet
\* entered in the cache is all the cache may be wrong about.
CallCached(k, u) ==
    /\ \A f \in call[k].found : f.user = u
    /\ call[k].pc \in {"upsert", "delete", "write", "speak", "fill"} => Cached(u)
    /\ call[k].pc = "upsert" => call[k].found = RowsOf(u)
    /\ call[k].pc \in {"delete", "write", "fill"} => call[k].found \subseteq RowsOf(u)
    /\ call[k].pc \in {"delete", "write", "left"} =>
          \E f \in call[k].found : call[k].found = {f} /\ f.guild = call[k].guild
    /\ call[k].pc = "write" => \A f \in call[k].found : call[k].channel = f.channel
    /\ call[k].pc \in {"left", "updated"} =>
          \A e \in EntriesOf(u) : Entered(e, u) \/ e.guild = call[k].guild
    /\ call[k].pc \in {"deleteStale", "joined"} =>
          \A e \in EntriesOf(u) : \/ e.guild = call[k].guild
                                  \/ \E r \in Stale(k) : r.guild = e.guild
    /\ call[k].pc \in {"deleteStale", "joined", "updated"} => Entered(EntryOf(call[k]), u)
    /\ call[k].pc = "deleteStale" =>
          \A r \in RowsOf(u) : r.guild = call[k].guild \/ r \in Stale(k)
    /\ call[k].pc = "joined" => \A r \in RowsOf(u) : r.guild = call[k].guild

\* The subscribers are shown what the rows said when the request was taken in.
CallShown(k, u) ==
    /\ call[k].pc \in {"upsert", "deleteStale", "joined", "delete", "left"} =>
          ShownAt(u, call[k].found)
    /\ call[k].pc \in {"delete", "write", "updated", "speak", "fill"} => OneRow(u)
    /\ call[k].pc = "left" => RowsOf(u) = {}
    /\ call[k].pc \in {"write", "updated", "speak", "fill"} => ShownAt(u, RowsOf(u))

\* handleDisconnect: the rows are gone before the cache and the subscribers know.
LeaveCached(s, u) ==
    /\ leaving[s] # "no" => CallsOf(u) = {}
    /\ leaving[s] \in {"redis", "db", "announce"} => RowsOf(u) = {}
    /\ cleanup[s].pc = "delete" => cleanup[s].found = RowsOf(u)
    /\ cleanup[s].pc = "emit" =>
          /\ RowsOf(u) = {}
          /\ \A e \in EntriesOf(u) : \E f \in cleanup[s].found : f.guild = e.guild
          /\ "restart" \notin Env => ShownAt(u, cleanup[s].found)
    /\ \A f \in cleanup[s].found : f.user = u

\* One request of a user at a time, and none of somebody who is OFFLINE; where
\* nothing is at work on a user, cache, rows and screens agree.
VoiceFollowed(u) ==
    /\ \A k, j \in CallsOf(u) : k = j
    /\ CallsOf(u) # {} \/ RowsOf(u) # {} => presence[u] # "OFFLINE"
    /\ \A s \in SocketsOf(u) : LeaveCached(s, u)
    /\ \A k \in CallsOf(u) : CallCached(k, u) /\ ("restart" \notin Env => CallShown(k, u))
    /\ CallsOf(u) = {} /\ (\A s \in SocketsOf(u) : cleanup[s].pc # "emit") =>
          Cached(u) /\ ("restart" \notin Env => OneRow(u) /\ ShownAt(u, RowsOf(u)))

\* Nobody is evicted, as nobody who is OFFLINE has a row; handleDisconnect
\* removes from voice only before it touches the stores.
CleanupSound ==
    /\ \A k \in Call : ~At(k, "evict") /\ ~At(k, "evicted")
    /\ \A s \in Socket : IF cleanup[s].pc = "no" THEN cleanup[s].found = {}
                                                ELSE leaving[s] = "voice"

\* The strengthening the theorems need beside VInv and PresenceInv.
FollowInv == CleanupSound /\ \A u \in User : VoiceFollowed(u)

-----------------------------------------------------------------------------
\* A step leaves what the voice states hold of the user alone.
TablesKept(u) ==
    /\ RowsOf(u)' = RowsOf(u)
    /\ EntriesOf(u)' = EntriesOf(u)
    /\ ShownIn(u)' = ShownIn(u)

VoiceKept(u) ==
    /\ TablesKept(u)
    /\ CallsOf(u)' = CallsOf(u) /\ \A k \in CallsOf(u) : call'[k] = call[k]
    /\ SocketsOf(u)' = SocketsOf(u)
    /\ \A s \in SocketsOf(u) : leaving'[s] = leaving[s] /\ cleanup'[s] = cleanup[s]
    /\ presence'[u] = presence[u]

\* Such a step keeps what holds of that user.
LEMMA VoiceKeptFollowed ==
  ASSUME NEW u \in User, VoiceFollowed(u), VoiceKept(u)
  PROVE  VoiceFollowed(u)'
<1>1. /\ \A e : Entered(e, u)' <=> Entered(e, u)
      /\ Cached(u)' <=> Cached(u)
      /\ OneRow(u)' <=> OneRow(u)
      /\ \A rs : ShownAt(u, rs) <=> \A c \in Channel : c \in ShownIn(u)' <=> \E r \in rs : r.channel = c
  BY DEF VoiceKept, TablesKept, Entered, Cached, OneRow, ShownAt
<1>2. ASSUME NEW s \in SocketsOf(u), LeaveCached(s, u)
      PROVE  LeaveCached(s, u)'
  BY <1>1, <1>2 DEF VoiceKept, TablesKept, LeaveCached, ShownAt
<1>3. ASSUME NEW k \in CallsOf(u), CallCached(k, u)
      PROVE  CallCached(k, u)'
  <2>1. Stale(k)' = Stale(k)
    BY DEF VoiceKept, Stale
  <2>2. QED
    BY <1>1, <1>3, <2>1 DEF VoiceKept, TablesKept, CallCached
<1>4. ASSUME NEW k \in CallsOf(u), CallShown(k, u)
      PROVE  CallShown(k, u)'
  BY <1>1, <1>4 DEF VoiceKept, TablesKept, CallShown, ShownAt
<1>5. ShownAt(u, RowsOf(u)) => ShownAt(u, RowsOf(u))'
  BY <1>1 DEF VoiceKept, TablesKept, ShownAt
<1>6. QED
  BY <1>1, <1>2, <1>3, <1>4, <1>5 DEF VoiceKept, TablesKept, VoiceFollowed

\* Rows of one user are replaced or deleted.
LEMMA RowsMove ==
  ASSUME NEW u \in User, NEW del, NEW add, voice' = (voice \ del) \cup add,
         \A r \in del \cup add : r.user = u
  PROVE  /\ \A x : x # u => RowsOf(x)' = RowsOf(x)
         /\ RowsOf(u)' = (RowsOf(u) \ del) \cup add
BY DEF RowsOf

\* Leave events of one user are sent, and its entries of those guilds deleted.
LEMMA LeavesMove ==
  ASSUME VInv, NEW u \in User, NEW rs, \A r \in rs : r.user = u
  PROVE  /\ \A e \in cache : e \in Untrack(cache, rs) <=>
                e.user # u \/ \A r \in rs : e.guild # r.guild
         /\ \A c \in Channel : /\ \A x \in User : x # u => (x \in Leaves(rs)[c] <=> x \in told[c])
                               /\ u \in Leaves(rs)[c] <=> u \in told[c] /\ \A r \in rs : r.channel # c
BY DEF VInv, VoiceTypeOK, Untrack, Leaves

\* A request moves on, and nobody else is touched.
LEMMA RequestMoves ==
  ASSUME VInv, FollowInv, NEW k \in Call, NEW u \in User,
         UNCHANGED <<gatewayVars, cleanup>>,
         \A j \in Call : j # k => call'[j] = call[j],
         call[k].pc # "idle" => call[k].user = u,
         call'[k].pc # "idle" => call'[k].user = u /\ call'[k].pc \notin {"evict", "evicted"},
         \A x \in User : x # u => TablesKept(x),
         VoiceFollowed(u)'
  PROVE  FollowInv'
<1>1. UNCHANGED <<socketUser, leaving, presence>>
  BY DEF gatewayVars, handlers, status
<1>2. CleanupSound'
  BY <1>1 DEF FollowInv, CleanupSound, At
<1>3. ASSUME NEW x \in User, x # u
      PROVE  VoiceKept(x)
  <2>1. SocketsOf(x)' = SocketsOf(x)
    BY <1>1 DEF SocketsOf
  <2>2. CallsOf(x)' = CallsOf(x) /\ \A j \in CallsOf(x) : call'[j] = call[j]
    BY <1>3 DEF CallsOf, At
  <2>3. QED
    BY <1>1, <1>3, <2>1, <2>2 DEF VoiceKept
<1>4. QED
  BY <1>2, <1>3, VoiceKeptFollowed DEF FollowInv

\* The one request of a user moves on: what it has written is all there is to tell.
LEMMA RequestFollowed ==
  ASSUME VInv, FollowInv, NEW k \in Call, NEW u \in User,
         UNCHANGED <<gatewayVars, cleanup>>,
         CallsOf(u) \subseteq {k}, CallsOf(u)' \subseteq {k},
         \A s \in SocketsOf(u) : leaving[s] = "no",
         presence[u] # "OFFLINE",
         CallsOf(u)' = {} => Cached(u)' /\ ("restart" \notin Env => OneRow(u)' /\ ShownAt(u, RowsOf(u))'),
         k \in CallsOf(u)' => CallCached(k, u)' /\ ("restart" \notin Env => CallShown(k, u)')
  PROVE  VoiceFollowed(u)'
<1>1. UNCHANGED <<socketUser, leaving, presence>> /\ SocketsOf(u)' = SocketsOf(u)
  BY DEF gatewayVars, handlers, status, SocketsOf
<1>2. \A s \in SocketsOf(u) : LeaveCached(s, u)'
  <2>1. \A s \in SocketsOf(u) : cleanup[s].pc = "no" \/ cleanup[s].pc \notin {"delete", "emit"}
    BY DEF FollowInv, CleanupSound, SocketsOf
  <2>2. \A s \in SocketsOf(u) : \A f \in cleanup[s].found : f.user = u
    BY DEF FollowInv, VoiceFollowed, LeaveCached
  <2>3. QED
    BY <1>1, <2>1, <2>2 DEF LeaveCached
<1>3. QED
  BY <1>1, <1>2 DEF VoiceFollowed

\* What a request under way can rely on.
LEMMA RequestAlone ==
  ASSUME VInv, FollowInv, NEW k \in Call, call[k].pc # "idle", NEW u, u = call[k].user
  PROVE  /\ u \in User /\ VoiceFollowed(u)
         /\ CallsOf(u) = {k}
         /\ \A s \in SocketsOf(u) : leaving[s] = "no"
         /\ presence[u] # "OFFLINE"
         /\ CallCached(k, u) /\ ("restart" \notin Env => CallShown(k, u))
<1>1. u \in User /\ VoiceFollowed(u)
  BY CallTyped DEF FollowInv
<1>2. k \in CallsOf(u)
  BY DEF CallsOf, At, FollowInv, CleanupSound
<1>3. CallsOf(u) = {k}
  BY <1>1, <1>2 DEF VoiceFollowed
<1>4. QED
  BY <1>1, <1>2, <1>3 DEF VoiceFollowed, LeaveCached

-----------------------------------------------------------------------------
\* A request is taken in from a connected user with none under way.
LEMMA ReceiveFollows ==
  ASSUME NeverOffline, VInv, PresenceInv, FollowInv, NEW k \in Call, NEW u \in User,
         NEW g, NEW c, NEW m, NEW rs \in SUBSET RowsOf(u),
         NEW pc \in {"upsert", "delete", "write", "speak"},
         Receive(k, u, pc, g, c, m, rs), VoiceMayCome(u),
         pc = "upsert" => rs = RowsOf(u),
         pc \in {"delete", "write"} => \E r \in rs : rs = {r} /\ r.guild = g /\ r.channel = c
  PROVE  FollowInv'
<1>1. VoiceQuiet(u) /\ presence[u] # "OFFLINE" /\ VoiceFollowed(u)
  BY DEF VoiceMayCome, VoiceQuiet, NeverOffline, Calm, PresenceInv, UserFollowed,
         OnlineFollowed, Quiet, Live, FollowInv
<1>2. /\ CallsOf(u) = {} /\ call[k].pc = "idle"
      /\ \A s \in SocketsOf(u) : leaving[s] = "no" /\ cleanup[s].pc = "no"
  BY <1>1 DEF VoiceQuiet, Quiet, Receive, At, FollowInv, CleanupSound, SocketsOf
<1>3. /\ UNCHANGED <<gatewayVars, voice, cache, cleanup, told>>
      /\ \A j \in Call : j # k => call'[j] = call[j]
      /\ call'[k].pc = pc /\ call'[k].user = u /\ call'[k].guild = g /\ call'[k].channel = c
      /\ call'[k].found = rs
  BY DEF Receive, VInv, VoiceTypeOK
<1>4. /\ \A x \in User : TablesKept(x)
      /\ Cached(u)' = Cached(u) /\ OneRow(u)' = OneRow(u)
      /\ RowsOf(u)' = RowsOf(u) /\ ShownIn(u)' = ShownIn(u)
  BY <1>3 DEF TablesKept, RowsOf, EntriesOf, ShownIn, Cached, Entered, OneRow
<1>5. Cached(u) /\ ("restart" \notin Env => OneRow(u) /\ ShownAt(u, RowsOf(u)))
  BY <1>1, <1>2 DEF VoiceFollowed
<1>6. CallsOf(u)' = {k}
  BY <1>2, <1>3 DEF CallsOf, At
<1>7. \A f \in rs : f.user = u
  BY DEF RowsOf
<1>8. CallCached(k, u)'
  BY <1>3, <1>4, <1>5, <1>7 DEF CallCached
<1>9. "restart" \notin Env => CallShown(k, u)'
  <2>1. "restart" \notin Env /\ pc = "delete" => rs = RowsOf(u)
    BY <1>5 DEF OneRow
  <2>2. QED
    BY <1>3, <1>4, <1>5, <2>1 DEF CallShown, ShownAt
<1>10. VoiceFollowed(u)'
  BY <1>1, <1>2, <1>3, <1>6, <1>8, <1>9, RequestFollowed
<1>11. QED
  BY <1>2, <1>3, <1>4, <1>10, RequestMoves

\* The rows of a user with a row are not OFFLINE: nothing is ever listed as stale.
LEMMA NoneListed ==
  ASSUME VInv, FollowInv, NEW c
  PROVE  {r \in voice : r.channel = c /\ presence[r.user] = "OFFLINE"} = {}
BY DEF VInv, VoiceTypeOK, Row, FollowInv, VoiceFollowed, RowsOf

\* Requests of all kinds.
LEMMA RequestsFollow ==
  ASSUME NeverOffline, VInv, PresenceInv, FollowInv, NEW k \in Call,
         SpeakRequest(k) \/ \E u \in User : UserRequest(k, u)
  PROVE  FollowInv'
<1>1. ASSUME NEW u \in User, NEW c \in VoiceChannel, NEW m \in Flags, Join(k, u, c, m)
      PROVE  FollowInv'
  BY <1>1, ReceiveFollows DEF Join
<1>2. ASSUME NEW u \in User, NEW g \in Guild, Leave(k, u, g) PROVE FollowInv'
  <2>1. PICK r \in RowOf(u, g) : Receive(k, u, "delete", g, r.channel, r.muted, {r})
    BY <1>2 DEF Leave
  <2>2. {r} \in SUBSET RowsOf(u) /\ r.guild = g
    BY DEF RowOf
  <2>3. VoiceMayCome(u)
    BY <1>2 DEF Leave
  <2>4. QED
    BY <2>1, <2>2, <2>3, ReceiveFollows
<1>3. ASSUME NEW u \in User, NEW g \in Guild, NEW m \in Flags, Update(k, u, g, m) PROVE FollowInv'
  <2>1. PICK r \in RowOf(u, g) : Receive(k, u, "write", g, r.channel, m, {r})
    BY <1>3 DEF Update
  <2>2. {r} \in SUBSET RowsOf(u) /\ r.guild = g
    BY DEF RowOf
  <2>3. VoiceMayCome(u)
    BY <1>3 DEF Update
  <2>4. QED
    BY <2>1, <2>2, <2>3, ReceiveFollows
<1>4. ASSUME NEW u \in User, NEW c \in Channel, List(k, u, c) PROVE FollowInv'
  BY <1>4, NoneListed DEF List
<1>5. ASSUME NEW s \in Socket, NEW g \in Guild, NEW c \in Channel, Speak(k, s, g, c) PROVE FollowInv'
  <2>1. socketUser[s] \in User /\ VoiceMayCome(socketUser[s])
    BY <1>5 DEF Speak, VInv, IInv, HandlersSound
  <2>2. Receive(k, socketUser[s], "speak", g, c, FALSE, {})
    BY <1>5 DEF Speak
  <2>3. {} \in SUBSET RowsOf(socketUser[s])
    OBVIOUS
  <2>4. QED
    BY <2>1, <2>2, <2>3, ReceiveFollows
<1>6. QED
  BY <1>1, <1>2, <1>3, <1>4, <1>5 DEF UserRequest, SpeakRequest

-----------------------------------------------------------------------------
\* The upsert: the row of the guild is the one asked for.
LEMMA JoinUpsertFollows ==
  ASSUME VInv, FollowInv, NEW k \in Call, JoinUpsert(k)
  PROVE  FollowInv'
<1>1. PICK q : q = call[k]
  OBVIOUS
<1>2. PICK u : u = q.user
  OBVIOUS
<1>3. PICK old : old = RowOf(u, q.guild)
  OBVIOUS
<1>4. PICK n : /\ voice' = (voice \ old) \cup {n}
               /\ n.user = u /\ n.guild = q.guild /\ EntryOf(n) = EntryOf(q)
  BY <1>1, <1>2, <1>3 DEF JoinUpsert, EntryOf
<1>5. /\ UNCHANGED <<gatewayVars, cache, cleanup, told>>
      /\ \A j \in Call : j # k => call'[j] = call[j]
      /\ call'[k].pc = IF Stale(k) = {} THEN "joined" ELSE "deleteStale"
      /\ call'[k].user = u /\ call'[k].guild = q.guild /\ call'[k].found = q.found
      /\ EntryOf(call'[k]) = EntryOf(q)
      /\ q.pc = "upsert"
  BY <1>1, <1>2, CallTyped DEF JoinUpsert, Goto, At, VInv, VoiceTypeOK, VoiceCall, EntryOf
<1>6. /\ u \in User /\ VoiceFollowed(u)
      /\ CallsOf(u) = {k}
      /\ \A s \in SocketsOf(u) : leaving[s] = "no"
      /\ presence[u] # "OFFLINE"
      /\ CallCached(k, u) /\ ("restart" \notin Env => CallShown(k, u))
  BY <1>1, <1>2, <1>5, RequestAlone
<1>7. old \subseteq RowsOf(u) /\ \A r \in RowsOf(u) : r \in old <=> r.guild = q.guild
  BY <1>3 DEF RowOf
<1>8. /\ \A x : x # u => RowsOf(x)' = RowsOf(x)
      /\ RowsOf(u)' = (RowsOf(u) \ old) \cup {n}
  BY <1>4, <1>6, <1>7, RowsMove DEF RowsOf
<1>9. \A x : /\ x # u => TablesKept(x)
             /\ EntriesOf(x)' = EntriesOf(x) /\ ShownIn(x)' = ShownIn(x)
  BY <1>5, <1>8 DEF TablesKept, EntriesOf, ShownIn
<1>10. CallsOf(u)' = {k} /\ Stale(k)' = Stale(k)
  BY <1>5, <1>6, <1>1 DEF CallsOf, At, Stale
<1>11. /\ Cached(u) /\ q.found = RowsOf(u) /\ \A f \in q.found : f.user = u
       /\ "restart" \notin Env => ShownAt(u, q.found)
  BY <1>1, <1>5, <1>6 DEF CallCached, CallShown
<1>12. Entered(EntryOf(call[k]), u)'
  BY <1>4, <1>5, <1>8 DEF Entered
<1>13. \A e \in EntriesOf(u)' : e.guild = q.guild \/ \E r \in Stale(k) : r.guild = e.guild
  <2>1. \A e \in EntriesOf(u) : \E r \in RowsOf(u) : r.guild = e.guild
    BY <1>11 DEF Cached, Entered, EntryOf
  <2>2. QED
    BY <1>1, <1>9, <1>11, <2>1 DEF Stale
<1>14. /\ \A r \in RowsOf(u)' : r.guild = q.guild \/ r \in Stale(k)
       /\ Stale(k) = {} => \A r \in RowsOf(u)' : r.guild = q.guild
  BY <1>1, <1>4, <1>8, <1>11 DEF Stale
<1>15. CallCached(k, u)'
  BY <1>5, <1>10, <1>11, <1>12, <1>13, <1>14 DEF CallCached
<1>16. "restart" \notin Env => CallShown(k, u)'
  BY <1>5, <1>9, <1>11 DEF CallShown, ShownAt
<1>17. VoiceFollowed(u)'
  BY <1>5, <1>6, <1>10, <1>15, <1>16, RequestFollowed
<1>18. QED
  BY <1>1, <1>2, <1>5, <1>6, <1>9, <1>17, RequestMoves

\* The rows of the other guilds go.
LEMMA JoinDeleteStaleFollows ==
  ASSUME VInv, FollowInv, NEW k \in Call, JoinDeleteStale(k)
  PROVE  FollowInv'
<1>1. PICK q : q = call[k]
  OBVIOUS
<1>2. PICK u : u = q.user
  OBVIOUS
<1>3. PICK del : del = WithId(Stale(k))
  OBVIOUS
<1>4. /\ UNCHANGED <<gatewayVars, cache, cleanup, told>>
      /\ \A j \in Call : j # k => call'[j] = call[j]
      /\ call'[k].pc = "joined" /\ call'[k].user = u /\ call'[k].guild = q.guild
      /\ call'[k].found = q.found /\ EntryOf(call'[k]) = EntryOf(q)
      /\ voice' = voice \ del /\ q.pc = "deleteStale"
  BY <1>1, <1>2, <1>3, CallTyped
     DEF JoinDeleteStale, Goto, At, VInv, VoiceTypeOK, VoiceCall, EntryOf
<1>5. /\ u \in User /\ VoiceFollowed(u)
      /\ CallsOf(u) = {k}
      /\ \A s \in SocketsOf(u) : leaving[s] = "no"
      /\ presence[u] # "OFFLINE"
      /\ CallCached(k, u) /\ ("restart" \notin Env => CallShown(k, u))
  BY <1>1, <1>2, <1>4, RequestAlone
<1>6. /\ \A f \in q.found : f.user = u
      /\ \A e \in EntriesOf(u) : e.guild = q.guild \/ \E r \in Stale(k) : r.guild = e.guild
      /\ Entered(EntryOf(q), u)
      /\ \A r \in RowsOf(u) : r.guild = q.guild \/ r \in Stale(k)
      /\ "restart" \notin Env => ShownAt(u, q.found)
  BY <1>1, <1>4, <1>5 DEF CallCached, CallShown
<1>7. \A r \in del : r.user = u /\ r.guild # q.guild
  <2>1. \A f \in q.found : \A r \in voice : r.id = f.id => r.user = f.user /\ r.guild = f.guild
    BY <1>1, <1>4 DEF VInv, RequestsSound
  <2>2. \A r \in del : r \in voice /\ \E f \in q.found : f.guild # q.guild /\ r.id = f.id
    BY <1>1, <1>3 DEF WithId, Stale
  <2>3. QED
    BY <1>6, <2>1, <2>2
<1>8. /\ \A x : x # u => RowsOf(x)' = RowsOf(x)
      /\ RowsOf(u)' = RowsOf(u) \ del
  <2>1. PICK add : add = {}
    OBVIOUS
  <2>2. voice' = (voice \ del) \cup add /\ \A r \in del \cup add : r.user = u
    BY <1>4, <1>7, <2>1
  <2>3. /\ \A x : x # u => RowsOf(x)' = RowsOf(x)
        /\ RowsOf(u)' = (RowsOf(u) \ del) \cup add
    BY <1>5, <2>2, RowsMove
  <2>4. QED
    BY <2>1, <2>3
<1>9. \A x : /\ x # u => TablesKept(x)
             /\ EntriesOf(x)' = EntriesOf(x) /\ ShownIn(x)' = ShownIn(x)
  BY <1>4, <1>8 DEF TablesKept, EntriesOf, ShownIn
<1>10. CallsOf(u)' = {k} /\ Stale(k)' = Stale(k)
  BY <1>1, <1>4, <1>5 DEF CallsOf, At, Stale
<1>11. \A r \in RowsOf(u)' : r.guild = q.guild
  BY <1>3, <1>6, <1>8 DEF WithId, RowsOf
<1>12. Entered(EntryOf(call[k]), u)'
  <2>1. PICK r \in RowsOf(u) : EntryOf(r) = EntryOf(q)
    BY <1>6 DEF Entered
  <2>2. r.guild = q.guild
    BY <2>1 DEF EntryOf
  <2>3. r \in RowsOf(u)'
    BY <1>7, <1>8, <2>2
  <2>4. QED
    BY <1>4, <2>1, <2>3 DEF Entered
<1>13. CallCached(k, u)'
  BY <1>4, <1>6, <1>9, <1>10, <1>11, <1>12 DEF CallCached
<1>14. "restart" \notin Env => CallShown(k, u)'
  BY <1>4, <1>6, <1>9 DEF CallShown, ShownAt
<1>15. VoiceFollowed(u)'
  BY <1>4, <1>5, <1>10, <1>13, <1>14, RequestFollowed
<1>16. QED
  BY <1>1, <1>2, <1>4, <1>5, <1>9, <1>15, RequestMoves

\* A user has no two rows in a guild: they are one when they are in the same.
LEMMA OneOfGuild ==
  ASSUME VInv, NEW u, NEW g, \A r \in RowsOf(u) : r.guild = g
  PROVE  OneRow(u)
BY DEF VInv, VoiceRowsValid, RowsOf, OneRow

\* A request ends: the cache and the subscribers are told what it wrote.
LEMMA FinishFollows ==
  ASSUME VInv, FollowInv, NEW k \in Call, NEW u \in User, CallsOf(u) = {k}, call[k].pc # "idle",
         call[k].user = u, UNCHANGED <<gatewayVars, voice, cleanup>>, Finish(k),
         \A e \in Entry : e.user # u => (e \in cache' <=> e \in cache),
         cache' \subseteq Entry,
         \A x \in User : x # u => \A c \in Channel : x \in told'[c] <=> x \in told[c],
         Cached(u)',
         "restart" \notin Env => OneRow(u) /\ ShownAt(u, RowsOf(u))'
  PROVE  FollowInv'
<1>1. /\ u \in User /\ VoiceFollowed(u)
      /\ \A s \in SocketsOf(u) : leaving[s] = "no"
      /\ presence[u] # "OFFLINE"
  BY RequestAlone
<1>2. call'[k] = IdleCall /\ \A j \in Call : j # k => call'[j] = call[j]
  BY DEF Finish, VInv, VoiceTypeOK
<1>3. CallsOf(u)' = {}
  BY <1>2 DEF CallsOf, At, IdleCall
<1>4. \A x : RowsOf(x)' = RowsOf(x)
  BY DEF RowsOf
<1>5. \A x \in User : x # u => TablesKept(x)
  BY <1>4 DEF TablesKept, EntriesOf, ShownIn, VInv, VoiceTypeOK
<1>6. OneRow(u)' <=> OneRow(u)
  BY <1>4 DEF OneRow
<1>7. VoiceFollowed(u)'
  BY <1>1, <1>3, <1>6, RequestFollowed
<1>8. QED
  BY <1>2, <1>5, <1>7, RequestMoves DEF IdleCall

\* The row of a request, in the cache and on the screens.
LEMMA JoinDoneFollows ==
  ASSUME VInv, FollowInv, NEW k \in Call, JoinDone(k)
  PROVE  FollowInv'
<1>1. PICK q : q = call[k]
  OBVIOUS
<1>2. PICK u : u = q.user
  OBVIOUS
<1>3. PICK e : e = EntryOf(q)
  OBVIOUS
<1>4. PICK stale : stale = Stale(k)
  OBVIOUS
<1>5. PICK left : left = stale \cup {r \in Previous(k) : r.channel # q.channel}
  OBVIOUS
<1>6. /\ UNCHANGED <<gatewayVars, voice, cleanup>> /\ Finish(k) /\ q.pc = "joined"
      /\ cache' = Track(Untrack(cache, stale), e)
      /\ told' = Joins(Leaves(left), q.channel, u)
  BY <1>1, <1>2, <1>3, <1>4, <1>5 DEF JoinDone, At, EntryOf
<1>7. /\ u \in User /\ VoiceFollowed(u)
      /\ CallsOf(u) = {k} /\ CallCached(k, u) /\ ("restart" \notin Env => CallShown(k, u))
  BY <1>1, <1>2, <1>6, RequestAlone
<1>8. /\ e \in Entry /\ e.user = u /\ e.guild = q.guild /\ e.channel = q.channel
      /\ q.channel \in Channel /\ q.guild \in Guild
  BY <1>1, <1>2, <1>3, <1>6, CallTyped DEF EntryOf, Entry
<1>9. /\ \A f \in q.found : f.user = u
      /\ \A x \in EntriesOf(u) : x.guild = q.guild \/ \E r \in stale : r.guild = x.guild
      /\ \E r \in RowsOf(u) : EntryOf(r) = e
      /\ \A r \in RowsOf(u) : r.guild = q.guild
      /\ "restart" \notin Env => ShownAt(u, q.found)
  BY <1>1, <1>3, <1>4, <1>6, <1>7 DEF CallCached, CallShown, Entered
<1>10. /\ stale \subseteq q.found /\ left \subseteq q.found
       /\ \A f \in q.found : f \in left \/ f.channel = q.channel
       /\ \A f \in stale : f.guild # q.guild
  BY <1>1, <1>4, <1>5 DEF Stale, Previous
<1>11. \A x \in cache' : x = e \/ (x \in cache /\ x.user # u)
  <2>1. \A x \in Untrack(cache, stale) : x \in cache /\ (x.user # u \/ \A r \in stale : x.guild # r.guild)
    BY <1>9, <1>10 DEF Untrack
  <2>2. \A x \in cache' : x = e \/ (x \in Untrack(cache, stale) /\ (x.user # u \/ x.guild # q.guild))
    BY <1>6, <1>8 DEF Track, Untrack
  <2>3. QED
    BY <1>9, <2>1, <2>2 DEF EntriesOf
<1>12. \A x \in Entry : x.user # u => (x \in cache' <=> x \in cache)
  BY <1>6, <1>8, <1>9, <1>10 DEF Track, Untrack
<1>13. cache' \subseteq Entry
  BY <1>8, <1>11 DEF VInv, VoiceTypeOK
<1>14. RowsOf(u)' = RowsOf(u)
  BY <1>6 DEF RowsOf
<1>15. Cached(u)'
  BY <1>8, <1>9, <1>11, <1>14 DEF Cached, EntriesOf, Entered
<1>16. \A c \in Channel : /\ \A x \in User : x # u => (x \in told'[c] <=> x \in told[c])
                          /\ u \in told'[c] <=> \/ c = q.channel
                                                \/ u \in told[c] /\ \A r \in left : r.channel # c
  <2>1. \A f \in left : f.user = u
    BY <1>9, <1>10
  <2>2. \A c \in Channel : /\ \A x \in User : x # u => (x \in Leaves(left)[c] <=> x \in told[c])
                           /\ u \in Leaves(left)[c] <=> u \in told[c] /\ \A r \in left : r.channel # c
    BY <1>7, <2>1, LeavesMove
  <2>3. \A c \in Channel : told'[c] = IF c = q.channel THEN Leaves(left)[c] \cup {u} ELSE Leaves(left)[c]
    <3>1. Leaves(left) \in [Channel -> SUBSET User]
      BY <1>7, <1>8, ToldTyped
    <3>2. QED
      BY <1>6, <1>8, <3>1 DEF Joins
  <2>4. ASSUME NEW c \in Channel
        PROVE  /\ \A x \in User : x # u => (x \in told'[c] <=> x \in told[c])
               /\ u \in told'[c] <=> \/ c = q.channel
                                     \/ u \in told[c] /\ \A r \in left : r.channel # c
    <3>1. CASE c = q.channel
      <4>1. told'[c] = Leaves(left)[c] \cup {u}
        BY <2>3, <3>1
      <4>2. QED
        BY <2>2, <3>1, <4>1
    <3>2. CASE c # q.channel
      <4>1. told'[c] = Leaves(left)[c]
        BY <2>3, <3>2
      <4>2. QED
        BY <2>2, <3>2, <4>1
    <3>3. QED
      BY <3>1, <3>2
  <2>5. QED
    BY <2>4
<1>17. OneRow(u)
  BY <1>9, OneOfGuild
<1>18. "restart" \notin Env => ShownAt(u, RowsOf(u))'
  <2>1. \A r \in RowsOf(u) : r.channel = q.channel
    <3>1. PICK r \in RowsOf(u) : EntryOf(r) = e
      BY <1>9
    <3>2. r.channel = q.channel
      BY <1>8, <3>1 DEF EntryOf
    <3>3. QED
      BY <1>17, <3>2 DEF OneRow
  <2>2. ASSUME "restart" \notin Env
        PROVE  \A c \in Channel : u \in told'[c] <=> c = q.channel
    <3>1. \A c \in Channel : u \in told[c] => \E f \in q.found : f.channel = c
      BY <1>9, <2>2 DEF ShownAt, ShownIn
    <3>2. QED
      BY <1>10, <1>16, <3>1
  <2>3. \E r \in RowsOf(u) : TRUE
    BY <1>9
  <2>4. QED
    BY <1>14, <2>1, <2>2, <2>3 DEF ShownAt, ShownIn
<1>19. call[k].pc # "idle" /\ call[k].user = u
  BY <1>1, <1>2, <1>6
<1>20. QED
  BY <1>6, <1>7, <1>12, <1>13, <1>15, <1>16, <1>17, <1>18, <1>19, FinishFollows

\* The row goes, or had gone.
LEMMA LeaveDeleteFollows ==
  ASSUME VInv, FollowInv, NEW k \in Call, LeaveDelete(k)
  PROVE  FollowInv'
<1>1. PICK q : q = call[k]
  OBVIOUS
<1>2. PICK u : u = q.user
  OBVIOUS
<1>3. /\ q.pc = "delete" /\ q \in VoiceCall
      /\ u \in User /\ VoiceFollowed(u)
      /\ CallsOf(u) = {k} /\ CallCached(k, u) /\ ("restart" \notin Env => CallShown(k, u))
      /\ \A s \in SocketsOf(u) : leaving[s] = "no"
      /\ presence[u] # "OFFLINE"
  BY <1>1, <1>2, RequestAlone, CallTyped DEF LeaveDelete, At
<1>4. PICK f \in q.found : q.found = {f} /\ f.guild = q.guild /\ f \in RowsOf(u)
  BY <1>1, <1>3 DEF CallCached
<1>5. /\ Cached(u)
      /\ "restart" \notin Env => OneRow(u) /\ ShownAt(u, q.found)
  BY <1>1, <1>3 DEF CallCached, CallShown
<1>6. WithId(q.found) = {f}
  BY <1>4 DEF WithId, RowsOf, VInv, VoiceRowsValid
<1>7. /\ UNCHANGED <<gatewayVars, cache, cleanup, told>>
      /\ \A j \in Call : j # k => call'[j] = call[j]
      /\ call'[k].pc = "left" /\ call'[k].user = u /\ call'[k].guild = q.guild
      /\ call'[k].found = q.found
      /\ voice' = voice \ {f}
  BY <1>1, <1>2, <1>3, <1>6 DEF LeaveDelete, Goto, VInv, VoiceTypeOK, VoiceCall
<1>8. /\ \A x : x # u => RowsOf(x)' = RowsOf(x)
      /\ RowsOf(u)' = RowsOf(u) \ {f}
  <2>1. PICK del, add : del = {f} /\ add = {}
    OBVIOUS
  <2>2. voice' = (voice \ del) \cup add /\ \A r \in del \cup add : r.user = u
    BY <1>4, <1>7, <2>1 DEF RowsOf
  <2>3. /\ \A x : x # u => RowsOf(x)' = RowsOf(x)
        /\ RowsOf(u)' = (RowsOf(u) \ del) \cup add
    BY <1>3, <2>2, RowsMove
  <2>4. QED
    BY <2>1, <2>3
<1>9. \A x : /\ x # u => TablesKept(x)
             /\ EntriesOf(x)' = EntriesOf(x) /\ ShownIn(x)' = ShownIn(x)
  BY <1>7, <1>8 DEF TablesKept, EntriesOf, ShownIn
<1>10. CallsOf(u)' = {k}
  BY <1>3, <1>7 DEF CallsOf, At
<1>11. \A e \in EntriesOf(u)' : Entered(e, u)' \/ e.guild = q.guild
  <2> TAKE e \in EntriesOf(u)'
  <2>1. PICK r \in RowsOf(u) : EntryOf(r) = e
    BY <1>5, <1>9 DEF Cached, Entered
  <2>2. CASE r = f
    BY <1>4, <2>1, <2>2 DEF EntryOf
  <2>3. CASE r # f
    BY <1>8, <2>1, <2>3 DEF Entered
  <2>4. QED
    BY <2>2, <2>3
<1>12. \A x \in q.found : x.user = u
  BY <1>1, <1>3 DEF CallCached
<1>13. CallCached(k, u)'
  BY <1>4, <1>7, <1>11, <1>12 DEF CallCached
<1>14. "restart" \notin Env => CallShown(k, u)'
  <2>1. OneRow(u) => RowsOf(u)' = {}
    BY <1>4, <1>8 DEF OneRow
  <2>2. QED
    BY <1>5, <1>7, <1>9, <2>1 DEF CallShown, ShownAt
<1>15. VoiceFollowed(u)'
  BY <1>3, <1>7, <1>10, <1>13, <1>14, RequestFollowed
<1>16. QED
  BY <1>1, <1>2, <1>3, <1>7, <1>9, <1>15, RequestMoves

\* The cache and the subscribers are told that the user has left.
LEMMA LeaveDoneFollows ==
  ASSUME VInv, FollowInv, NEW k \in Call, LeaveDone(k)
  PROVE  FollowInv'
<1>1. PICK q : q = call[k]
  OBVIOUS
<1>2. PICK u : u = q.user
  OBVIOUS
<1>3. /\ q.pc = "left"
      /\ u \in User /\ VoiceFollowed(u)
      /\ CallsOf(u) = {k} /\ CallCached(k, u) /\ ("restart" \notin Env => CallShown(k, u))
  BY <1>1, <1>2, RequestAlone DEF LeaveDone, At
<1>4. PICK f \in q.found : q.found = {f} /\ f.guild = q.guild /\ f.user = u
  BY <1>1, <1>3 DEF CallCached
<1>5. /\ \A e \in EntriesOf(u) : Entered(e, u) \/ e.guild = q.guild
      /\ "restart" \notin Env => RowsOf(u) = {} /\ ShownAt(u, q.found)
  BY <1>1, <1>3 DEF CallCached, CallShown
<1>6. /\ UNCHANGED <<gatewayVars, voice, cleanup>> /\ Finish(k)
      /\ cache' = Untrack(cache, q.found) /\ told' = Leaves(q.found)
  BY <1>1 DEF LeaveDone
<1>7. \A e \in cache : e \in cache' <=> (e.user = u => e.guild # q.guild)
  BY <1>4, <1>6 DEF Untrack
<1>8. cache' \subseteq cache /\ cache \subseteq Entry
  BY <1>6 DEF Untrack, VInv, VoiceTypeOK
<1>9. RowsOf(u)' = RowsOf(u)
  BY <1>6 DEF RowsOf
<1>10. Cached(u)'
  BY <1>5, <1>7, <1>8, <1>9 DEF Cached, EntriesOf, Entered
<1>11. \A c \in Channel : /\ \A x \in User : x # u => (x \in told'[c] <=> x \in told[c])
                          /\ u \in told'[c] <=> u \in told[c] /\ \A r \in q.found : r.channel # c
  BY <1>3, <1>4, <1>6, LeavesMove
<1>12. "restart" \notin Env => OneRow(u) /\ ShownAt(u, RowsOf(u))'
  BY <1>5, <1>9, <1>11 DEF OneRow, ShownAt, ShownIn
<1>13. call[k].pc # "idle" /\ call[k].user = u
  BY <1>1, <1>2, <1>3
<1>14. \A e \in Entry : e.user # u => (e \in cache' <=> e \in cache)
  BY <1>7, <1>8
<1>15. QED
  BY <1>3, <1>6, <1>8, <1>10, <1>11, <1>12, <1>13, <1>14, FinishFollows

\* Postgres writes the flags into the row that was read.
LEMMA UpdateWriteFollows ==
  ASSUME VInv, FollowInv, NEW k \in Call, UpdateWrite(k)
  PROVE  FollowInv'
<1>1. PICK q : q = call[k]
  OBVIOUS
<1>2. PICK u : u = q.user
  OBVIOUS
<1>3. /\ q.pc = "write" /\ q \in VoiceCall /\ q.muted \in BOOLEAN
      /\ u \in User /\ VoiceFollowed(u)
      /\ CallsOf(u) = {k} /\ CallCached(k, u) /\ ("restart" \notin Env => CallShown(k, u))
      /\ \A s \in SocketsOf(u) : leaving[s] = "no"
      /\ presence[u] # "OFFLINE"
  BY <1>1, <1>2, RequestAlone, CallTyped DEF UpdateWrite, At
<1>4. PICK f \in q.found : q.found = {f} /\ f.guild = q.guild /\ f \in RowsOf(u)
  BY <1>1, <1>3 DEF CallCached
<1>5. /\ Cached(u) /\ q.channel = f.channel
      /\ "restart" \notin Env => OneRow(u) /\ ShownAt(u, RowsOf(u))
  BY <1>1, <1>3, <1>4 DEF CallCached, CallShown
<1>6. WithId(q.found) = {f} /\ f \in Row /\ f.user = u
  BY <1>4 DEF WithId, RowsOf, VInv, VoiceTypeOK, VoiceRowsValid
<1>7. PICK n : n = [f EXCEPT !.muted = q.muted]
  OBVIOUS
<1>8. /\ UNCHANGED <<gatewayVars, cache, cleanup, told>>
      /\ \A j \in Call : j # k => call'[j] = call[j]
      /\ call' = [call EXCEPT ![k] = [q EXCEPT !.pc = "updated", !.channel = f.channel]]
      /\ voice' = (voice \ {f}) \cup {n}
  BY <1>1, <1>6, <1>7 DEF UpdateWrite, VInv, VoiceTypeOK
<1>9. /\ call'[k].pc = "updated" /\ call'[k].user = u /\ call'[k].guild = q.guild
      /\ call'[k].found = q.found /\ call'[k].channel = f.channel /\ call'[k].muted = q.muted
  BY <1>2, <1>3, <1>8 DEF VInv, VoiceTypeOK, VoiceCall
<1>10. n.user = u /\ n.guild = f.guild /\ n.channel = f.channel /\ n.muted = q.muted
  BY <1>6, <1>7 DEF Row
<1>11. /\ \A x : x # u => RowsOf(x)' = RowsOf(x)
       /\ RowsOf(u)' = (RowsOf(u) \ {f}) \cup {n}
  <2>1. PICK del, add : del = {f} /\ add = {n}
    OBVIOUS
  <2>2. voice' = (voice \ del) \cup add /\ \A r \in del \cup add : r.user = u
    BY <1>6, <1>8, <1>10, <2>1
  <2>3. /\ \A x : x # u => RowsOf(x)' = RowsOf(x)
        /\ RowsOf(u)' = (RowsOf(u) \ del) \cup add
    BY <1>3, <2>2, RowsMove
  <2>4. QED
    BY <2>1, <2>3
<1>12. \A x : /\ x # u => TablesKept(x)
              /\ EntriesOf(x)' = EntriesOf(x) /\ ShownIn(x)' = ShownIn(x)
  BY <1>8, <1>11 DEF TablesKept, EntriesOf, ShownIn
<1>13. CallsOf(u)' = {k}
  BY <1>3, <1>8, <1>9 DEF CallsOf, At
<1>14. \A e \in EntriesOf(u)' : Entered(e, u)' \/ e.guild = q.guild
  <2> TAKE e \in EntriesOf(u)'
  <2>1. PICK r \in RowsOf(u) : EntryOf(r) = e
    BY <1>5, <1>12 DEF Cached, Entered
  <2>2. CASE r = f
    BY <1>4, <2>1, <2>2 DEF EntryOf
  <2>3. CASE r # f
    BY <1>11, <2>1, <2>3 DEF Entered
  <2>4. QED
    BY <2>2, <2>3
<1>15. Entered(EntryOf(call[k]), u)'
  <2>1. EntryOf(n) = EntryOf(call'[k])
    BY <1>4, <1>9, <1>10 DEF EntryOf
  <2>2. n \in RowsOf(u)'
    BY <1>11
  <2>3. QED
    BY <2>1, <2>2 DEF Entered
<1>16. \A x \in q.found : x.user = u
  BY <1>1, <1>3 DEF CallCached
<1>17. CallCached(k, u)'
  BY <1>9, <1>14, <1>15, <1>16 DEF CallCached
<1>18. "restart" \notin Env => CallShown(k, u)'
  <2>1. OneRow(u) => RowsOf(u) = {f} /\ RowsOf(u)' = {n}
    BY <1>4, <1>11 DEF OneRow
  <2>2. OneRow(u) => OneRow(u)'
    BY <2>1 DEF OneRow
  <2>3. OneRow(u) /\ ShownAt(u, RowsOf(u)) => ShownAt(u, RowsOf(u))'
    BY <1>10, <1>12, <2>1 DEF ShownAt
  <2>4. QED
    BY <1>5, <1>9, <2>2, <2>3 DEF CallShown
<1>19. VoiceFollowed(u)'
  BY <1>3, <1>8, <1>13, <1>17, <1>18, RequestFollowed
<1>20. QED
  BY <1>1, <1>2, <1>3, <1>8, <1>9, <1>12, <1>19, RequestMoves

\* The flags, in the cache.
LEMMA UpdateDoneFollows ==
  ASSUME VInv, FollowInv, NEW k \in Call, UpdateDone(k)
  PROVE  FollowInv'
<1>1. PICK q : q = call[k]
  OBVIOUS
<1>2. PICK u : u = q.user
  OBVIOUS
<1>3. PICK e : e = EntryOf(q)
  OBVIOUS
<1>4. /\ q.pc = "updated"
      /\ u \in User /\ VoiceFollowed(u)
      /\ CallsOf(u) = {k} /\ CallCached(k, u) /\ ("restart" \notin Env => CallShown(k, u))
  BY <1>1, <1>2, RequestAlone DEF UpdateDone, At
<1>5. /\ \A x \in EntriesOf(u) : Entered(x, u) \/ x.guild = q.guild
      /\ \E r \in RowsOf(u) : EntryOf(r) = e
      /\ "restart" \notin Env => OneRow(u) /\ ShownAt(u, RowsOf(u))
  BY <1>1, <1>3, <1>4 DEF CallCached, CallShown, Entered
<1>6. /\ UNCHANGED <<gatewayVars, voice, cleanup>> /\ Finish(k)
      /\ cache' = Track(cache, e) /\ told' = Joins(told, q.channel, u)
  BY <1>1, <1>2, <1>3 DEF UpdateDone, EntryOf
<1>7. /\ e \in Entry /\ e.user = u /\ e.guild = q.guild /\ e.channel = q.channel
      /\ q.channel \in Channel
  BY <1>1, <1>2, <1>3, <1>4, CallTyped DEF EntryOf, Entry
<1>8. \A x \in cache' : x = e \/ (x \in cache /\ (x.user # u \/ x.guild # q.guild))
  BY <1>6, <1>7 DEF Track, Untrack
<1>9. \A x \in Entry : x.user # u => (x \in cache' <=> x \in cache)
  BY <1>6, <1>7 DEF Track, Untrack
<1>10. cache' \subseteq Entry
  BY <1>7, <1>8 DEF VInv, VoiceTypeOK
<1>11. RowsOf(u)' = RowsOf(u)
  BY <1>6 DEF RowsOf
<1>12. Cached(u)'
  <2> SUFFICES ASSUME NEW x \in EntriesOf(u)' PROVE \E r \in RowsOf(u)' : EntryOf(r) = x
    BY DEF Cached, Entered
  <2>1. x = e \/ (x \in EntriesOf(u) /\ x.guild # q.guild)
    BY <1>8 DEF EntriesOf
  <2>2. QED
    BY <1>5, <1>11, <2>1 DEF Entered
<1>13. \A c \in Channel : /\ \A x \in User : x # u => (x \in told'[c] <=> x \in told[c])
                          /\ u \in told'[c] <=> c = q.channel \/ u \in told[c]
  BY <1>4, <1>6, <1>7 DEF Joins, VInv, VoiceTypeOK
<1>14. "restart" \notin Env => OneRow(u) /\ ShownAt(u, RowsOf(u))'
  <2>1. \E r \in RowsOf(u) : r.channel = q.channel
    BY <1>5, <1>7 DEF EntryOf
  <2>2. QED
    BY <1>5, <1>11, <1>13, <2>1 DEF ShownAt, ShownIn
<1>15. call[k].pc # "idle" /\ call[k].user = u
  BY <1>1, <1>2, <1>4
<1>16. QED
  BY <1>4, <1>6, <1>9, <1>10, <1>12, <1>13, <1>14, <1>15, FinishFollows

\* A speaking event: the row is read and entered as it is.
LEMMA SpeakFollows ==
  ASSUME VInv, FollowInv, NEW k \in Call, SpeakFind(k) \/ SpeakFill(k)
  PROVE  FollowInv'
<1>1. PICK q : q = call[k]
  OBVIOUS
<1>2. PICK u : u = q.user
  OBVIOUS
<1>3. /\ q.pc \in {"speak", "fill"} /\ q \in VoiceCall
      /\ u \in User /\ VoiceFollowed(u)
      /\ CallsOf(u) = {k} /\ CallCached(k, u) /\ ("restart" \notin Env => CallShown(k, u))
      /\ \A s \in SocketsOf(u) : leaving[s] = "no"
      /\ presence[u] # "OFFLINE"
  BY <1>1, <1>2, RequestAlone, CallTyped DEF SpeakFind, SpeakFill, At
<1>4. /\ Cached(u)
      /\ "restart" \notin Env => OneRow(u) /\ ShownAt(u, RowsOf(u))
  BY <1>1, <1>3 DEF CallCached, CallShown
<1>5. CASE SpeakFind(k)
  <2>1. PICK rs : rs = RowOf(u, q.guild)
    OBVIOUS
  <2>2. /\ UNCHANGED <<gatewayVars, voice, cache, cleanup, told>>
        /\ \A j \in Call : j # k => call'[j] = call[j]
        /\ call'[k].pc = "fill" /\ call'[k].user = u /\ call'[k].guild = q.guild
        /\ call'[k].found = rs
    BY <1>1, <1>2, <1>3, <1>5, <2>1 DEF SpeakFind, VInv, VoiceTypeOK, VoiceCall
  <2>3. /\ \A x : /\ TablesKept(x) /\ RowsOf(x)' = RowsOf(x)
                  /\ EntriesOf(x)' = EntriesOf(x) /\ ShownIn(x)' = ShownIn(x)
        /\ Cached(u)' = Cached(u) /\ OneRow(u)' = OneRow(u)
    BY <2>2 DEF TablesKept, RowsOf, EntriesOf, ShownIn, Cached, Entered, OneRow
  <2>4. CallsOf(u)' = {k}
    BY <1>3, <2>2 DEF CallsOf, At
  <2>5. rs \subseteq RowsOf(u) /\ \A r \in rs : r.user = u
    BY <2>1 DEF RowOf, RowsOf
  <2>6. CallCached(k, u)'
    BY <1>4, <2>2, <2>3, <2>5 DEF CallCached
  <2>7. "restart" \notin Env => CallShown(k, u)'
    BY <1>4, <2>2, <2>3 DEF CallShown, ShownAt
  <2>8. VoiceFollowed(u)'
    BY <1>3, <2>2, <2>4, <2>6, <2>7, RequestFollowed
  <2>9. QED
    BY <1>1, <1>2, <1>3, <2>2, <2>3, <2>8, RequestMoves
<1>6. CASE SpeakFill(k)
  <2>1. q.found \subseteq RowsOf(u) /\ q.found \subseteq Row
    BY <1>1, <1>3, <1>6, CallTyped DEF CallCached, SpeakFill, At
  <2>2. /\ UNCHANGED <<gatewayVars, voice, cleanup>> /\ Finish(k) /\ told' = told
        /\ cache' = Untrack(cache, q.found) \cup {EntryOf(r) : r \in q.found}
    BY <1>1, <1>6 DEF SpeakFill
  <2>3. \A r \in q.found : EntryOf(r) \in Entry /\ EntryOf(r).user = u /\ r.user = u
    BY <2>1 DEF EntryOf, Entry, Row, RowsOf
  <2>4. \A x \in cache' : x \in cache \/ \E r \in q.found : x = EntryOf(r)
    BY <2>2 DEF Untrack
  <2>5. \A x \in Entry : x.user # u => (x \in cache' <=> x \in cache)
    BY <2>2, <2>3 DEF Untrack
  <2>6. cache' \subseteq Entry
    BY <2>3, <2>4 DEF VInv, VoiceTypeOK
  <2>7. RowsOf(u)' = RowsOf(u)
    BY <2>2 DEF RowsOf
  <2>8. Cached(u)'
    <3> SUFFICES ASSUME NEW x \in EntriesOf(u)' PROVE \E r \in RowsOf(u)' : EntryOf(r) = x
      BY DEF Cached, Entered
    <3>1. x \in EntriesOf(u) \/ \E r \in q.found : x = EntryOf(r)
      BY <2>4 DEF EntriesOf
    <3>2. QED
      BY <1>4, <2>1, <2>7, <3>1 DEF Cached, Entered
  <2>9. "restart" \notin Env => OneRow(u) /\ ShownAt(u, RowsOf(u))'
    BY <1>4, <2>2, <2>7 DEF ShownAt, ShownIn
  <2>10. call[k].pc # "idle" /\ call[k].user = u
    BY <1>1, <1>2, <1>3
  <2>11. QED
    BY <1>3, <2>2, <2>5, <2>6, <2>8, <2>9, <2>10, FinishFollows
<1>7. QED
  BY <1>5, <1>6

\* Any request.
LEMMA CallFollows ==
  ASSUME VInv, FollowInv, NEW k \in Call, CallStep(k)
  PROVE  FollowInv'
<1>1. ~ListDelete(k) /\ ~ListDone(k)
  BY DEF ListDelete, ListDone, FollowInv, CleanupSound
<1>2. QED
  BY <1>1, JoinUpsertFollows, JoinDeleteStaleFollows, JoinDoneFollows, LeaveDeleteFollows,
     LeaveDoneFollows, UpdateWriteFollows, UpdateDoneFollows, SpeakFollows DEF CallStep

-----------------------------------------------------------------------------
\* What handleDisconnect can rely on while it removes the user from voice.
LEMMA LeaverAlone ==
  ASSUME NeverOffline, VInv, PresenceInv, FollowInv, NEW s \in Socket, leaving[s] = "voice",
         NEW u, u = socketUser[s]
  PROVE  /\ u \in User /\ VoiceFollowed(u) /\ s \in SocketsOf(u) /\ LeaveCached(s, u)
         /\ CallsOf(u) = {}
         /\ \A t \in SocketsOf(u) : t # s => leaving[t] = "no" /\ cleanup[t].pc = "no"
<1>1. u \in User /\ s \in SocketsOf(u)
  BY DEF SocketsOf, VInv, IInv, HandlersSound
<1>2. VoiceFollowed(u) /\ UserFollowed(u) /\ Calm
  BY <1>1 DEF FollowInv, PresenceInv, NeverOffline
<1>3. LeaveCached(s, u) /\ CallsOf(u) = {}
  BY <1>1, <1>2 DEF VoiceFollowed, LeaveCached
<1>4. \A t \in SocketsOf(u) : t # s => leaving[t] = "no"
  BY <1>1, <1>2 DEF UserFollowed, OneHandler, Busy
<1>5. \A t \in SocketsOf(u) : t # s => cleanup[t].pc = "no"
  BY <1>4 DEF FollowInv, CleanupSound, SocketsOf
<1>6. QED
  BY <1>1, <1>2, <1>3, <1>4, <1>5

\* handleDisconnect moves on, and nobody else is touched.
LEMMA LeaverMoves ==
  ASSUME NeverOffline, VInv, PresenceInv, FollowInv, NEW s \in Socket, leaving[s] = "voice",
         NEW u, u = socketUser[s],
         UNCHANGED <<socketUser, presence, call>>,
         \A t \in Socket : t # s => leaving'[t] = leaving[t] /\ cleanup'[t] = cleanup[t],
         IF cleanup'[s].pc = "no" THEN cleanup'[s].found = {} ELSE leaving'[s] = "voice",
         \A x \in User : x # u => TablesKept(x),
         LeaveCached(s, u)', RowsOf(u)' \subseteq RowsOf(u),
         cleanup'[s].pc # "emit" =>
            Cached(u)' /\ ("restart" \notin Env => OneRow(u)' /\ ShownAt(u, RowsOf(u))')
  PROVE  FollowInv'
<1>1. /\ u \in User /\ VoiceFollowed(u) /\ s \in SocketsOf(u)
      /\ CallsOf(u) = {}
      /\ \A t \in SocketsOf(u) : t # s => leaving[t] = "no" /\ cleanup[t].pc = "no"
  BY LeaverAlone
<1>2. \A x : SocketsOf(x)' = SocketsOf(x) /\ CallsOf(x)' = CallsOf(x)
  BY DEF SocketsOf, CallsOf, At
<1>3. CleanupSound'
  BY DEF FollowInv, CleanupSound, At
<1>4. ASSUME NEW x \in User, x # u
      PROVE  VoiceKept(x)
  BY <1>2, <1>4 DEF VoiceKept, SocketsOf
<1>5. VoiceFollowed(u)'
  <2>1. ASSUME NEW t \in SocketsOf(u), t # s
        PROVE  LeaveCached(t, u)'
    <3>1. leaving'[t] = "no" /\ cleanup'[t].pc = "no" /\ cleanup'[t].found = {}
      BY <1>1, <2>1 DEF SocketsOf, FollowInv, CleanupSound
    <3>2. QED
      BY <3>1 DEF LeaveCached
  <2>2. RowsOf(u)' # {} => presence'[u] # "OFFLINE"
    BY <1>1 DEF VoiceFollowed
  <2>3. QED
    BY <1>1, <1>2, <2>1, <2>2 DEF VoiceFollowed
<1>6. QED
  BY <1>3, <1>4, <1>5, VoiceKeptFollowed DEF FollowInv

\* The voice part of handleDisconnect.
LEMMA CleanupFollows ==
  ASSUME NeverOffline, VInv, PresenceInv, FollowInv, NEW s \in Socket, CleanupStep(s)
  PROVE  FollowInv'
<1>1. PICK u : u = socketUser[s]
  OBVIOUS
<1>2. leaving[s] = "voice"
  BY DEF CleanupStep, CleanupFind, CleanupDelete, CleanupDone, FollowInv, CleanupSound
<1>3. /\ u \in User /\ VoiceFollowed(u) /\ s \in SocketsOf(u) /\ LeaveCached(s, u)
      /\ CallsOf(u) = {}
      /\ \A t \in SocketsOf(u) : t # s => leaving[t] = "no" /\ cleanup[t].pc = "no"
  BY <1>1, <1>2, LeaverAlone
<1>4. cleanup[s].pc # "emit" => Cached(u) /\ ("restart" \notin Env => OneRow(u) /\ ShownAt(u, RowsOf(u)))
  BY <1>3 DEF VoiceFollowed
<1>5. CASE CleanupFind(s)
  <2>1. PICK rs : rs = RowsOf(u)
    OBVIOUS
  <2>2. /\ UNCHANGED <<socketUser, presence, call, voice, cache, told>>
        /\ \A t \in Socket : t # s => leaving'[t] = leaving[t] /\ cleanup'[t] = cleanup[t]
        /\ \/ /\ rs = {} /\ cleanup'[s] = cleanup[s] /\ leaving'[s] = "redis"
           \/ /\ leaving'[s] = "voice" /\ cleanup'[s].pc = "delete" /\ cleanup'[s].found = rs
    BY <1>1, <1>5, <2>1
       DEF CleanupFind, DisconnectVoice, gatewayVars, handlers, status, voiceVars,
           VInv, VoiceTypeOK, IInv, GatewayTypeOK
  <2>3. cleanup[s].pc = "no" /\ cleanup[s].found = {}
    BY <1>5 DEF CleanupFind, FollowInv, CleanupSound
  <2>4. /\ \A x : /\ TablesKept(x) /\ RowsOf(x)' = RowsOf(x)
                  /\ EntriesOf(x)' = EntriesOf(x) /\ ShownIn(x)' = ShownIn(x)
        /\ Cached(u)' = Cached(u) /\ OneRow(u)' = OneRow(u)
    BY <2>2 DEF TablesKept, RowsOf, EntriesOf, ShownIn, Cached, Entered, OneRow
  <2>5. CallsOf(u)' = {}
    BY <1>3, <2>2 DEF CallsOf, At
  <2>6. \A r \in rs : r.user = u
    BY <2>1 DEF RowsOf
  <2>7. LeaveCached(s, u)'
    BY <2>1, <2>2, <2>3, <2>4, <2>5, <2>6 DEF LeaveCached
  <2>8. "restart" \notin Env => ShownAt(u, RowsOf(u))'
    BY <1>4, <2>3, <2>4 DEF ShownAt
  <2>9. IF cleanup'[s].pc = "no" THEN cleanup'[s].found = {} ELSE leaving'[s] = "voice"
    BY <2>2, <2>3
  <2>10. QED
    BY <1>1, <1>2, <1>4, <2>2, <2>3, <2>4, <2>7, <2>8, <2>9, LeaverMoves
<1>6. CASE CleanupDelete(s)
  <2>1. PICK del, add : del = RowsOf(u) /\ add = {}
    OBVIOUS
  <2>2. PICK rs : rs = cleanup[s].found
    OBVIOUS
  <2>3. /\ UNCHANGED <<socketUser, leaving, presence, call, cache, told>>
        /\ \A t \in Socket : t # s => cleanup'[t] = cleanup[t]
        /\ cleanup'[s].pc = "emit" /\ cleanup'[s].found = rs
        /\ voice' = (voice \ del) \cup add
    BY <1>1, <1>6, <2>1, <2>2
       DEF CleanupDelete, gatewayVars, handlers, status, VInv, VoiceTypeOK
  <2>4. /\ rs = RowsOf(u) /\ \A f \in rs : f.user = u
        /\ Cached(u) /\ ("restart" \notin Env => ShownAt(u, RowsOf(u)))
    BY <1>3, <1>4, <1>6, <2>2 DEF CleanupDelete, LeaveCached
  <2>5. /\ \A x : x # u => RowsOf(x)' = RowsOf(x)
        /\ RowsOf(u)' = (RowsOf(u) \ del) \cup add
    <3>1. \A r \in del \cup add : r.user = u
      BY <2>1 DEF RowsOf
    <3>2. QED
      BY <1>3, <2>3, <3>1, RowsMove
  <2>6. \A x : /\ x # u => TablesKept(x)
               /\ EntriesOf(x)' = EntriesOf(x) /\ ShownIn(x)' = ShownIn(x)
    BY <2>3, <2>5 DEF TablesKept, EntriesOf, ShownIn
  <2>7. RowsOf(u)' = {}
    BY <2>1, <2>5
  <2>8. CallsOf(u)' = {}
    BY <1>3, <2>3 DEF CallsOf, At
  <2>9. \A e \in EntriesOf(u) : \E f \in rs : f.guild = e.guild
    BY <2>4 DEF Cached, Entered, EntryOf
  <2>10. LeaveCached(s, u)'
    BY <1>2, <2>3, <2>4, <2>6, <2>7, <2>8, <2>9 DEF LeaveCached, ShownAt
  <2>11. QED
    BY <1>1, <1>2, <2>3, <2>6, <2>7, <2>10, LeaverMoves
<1>7. CASE CleanupDone(s)
  <2>1. PICK rs : rs = cleanup[s].found
    OBVIOUS
  <2>2. /\ UNCHANGED <<socketUser, presence, call, voice>>
        /\ \A t \in Socket : t # s => leaving'[t] = leaving[t] /\ cleanup'[t] = cleanup[t]
        /\ leaving'[s] = "redis" /\ cleanup'[s].pc = "no" /\ cleanup'[s].found = {}
        /\ cache' = Untrack(cache, rs) /\ told' = Leaves(rs)
    BY <1>1, <1>7, <2>1
       DEF CleanupDone, DisconnectVoice, status, NoCleanup, VInv, VoiceTypeOK, IInv, GatewayTypeOK
  <2>3. /\ RowsOf(u) = {} /\ \A f \in rs : f.user = u
        /\ \A e \in EntriesOf(u) : \E f \in rs : f.guild = e.guild
        /\ "restart" \notin Env => ShownAt(u, rs)
    BY <1>3, <1>7, <2>1 DEF CleanupDone, LeaveCached
  <2>4. \A x : RowsOf(x)' = RowsOf(x)
    BY <2>2 DEF RowsOf
  <2>5. /\ \A e \in cache : e \in cache' <=> e.user # u \/ \A r \in rs : e.guild # r.guild
        /\ \A c \in Channel : /\ \A x \in User : x # u => (x \in told'[c] <=> x \in told[c])
                              /\ u \in told'[c] <=> u \in told[c] /\ \A r \in rs : r.channel # c
    <3>1. /\ \A e \in cache : e \in Untrack(cache, rs) <=>
                                  e.user # u \/ \A r \in rs : e.guild # r.guild
          /\ \A c \in Channel : /\ \A x \in User : x # u => (x \in Leaves(rs)[c] <=> x \in told[c])
                                /\ u \in Leaves(rs)[c] <=> u \in told[c] /\ \A r \in rs : r.channel # c
      BY <1>3, <2>3, LeavesMove
    <3>2. QED
      BY <2>2, <3>1
  <2>6. cache' \subseteq cache
    BY <2>2 DEF Untrack
  <2>7. \A x \in User : x # u => TablesKept(x)
    BY <2>4, <2>5, <2>6 DEF TablesKept, EntriesOf, ShownIn
  <2>8. EntriesOf(u)' = {}
    BY <2>3, <2>5, <2>6 DEF EntriesOf
  <2>9. Cached(u)' /\ OneRow(u)'
    BY <2>3, <2>4, <2>8 DEF Cached, OneRow
  <2>10. "restart" \notin Env => ShownAt(u, RowsOf(u))'
    BY <2>3, <2>4, <2>5 DEF ShownAt, ShownIn
  <2>11. CallsOf(u)' = {}
    BY <1>3, <2>2 DEF CallsOf, At
  <2>12. LeaveCached(s, u)'
    BY <2>2, <2>3, <2>4, <2>11 DEF LeaveCached
  <2>13. QED
    BY <1>1, <1>2, <2>2, <2>4, <2>7, <2>9, <2>10, <2>12, LeaverMoves
<1>8. QED
  BY <1>5, <1>6, <1>7 DEF CleanupStep

-----------------------------------------------------------------------------
\* The gateway moves on: a handler starts to remove a user from voice only when
\* no request of that user is under way, and a user without rows may go OFFLINE.
LEMMA GatewayMoves ==
  ASSUME VInv, FollowInv, UNCHANGED voiceVars,
         \A s \in Socket : socketUser'[s] = socketUser[s] \/ (leaving[s] = "no" /\ leaving'[s] = "no"),
         \A s \in Socket : \/ leaving'[s] = leaving[s]
                           \/ /\ leaving[s] \in {"redis", "db", "announce"}
                              /\ leaving'[s] \in {"db", "announce", "no"}
                           \/ /\ leaving[s] = "no" /\ leaving'[s] = "voice"
                              /\ CallsOf(socketUser[s]) = {},
         \A u \in User : \/ presence'[u] = presence[u]
                         \/ presence'[u] # "OFFLINE"
                         \/ CallsOf(u) = {} /\ RowsOf(u) = {}
  PROVE  FollowInv'
<1>1. UNCHANGED <<voice, cache, call, cleanup, told>>
  BY DEF voiceVars
<1>2. \A u : /\ RowsOf(u)' = RowsOf(u) /\ EntriesOf(u)' = EntriesOf(u) /\ ShownIn(u)' = ShownIn(u)
             /\ CallsOf(u)' = CallsOf(u)
  BY <1>1 DEF RowsOf, EntriesOf, ShownIn, CallsOf, At
<1>3. CleanupSound'
  BY <1>1 DEF FollowInv, CleanupSound, At
<1>4. ASSUME NEW u \in User
      PROVE  VoiceFollowed(u)'
  <2>1. VoiceFollowed(u)
    BY DEF FollowInv
  <2>2. /\ Cached(u)' <=> Cached(u)
        /\ OneRow(u)' <=> OneRow(u)
        /\ ShownAt(u, RowsOf(u))' <=> ShownAt(u, RowsOf(u))
    BY <1>2 DEF Cached, Entered, OneRow, ShownAt
  <2>3. CallsOf(u)' # {} \/ RowsOf(u)' # {} => presence'[u] # "OFFLINE"
    BY <1>2, <2>1 DEF VoiceFollowed
  <2>4. ASSUME NEW s \in SocketsOf(u)'
        PROVE  LeaveCached(s, u)'
    <3>1. s \in Socket /\ socketUser'[s] = u
      BY <2>4 DEF SocketsOf
    <3>2. CASE leaving'[s] = "no"
      <4>1. cleanup'[s].pc = "no" /\ cleanup'[s].found = {}
        BY <1>3, <3>1, <3>2 DEF CleanupSound
      <4>2. QED
        BY <3>2, <4>1 DEF LeaveCached
    <3>3. CASE leaving'[s] # "no"
      <4>1. socketUser[s] = u /\ s \in SocketsOf(u) /\ LeaveCached(s, u)
        BY <2>1, <3>1, <3>3 DEF SocketsOf, VoiceFollowed
      <4>2. /\ CallsOf(u) = {}
            /\ leaving'[s] \in {"redis", "db", "announce"} => RowsOf(u) = {}
        BY <3>1, <3>3, <4>1 DEF LeaveCached
      <4>3. QED
        BY <1>1, <1>2, <4>1, <4>2 DEF LeaveCached, ShownAt
    <3>4. QED
      BY <3>2, <3>3
  <2>5. ASSUME NEW k \in CallsOf(u)
        PROVE  /\ CallCached(k, u) => CallCached(k, u)'
               /\ CallShown(k, u) => CallShown(k, u)'
    <3>1. call'[k] = call[k] /\ Stale(k)' = Stale(k)
      BY <1>1 DEF Stale
    <3>2. \A e : Entered(e, u)' <=> Entered(e, u)
      BY <1>2 DEF Entered
    <3>3. CallCached(k, u) => CallCached(k, u)'
      BY <1>2, <2>2, <3>1, <3>2 DEF CallCached
    <3>4. CallShown(k, u) => CallShown(k, u)'
      BY <1>2, <2>2, <3>1 DEF CallShown, ShownAt
    <3>5. QED
      BY <3>3, <3>4
  <2>6. (\A s \in SocketsOf(u)' : cleanup'[s].pc # "emit") => \A s \in SocketsOf(u) : cleanup[s].pc # "emit"
    BY <1>1 DEF SocketsOf, FollowInv, CleanupSound
  <2>7. QED
    BY <1>2, <2>1, <2>2, <2>3, <2>4, <2>5, <2>6 DEF VoiceFollowed
<1>5. QED
  BY <1>3, <1>4 DEF FollowInv

\* Everything the gateway does but its closes and restarts.
LEMMA GatewayFollows ==
  ASSUME NeverOffline, VInv, PresenceInv, FollowInv, GatewayStep
  PROVE  FollowInv'
<1>1. UNCHANGED voiceVars
  BY DEF GatewayStep
<1>2. \/ UNCHANGED <<socketUser, leaving, presence>>
      \/ \E s \in Socket, u \in User : Connect(s, u)
      \/ \E s \in Socket : Collect(s) \/ ConnectDb(s) \/ LeaveStores(s)
      \/ \E u \in User : PresenceDb(u)
  <2>1. ASSUME NEW s \in Socket, SocketStep(s)
        PROVE  \/ UNCHANGED <<socketUser, leaving, presence>>
               \/ (\E u \in User : Connect(s, u)) \/ Collect(s) \/ ConnectDb(s) \/ LeaveStores(s)
    BY <2>1 DEF SocketStep, RejectConnection, ConnectStep, Register, ConnectRedis, ConnectAnnounce,
                SubscribeChannels, SubscribeDm, Subscribed, PresenceSet, StartPresence, status
  <2>2. ASSUME NEW u \in User, UserNext(u)
        PROVE  UNCHANGED <<socketUser, leaving, presence>> \/ PresenceDb(u)
    BY <2>2 DEF UserNext, UpdateStatus, StartPresence, PresenceStep, PresenceRedis,
                PresenceAnnounce, RedisExpire, JoinGuild, handlers, status
  <2>3. ASSUME NEW t \in Thread, NEW us \in SUBSET User, CreateThread(t, us)
        PROVE  UNCHANGED <<socketUser, leaving, presence>>
    BY <2>3 DEF CreateThread, handlers, status
  <2>4. QED
    BY <2>1, <2>2, <2>3 DEF GatewayStep
<1>3. CASE UNCHANGED <<socketUser, leaving, presence>>
  BY <1>1, <1>3, GatewayMoves
<1>4. ASSUME NEW s \in Socket, (\E u \in User : Connect(s, u)) \/ Collect(s)
      PROVE  FollowInv'
  <2>1. UNCHANGED <<leaving, presence>> /\ leaving[s] = "no"
    BY <1>4 DEF Connect, Collect, handlers, status, VInv, IInv, HandlersSound
  <2>2. \A t \in Socket : t # s => socketUser'[t] = socketUser[t]
    BY <1>4 DEF Connect, Collect, VInv, IInv, GatewayTypeOK
  <2>3. QED
    BY <1>1, <2>1, <2>2, GatewayMoves
<1>5. ASSUME NEW s \in Socket, ConnectDb(s)
      PROVE  FollowInv'
  <2>1. UNCHANGED <<leaving, socketUser>>
    BY <1>5 DEF ConnectDb
  <2>2. \A u \in User : presence'[u] = presence[u] \/ presence'[u] # "OFFLINE"
    BY <1>5 DEF ConnectDb, VInv, IInv, GatewayTypeOK
  <2>3. QED
    BY <1>1, <2>1, <2>2, GatewayMoves
<1>6. ASSUME NEW s \in Socket, LeaveStores(s)
      PROVE  FollowInv'
  <2>1. UNCHANGED socketUser /\ \A t \in Socket : t # s => leaving'[t] = leaving[t]
    BY <1>6 DEF LeaveStores, DisconnectRedis, DisconnectDb, DisconnectAnnounce, VInv, IInv,
                GatewayTypeOK
  <2>2. /\ leaving[s] \in {"redis", "db", "announce"}
        /\ leaving'[s] \in {"db", "announce", "no"}
    BY <1>6 DEF LeaveStores, DisconnectRedis, DisconnectDb, DisconnectAnnounce, VInv, IInv,
                GatewayTypeOK
  <2>3. \A u \in User : presence'[u] = presence[u] \/ u = socketUser[s]
    BY <1>6 DEF LeaveStores, DisconnectRedis, DisconnectDb, DisconnectAnnounce, VInv, IInv,
                GatewayTypeOK
  <2>4. \A u \in User : u = socketUser[s] => CallsOf(u) = {} /\ RowsOf(u) = {}
    BY <2>2 DEF FollowInv, VoiceFollowed, LeaveCached, SocketsOf
  <2>5. QED
    BY <1>1, <2>1, <2>2, <2>3, <2>4, GatewayMoves
<1>7. ASSUME NEW u \in User, PresenceDb(u)
      PROVE  FollowInv'
  <2>1. UNCHANGED <<leaving, socketUser>> /\ presenceCall[u].pc # "idle"
    BY <1>7 DEF PresenceDb, AfterDb
  <2>2. presenceCall[u].status # "OFFLINE"
    BY <2>1 DEF PresenceInv, UserFollowed, OnlineFollowed
  <2>3. \A x \in User : presence'[x] = presence[x] \/ presence'[x] # "OFFLINE"
    BY <1>7, <2>2 DEF PresenceDb, VInv, IInv, GatewayTypeOK
  <2>4. QED
    BY <1>1, <2>1, <2>3, GatewayMoves
<1>8. QED
  BY <1>2, <1>3, <1>4, <1>5, <1>6, <1>7

\* A socket closes.
LEMMA CloseVoiceFollows ==
  ASSUME NeverOffline, VInv, FollowInv, NEW s \in Socket, Close(s)
  PROVE  FollowInv'
<1>1. /\ UNCHANGED voiceVars /\ UNCHANGED <<socketUser, presence>>
      /\ CallsOf(socketUser[s]) = {}
      /\ \A t \in Socket : t # s => leaving'[t] = leaving[t]
      /\ leaving'[s] = leaving[s] \/ (leaving'[s] = "voice" /\ s \in sessions)
  BY DEF Close, Disconnect, Closed, NeverOffline, Calm, status, VInv, IInv, GatewayTypeOK
<1>2. s \in sessions => leaving[s] = "no"
  BY DEF Close, Disconnect, Closed, CloseMayCome, MayCome, NeverOffline, Calm, Quiet, SocketsOf,
         VInv, IInv, HandlersSound
<1>3. QED
  BY <1>1, <1>2, GatewayMoves

\* A restart leaves the rows, and no entry of the cache to disagree with them.
LEMMA RestartVoiceFollows ==
  ASSUME VInv, FollowInv, ServerRestart
  PROVE  FollowInv'
<1>1. /\ UNCHANGED <<voice, told, presence>> /\ cache' = {} /\ "restart" \in Env
      /\ \A k \in Call : call'[k].pc = "idle"
      /\ \A s \in Socket : cleanup'[s].pc = "no" /\ cleanup'[s].found = {} /\ leaving'[s] = "no"
  BY DEF ServerRestart, GatewayRestart, IdleCall, NoCleanup, status
<1>2. CleanupSound'
  BY <1>1 DEF CleanupSound, At
<1>3. ASSUME NEW u \in User
      PROVE  VoiceFollowed(u)'
  <2>1. CallsOf(u)' = {} /\ RowsOf(u)' = RowsOf(u) /\ Cached(u)'
    BY <1>1 DEF CallsOf, At, RowsOf, Cached, EntriesOf
  <2>2. \A s \in SocketsOf(u)' : LeaveCached(s, u)'
    BY <1>1 DEF LeaveCached, SocketsOf
  <2>3. RowsOf(u)' # {} => presence'[u] # "OFFLINE"
    BY <1>1, <2>1 DEF FollowInv, VoiceFollowed
  <2>4. QED
    BY <1>1, <2>1, <2>2, <2>3 DEF VoiceFollowed
<1>4. QED
  BY <1>2, <1>3 DEF FollowInv

\* An empty table, an empty cache and empty screens agree.
LEMMA InitFollowInv == VoiceInit => FollowInv
<1> SUFFICES ASSUME VoiceInit PROVE FollowInv
  OBVIOUS
<1>1. /\ \A k \in Call : call[k].pc = "idle"
      /\ \A s \in Socket : cleanup[s].pc = "no" /\ cleanup[s].found = {} /\ leaving[s] = "no"
      /\ voice = {} /\ cache = {} /\ \A c \in Channel : told[c] = {}
  BY DEF VoiceInit, GatewayInit, NoSockets, IdleCall, NoCleanup
<1>2. ASSUME NEW u \in User
      PROVE  VoiceFollowed(u)
  <2>1. CallsOf(u) = {} /\ RowsOf(u) = {} /\ Cached(u) /\ OneRow(u) /\ ShownAt(u, RowsOf(u))
    BY <1>1 DEF CallsOf, At, RowsOf, Cached, EntriesOf, OneRow, ShownAt, ShownIn
  <2>2. QED
    BY <1>1, <2>1 DEF VoiceFollowed, LeaveCached, SocketsOf
<1>3. QED
  BY <1>1, <1>2 DEF FollowInv, CleanupSound, At

\* All of it together.
FollowedInv == VInv /\ PresenceInv /\ FollowInv

\* Every step keeps what the voice states follow.
LEMMA FollowNext == NeverOffline /\ FollowedInv /\ [VoiceNext]_vars => FollowedInv'
<1> SUFFICES ASSUME NeverOffline, FollowedInv, [VoiceNext]_vars PROVE FollowedInv'
  OBVIOUS
<1>1. VInv /\ PresenceInv /\ FollowInv /\ IInv
  BY DEF FollowedInv, VInv
<1>2. VInv' /\ PresenceInv'
  BY <1>1, VoiceNextKeeps, VoiceStepMaps, NextFollows
<1>3. ASSUME UNCHANGED vars
      PROVE  FollowInv'
  <2>1. UNCHANGED voiceVars /\ UNCHANGED <<socketUser, leaving, presence>>
    BY <1>3 DEF vars, gatewayVars, handlers, status
  <2>2. QED
    BY <1>1, <2>1, GatewayMoves
<1>4. ASSUME VoiceNext
      PROVE  FollowInv'
  <2>1. ASSUME NEW k \in Call,
               CallStep(k) \/ SpeakRequest(k) \/ \E u \in User : UserRequest(k, u)
        PROVE  FollowInv'
    BY <1>1, <2>1, CallFollows, RequestsFollow
  <2>2. ASSUME NEW s \in Socket, CleanupStep(s) \/ Close(s)
        PROVE  FollowInv'
    BY <1>1, <2>2, CleanupFollows, CloseVoiceFollows
  <2>3. GatewayStep \/ ServerRestart => FollowInv'
    BY <1>1, GatewayFollows, RestartVoiceFollows
  <2>4. QED
    BY <1>4, <2>1, <2>2, <2>3 DEF VoiceNext
<1>5. FollowInv'
  BY <1>3, <1>4
<1>6. QED
  BY <1>2, <1>5 DEF FollowedInv

\* What the voice states follow holds in every reachable state.
THEOREM FollowInvariant == NeverOffline => (VoiceSpec => []FollowedInv)
<1> SUFFICES ASSUME NeverOffline PROVE VoiceSpec => []FollowedInv
  OBVIOUS
<1>1. VoiceInit => FollowedInv
  BY InitVInv, InitFollows, InitFollowInv DEF FollowedInv, VoiceInit
<1>2. FollowedInv /\ [VoiceNext]_vars => FollowedInv'
  BY FollowNext
<1>3. QED
  BY <1>1, <1>2, PTL DEF VoiceSpec

\* Of a user whose voice state nothing is at work on, the invariant says it all.
LEMMA QuietFollowed ==
  ASSUME FollowedInv, NEW u \in User, VoiceQuiet(u)
  PROVE  Cached(u) /\ ("restart" \notin Env => OneRow(u) /\ ShownAt(u, RowsOf(u)))
BY DEF FollowedInv, FollowInv, VoiceFollowed, VoiceQuiet, CleanupSound, SocketsOf

\* Where the events of a user do not overlap and nobody chooses OFFLINE, whatever
\* restarts, the cache that decides whose audio is relayed holds for a user without
\* a request under way nothing but copies of rows.
THEOREM CacheSoundTheorem == NeverOffline => (VoiceSpec => []CacheSound)
<1> SUFFICES ASSUME NeverOffline PROVE VoiceSpec => []CacheSound
  OBVIOUS
<1>1. FollowedInv => CacheSound
  <2> SUFFICES ASSUME FollowedInv, NEW u \in User, VoiceQuiet(u), NEW e \in cache, e.user = u
               PROVE  e \in {EntryOf(r) : r \in voice}
    BY DEF CacheSound
  <2>1. Cached(u)
    BY QuietFollowed
  <2>2. QED
    BY <2>1 DEF Cached, EntriesOf, Entered, RowsOf
<1>2. QED
  BY <1>1, FollowInvariant, PTL

\* Where, besides, the server stays up, subscribers of a channel are shown exactly
\* the users who have a row in it, once no request is under way.
THEOREM ToldAgreesTheorem ==
    NeverOffline /\ "restart" \notin Env => (VoiceSpec => []ToldAgrees)
<1> SUFFICES ASSUME NeverOffline, "restart" \notin Env PROVE VoiceSpec => []ToldAgrees
  OBVIOUS
<1>1. FollowedInv => ToldAgrees
  BY QuietFollowed DEF ToldAgrees, Settled, ShownAt, ShownIn
<1>2. QED
  BY <1>1, FollowInvariant, PTL

\* ... and a user is in one voice channel over all guilds.
THEOREM OneVoiceChannelTheorem ==
    NeverOffline /\ "restart" \notin Env => (VoiceSpec => []OneVoiceChannel)
<1> SUFFICES ASSUME NeverOffline, "restart" \notin Env PROVE VoiceSpec => []OneVoiceChannel
  OBVIOUS
<1>1. FollowedInv => OneVoiceChannel
  BY QuietFollowed DEF OneVoiceChannel, Settled, OneRow
<1>2. QED
  BY <1>1, FollowInvariant, PTL
==============================================================================
