--------------------------- MODULE GatewaySessions ---------------------------
(***************************************************************************)
(* Connections, subscriptions and presence of the WebSocket gateway        *)
(* (server/src/gateway/gateway.service.ts, presence/presence.service.ts).  *)
(* node runs one handler at a time and switches only at an await, so each  *)
(* action below is the code between two awaits, or one effect on Redis or  *)
(* Postgres.  What handleDisconnect does to voice rows is in VoiceStates.  *)
(***************************************************************************)
EXTENDS FiniteSets

CONSTANTS
    User, NoUser,
    Socket,         \* WebSocket objects; one that nothing refers to is reused
    Guild, Channel, GuildOf,
    Thread,         \* DM threads
    Asked,          \* the sets of channels clients ask to subscribe to
    Chosen,         \* the statuses users set themselves
    Env             \* what the environment may do, see EnvKind

\* "overlap": an event of a user reaches the server while an earlier one of the
\*     same user is still being handled (a reconnect or close before the last
\*     handler has finished).
\* "earlyClose": a socket closes before the lookup of its user has answered.
\* "rest": PATCH /presence/me from a user without a gateway connection.
\* "ttl": the presence key in Redis expires.
\* "restart": the server process ends and is started again.
EnvKind == {"overlap", "earlyClose", "rest", "ttl", "restart"}

Status == {"ONLINE", "IDLE", "DND", "OFFLINE"}

ASSUME GatewayAssumption ==
    /\ NoUser \notin User
    /\ GuildOf \in [Channel -> Guild]
    /\ Asked \subseteq SUBSET Channel
    /\ Chosen \subseteq Status
    /\ Env \subseteq EnvKind

VARIABLES
    readyState,         \* of each WebSocket
    socketUser,         \* payload.sub of the token it was opened with
    sessions,           \* sockets with an entry in the sessions WeakMap
    channelSubs, guildSubs, dmSubs,     \* the fields of ClientSession
    socketsByUserId,
    connecting,         \* the await handleConnection(s) is at
    leaving,            \* the await handleDisconnect(s) is at
    subscribing,        \* ids a subscribe handler has asked Postgres about
    presenceCall,       \* presence_set or PATCH /presence/me under way
    member,             \* GuildMember rows
    threadMember,       \* DMThreadMember rows
    redis,              \* presence key in Redis
    presence,           \* column User.presence
    announced           \* status in the last presence_update broadcast

tables == <<socketsByUserId, sessions>>
subs == <<channelSubs, guildSubs, dmSubs>>
handlers == <<connecting, leaving, subscribing, presenceCall>>
rows == <<member, threadMember>>
status == <<redis, presence, announced>>
gatewayVars == <<readyState, socketUser, tables, subs, handlers, rows, status>>

PresenceCall ==
    [pc : {"wsRedis", "wsDb", "restDb", "restRedis", "announce", "idle"}, status : Status]
NoPresenceCall == [pc |-> "idle", status |-> "OFFLINE"]

\* The subscription request of a socket, or {} if there is none under way.
Place == (Channel \X {"channel"}) \cup (Thread \X {"thread"})

GatewayTypeOK ==
    /\ readyState \in [Socket -> {"none", "open", "closed"}]
    /\ socketUser \in [Socket -> User \cup {NoUser}]
    /\ sessions \subseteq Socket
    /\ channelSubs \in [Socket -> SUBSET Channel]
    /\ guildSubs \in [Socket -> SUBSET Guild]
    /\ dmSubs \in [Socket -> SUBSET Thread]
    /\ socketsByUserId \in [User -> SUBSET Socket]
    /\ connecting \in [Socket -> {"no", "lookup", "redis", "db", "announce"}]
    /\ leaving \in [Socket -> {"no", "voice", "redis", "db", "announce"}]
    /\ subscribing \in [Socket -> SUBSET Place]
    /\ presenceCall \in [User -> PresenceCall]
    /\ member \in [Guild -> SUBSET User]
    /\ threadMember \in [Thread -> SUBSET User]
    /\ redis \in [User -> Status \cup {"expired"}]
    /\ presence \in [User -> Status]
    /\ announced \in [User -> Status]

NoSockets ==
    /\ readyState = [s \in Socket |-> "none"]
    /\ socketUser = [s \in Socket |-> NoUser]
    /\ sessions = {}
    /\ channelSubs = [s \in Socket |-> {}]
    /\ guildSubs = [s \in Socket |-> {}]
    /\ dmSubs = [s \in Socket |-> {}]
    /\ socketsByUserId = [u \in User |-> {}]
    /\ connecting = [s \in Socket |-> "no"]
    /\ leaving = [s \in Socket |-> "no"]
    /\ subscribing = [s \in Socket |-> {}]
    /\ presenceCall = [u \in User |-> NoPresenceCall]

GatewayInit ==
    /\ NoSockets
    /\ member \in [Guild -> SUBSET User]
    /\ threadMember = [t \in Thread |-> {}]
    /\ redis = [u \in User |-> "expired"]
    /\ presence = [u \in User |-> "OFFLINE"]
    /\ announced = [u \in User |-> "OFFLINE"]

SocketsOf(u) == {s \in Socket : socketUser[s] = u}

\* No handler of the user is suspended at an await.
Quiet(u) ==
    /\ \A s \in SocketsOf(u) : connecting[s] = "no" /\ leaving[s] = "no"
    /\ presenceCall[u].pc = "idle"

MayCome(u) == "overlap" \in Env \/ Quiet(u)

-----------------------------------------------------------------------------
(* handleConnection *)

\* A client opens a socket with a valid token and the lookup of its user starts.
Connect(s, u) ==
    /\ readyState[s] = "none" /\ MayCome(u)
    /\ readyState' = [readyState EXCEPT ![s] = "open"]
    /\ socketUser' = [socketUser EXCEPT ![s] = u]
    /\ connecting' = [connecting EXCEPT ![s] = "lookup"]
    /\ UNCHANGED <<tables, subs, leaving, subscribing, presenceCall, rows, status>>

\* No token, a bad token or an unknown user: close(4001), nothing registered.
RejectConnection(s) ==
    /\ \/ readyState[s] = "none"
       \/ readyState[s] = "open" /\ connecting[s] = "lookup"
    /\ readyState' = [readyState EXCEPT ![s] = "closed"]
    /\ connecting' = [connecting EXCEPT ![s] = "no"]
    /\ UNCHANGED <<socketUser, tables, subs, leaving, subscribing, presenceCall, rows, status>>

\* The lookup answers.  The code does not look at readyState again.
Register(s) ==
    /\ connecting[s] = "lookup"
    /\ sessions' = sessions \cup {s}
    /\ socketsByUserId' = [socketsByUserId EXCEPT ![socketUser[s]] = @ \cup {s}]
    /\ channelSubs' = [channelSubs EXCEPT ![s] = {}]
    /\ guildSubs' = [guildSubs EXCEPT ![s] = {}]
    /\ dmSubs' = [dmSubs EXCEPT ![s] = {}]
    /\ connecting' = [connecting EXCEPT ![s] = "redis"]
    /\ UNCHANGED <<readyState, socketUser, leaving, subscribing, presenceCall, rows, status>>

ConnectRedis(s) ==
    /\ connecting[s] = "redis"
    /\ redis' = [redis EXCEPT ![socketUser[s]] = "ONLINE"]
    /\ connecting' = [connecting EXCEPT ![s] = "db"]
    /\ UNCHANGED <<readyState, socketUser, tables, subs, leaving, subscribing,
                   presenceCall, rows, presence, announced>>

\* Mutant: the row gets what Redis holds by now.
ConnectDbFromRedis(s) ==
    /\ connecting[s] = "db"
    /\ presence' = [presence EXCEPT ![socketUser[s]] = redis[socketUser[s]]]
    /\ connecting' = [connecting EXCEPT ![s] = "announce"]
    /\ UNCHANGED <<readyState, socketUser, tables, subs, leaving, subscribing,
                   presenceCall, rows, redis, announced>>

ConnectDb(s) ==
    /\ connecting[s] = "db"
    /\ presence' = [presence EXCEPT ![socketUser[s]] = "ONLINE"]
    /\ connecting' = [connecting EXCEPT ![s] = "announce"]
    /\ UNCHANGED <<readyState, socketUser, tables, subs, leaving, subscribing,
                   presenceCall, rows, redis, announced>>

ConnectAnnounce(s) ==
    /\ connecting[s] = "announce"
    /\ announced' = [announced EXCEPT ![socketUser[s]] = "ONLINE"]
    /\ connecting' = [connecting EXCEPT ![s] = "no"]
    /\ UNCHANGED <<readyState, socketUser, tables, subs, leaving, subscribing,
                   presenceCall, rows, redis, presence>>

-----------------------------------------------------------------------------
(* handleDisconnect *)

CloseMayCome(s) ==
    IF connecting[s] = "lookup" THEN "earlyClose" \in Env ELSE MayCome(socketUser[s])

Closed(s) ==
    /\ readyState[s] = "open" /\ CloseMayCome(s)
    /\ readyState' = [readyState EXCEPT ![s] = "closed"]
    /\ UNCHANGED <<socketUser, sessions, subs, connecting, subscribing, presenceCall,
                   rows, status>>

\* Mutant: every close of a session starts the cleanup.
DisconnectAnySocket(s) ==
    /\ Closed(s)
    /\ IF s \in sessions
         THEN /\ socketsByUserId' = [socketsByUserId EXCEPT ![socketUser[s]] = @ \ {s}]
              /\ leaving' = [leaving EXCEPT ![s] = "voice"]
         ELSE UNCHANGED <<socketsByUserId, leaving>>

\* Mutant: the size is tested before the socket is removed.
DisconnectTestsFirst(s) ==
    /\ Closed(s)
    /\ IF s \in sessions
         THEN /\ socketsByUserId' = [socketsByUserId EXCEPT ![socketUser[s]] = @ \ {s}]
              /\ leaving' = IF socketsByUserId[socketUser[s]] = {}
                            THEN [leaving EXCEPT ![s] = "voice"] ELSE leaving
         ELSE UNCHANGED <<socketsByUserId, leaving>>

\* Mutant: the whole entry of the user is deleted.
DisconnectForgetsUser(s) ==
    /\ Closed(s)
    /\ IF s \in sessions
         THEN /\ socketsByUserId' = [socketsByUserId EXCEPT ![socketUser[s]] = {}]
              /\ leaving' = [leaving EXCEPT ![s] = "voice"]
         ELSE UNCHANGED <<socketsByUserId, leaving>>

\* The socket closes.  A socket without a session is ignored; only the last
\* socket of a user starts the cleanup.
Disconnect(s) ==
    /\ Closed(s)
    /\ IF s \in sessions
         THEN /\ socketsByUserId' = [socketsByUserId EXCEPT ![socketUser[s]] = @ \ {s}]
              /\ leaving' = IF socketsByUserId[socketUser[s]] = {s}
                            THEN [leaving EXCEPT ![s] = "voice"] ELSE leaving
         ELSE UNCHANGED <<socketsByUserId, leaving>>

\* The voice rows have been removed.
DisconnectVoice(s) ==
    /\ leaving[s] = "voice"
    /\ leaving' = [leaving EXCEPT ![s] = "redis"]
    /\ UNCHANGED <<readyState, socketUser, tables, subs, connecting, subscribing,
                   presenceCall, rows, status>>

DisconnectRedis(s) ==
    /\ leaving[s] = "redis"
    /\ redis' = [redis EXCEPT ![socketUser[s]] = "OFFLINE"]
    /\ leaving' = [leaving EXCEPT ![s] = "db"]
    /\ UNCHANGED <<readyState, socketUser, tables, subs, connecting, subscribing,
                   presenceCall, rows, presence, announced>>

\* Mutant: a status the user chose is kept.
DisconnectDbKeepsChosen(s) ==
    /\ leaving[s] = "db"
    /\ presence' = [presence EXCEPT ![socketUser[s]] = IF @ = "ONLINE" THEN "OFFLINE" ELSE @]
    /\ leaving' = [leaving EXCEPT ![s] = "announce"]
    /\ UNCHANGED <<readyState, socketUser, tables, subs, connecting, subscribing,
                   presenceCall, rows, redis, announced>>

DisconnectDb(s) ==
    /\ leaving[s] = "db"
    /\ presence' = [presence EXCEPT ![socketUser[s]] = "OFFLINE"]
    /\ leaving' = [leaving EXCEPT ![s] = "announce"]
    /\ UNCHANGED <<readyState, socketUser, tables, subs, connecting, subscribing,
                   presenceCall, rows, redis, announced>>

DisconnectAnnounce(s) ==
    /\ leaving[s] = "announce"
    /\ announced' = [announced EXCEPT ![socketUser[s]] = "OFFLINE"]
    /\ leaving' = [leaving EXCEPT ![s] = "no"]
    /\ UNCHANGED <<readyState, socketUser, tables, subs, connecting, subscribing,
                   presenceCall, rows, redis, presence>>

-----------------------------------------------------------------------------
(* subscribe_channels and subscribe_dm_threads *)

\* Bound: one subscription request of a socket at a time.  One that arrives
\* before the session exists is dropped, so it changes nothing.
SubscribeChannels(s, cs) ==
    /\ readyState[s] = "open" /\ s \in sessions /\ subscribing[s] = {}
    /\ cs # {}
    /\ subscribing' = [subscribing EXCEPT ![s] = cs \X {"channel"}]
    /\ UNCHANGED <<readyState, socketUser, tables, subs, connecting, leaving,
                   presenceCall, rows, status>>

SubscribeDm(s, ts) ==
    /\ readyState[s] = "open" /\ s \in sessions /\ subscribing[s] = {}
    /\ ts # {}
    /\ subscribing' = [subscribing EXCEPT ![s] = ts \X {"thread"}]
    /\ UNCHANGED <<readyState, socketUser, tables, subs, connecting, leaving,
                   presenceCall, rows, status>>

\* Mutant: whatever was requested.
AllRequested(s) == {c \in Channel : <<c, "channel">> \in subscribing[s]}

\* What Postgres answers: the requested channels whose guild the user is in.
Memberships(s) ==
    {c \in Channel : <<c, "channel">> \in subscribing[s] /\ socketUser[s] \in member[GuildOf[c]]}

ValidThreads(s) ==
    {t \in Thread : <<t, "thread">> \in subscribing[s] /\ socketUser[s] \in threadMember[t]}

\* The rows arrive and are added to the session object, still open or not.
Subscribed(s) ==
    /\ subscribing[s] # {}
    /\ channelSubs' = [channelSubs EXCEPT ![s] = @ \cup Memberships(s)]
    /\ guildSubs' = [guildSubs EXCEPT ![s] = @ \cup {GuildOf[c] : c \in Memberships(s)}]
    /\ dmSubs' = [dmSubs EXCEPT ![s] = @ \cup ValidThreads(s)]
    /\ subscribing' = [subscribing EXCEPT ![s] = {}]
    /\ UNCHANGED <<readyState, socketUser, tables, connecting, leaving, presenceCall,
                   rows, status>>

-----------------------------------------------------------------------------
(* presence_set and PATCH /presence/me.  Bound: one of them per user at a time. *)

StartPresence(u, pc, st) ==
    /\ presenceCall[u].pc = "idle" /\ MayCome(u)
    /\ presenceCall' = [presenceCall EXCEPT ![u] = [pc |-> pc, status |-> st]]
    /\ UNCHANGED <<readyState, socketUser, tables, subs, connecting, leaving, subscribing,
                   rows, status>>

PresenceSet(s, st) ==
    /\ readyState[s] = "open" /\ s \in sessions
    /\ StartPresence(socketUser[s], "wsRedis", st)

UpdateStatus(u, st) ==
    /\ "rest" \in Env \/ \E s \in socketsByUserId[u] : readyState[s] = "open"
    /\ StartPresence(u, "restDb", st)

AfterRedis == [wsRedis |-> "wsDb", restRedis |-> "announce"]
\* Mutant: PATCH /presence/me leaves Redis alone.
AfterDbSkipsRedis == [wsDb |-> "announce", restDb |-> "announce"]

AfterDb == [wsDb |-> "announce", restDb |-> "restRedis"]

PresenceRedis(u) ==
    /\ presenceCall[u].pc \in DOMAIN AfterRedis
    /\ redis' = [redis EXCEPT ![u] = presenceCall[u].status]
    /\ presenceCall' = [presenceCall EXCEPT ![u].pc = AfterRedis[@]]
    /\ UNCHANGED <<readyState, socketUser, tables, subs, connecting, leaving, subscribing,
                   rows, presence, announced>>

PresenceDb(u) ==
    /\ presenceCall[u].pc \in DOMAIN AfterDb
    /\ presence' = [presence EXCEPT ![u] = presenceCall[u].status]
    /\ presenceCall' = [presenceCall EXCEPT ![u].pc = AfterDb[@]]
    /\ UNCHANGED <<readyState, socketUser, tables, subs, connecting, leaving, subscribing,
                   rows, redis, announced>>

PresenceAnnounce(u) ==
    /\ presenceCall[u].pc = "announce"
    /\ announced' = [announced EXCEPT ![u] = presenceCall[u].status]
    /\ presenceCall' = [presenceCall EXCEPT ![u] = NoPresenceCall]
    /\ UNCHANGED <<readyState, socketUser, tables, subs, connecting, leaving, subscribing,
                   rows, redis, presence>>

-----------------------------------------------------------------------------
(* The rest of the server and its environment *)

\* Members join guilds and DM threads are created; nobody is ever removed.
JoinGuild(u, g) ==
    /\ u \notin member[g]
    /\ member' = [member EXCEPT ![g] = @ \cup {u}]
    /\ UNCHANGED <<readyState, socketUser, tables, subs, handlers, threadMember, status>>

CreateThread(t, us) ==
    /\ threadMember[t] = {} /\ us # {}
    /\ threadMember' = [threadMember EXCEPT ![t] = us]
    /\ UNCHANGED <<readyState, socketUser, tables, subs, handlers, member, status>>

\* PRESENCE_TTL passes without another setPresence.
RedisExpire(u) ==
    /\ "ttl" \in Env
    /\ redis[u] # "expired"
    /\ redis' = [redis EXCEPT ![u] = "expired"]
    /\ UNCHANGED <<readyState, socketUser, tables, subs, handlers, rows, presence, announced>>

\* A closed socket that no map and no handler refers to is garbage; the WeakMap
\* entry goes with it, and the model uses the value for another socket.
Collect(s) ==
    /\ readyState[s] = "closed"
    /\ connecting[s] = "no" /\ leaving[s] = "no" /\ subscribing[s] = {}
    /\ \A u \in User : s \notin socketsByUserId[u]
    /\ readyState' = [readyState EXCEPT ![s] = "none"]
    /\ socketUser' = [socketUser EXCEPT ![s] = NoUser]
    /\ sessions' = sessions \ {s}
    /\ channelSubs' = [channelSubs EXCEPT ![s] = {}]
    /\ guildSubs' = [guildSubs EXCEPT ![s] = {}]
    /\ dmSubs' = [dmSubs EXCEPT ![s] = {}]
    /\ UNCHANGED <<socketsByUserId, handlers, rows, status>>

\* The process ends: sockets, maps and handlers are gone, the stores stay.
GatewayRestart ==
    /\ "restart" \in Env
    /\ readyState' = [s \in Socket |-> "none"]
    /\ socketUser' = [s \in Socket |-> NoUser]
    /\ sessions' = {}
    /\ channelSubs' = [s \in Socket |-> {}]
    /\ guildSubs' = [s \in Socket |-> {}]
    /\ dmSubs' = [s \in Socket |-> {}]
    /\ socketsByUserId' = [u \in User |-> {}]
    /\ connecting' = [s \in Socket |-> "no"]
    /\ leaving' = [s \in Socket |-> "no"]
    /\ subscribing' = [s \in Socket |-> {}]
    /\ presenceCall' = [u \in User |-> NoPresenceCall]
    /\ UNCHANGED <<rows, status>>

ConnectStep(s) ==
    \/ Register(s) \/ ConnectRedis(s) \/ ConnectDb(s) \/ ConnectAnnounce(s)

LeaveStores(s) == DisconnectRedis(s) \/ DisconnectDb(s) \/ DisconnectAnnounce(s)

LeaveStep(s) == DisconnectVoice(s) \/ LeaveStores(s)

PresenceStep(u) == PresenceRedis(u) \/ PresenceDb(u) \/ PresenceAnnounce(u)

\* Everything on a socket but its close, which VoiceStates refines.
SocketStep(s) ==
    \/ \E u \in User : Connect(s, u)
    \/ RejectConnection(s) \/ Collect(s)
    \/ ConnectStep(s) \/ LeaveStores(s)
    \/ \E cs \in Asked : SubscribeChannels(s, cs)
    \/ \E ts \in SUBSET Thread : SubscribeDm(s, ts)
    \/ Subscribed(s)
    \/ \E st \in Chosen : PresenceSet(s, st)

SocketNext(s) == SocketStep(s) \/ Disconnect(s) \/ DisconnectVoice(s)

UserNext(u) ==
    \/ \E st \in Chosen : UpdateStatus(u, st)
    \/ PresenceStep(u) \/ RedisExpire(u)
    \/ \E g \in Guild : JoinGuild(u, g)

GatewayNext ==
    \/ \E s \in Socket : SocketNext(s)
    \/ \E u \in User : UserNext(u)
    \/ \E t \in Thread, us \in SUBSET User : CreateThread(t, us)
    \/ GatewayRestart

GatewaySpec == GatewayInit /\ [][GatewayNext]_gatewayVars

\* node runs every handler to its end.
GatewayFairness ==
    /\ \A s \in Socket : /\ WF_gatewayVars(ConnectStep(s))
                         /\ WF_gatewayVars(LeaveStep(s))
                         /\ WF_gatewayVars(Subscribed(s))
    /\ \A u \in User : WF_gatewayVars(PresenceStep(u))

GatewayFairSpec == GatewaySpec /\ GatewayFairness

-----------------------------------------------------------------------------
\* The sockets emitToChannel, emitToGuild and emitToDmThread write to.
Routed == {s \in UNION {socketsByUserId[u] : u \in User} : s \in sessions /\ readyState[s] = "open"}
ChannelAudience(c) == {s \in Routed : c \in channelSubs[s]}
GuildAudience(g) == {s \in Routed : g \in guildSubs[s]}
ThreadAudience(t) == {s \in Routed : t \in dmSubs[s]}

\* Events of a channel, a guild or a thread are delivered to its members only,
\* although subscriptions are added long after the request that asked for them
\* and outlive whatever happened to the socket meanwhile.
DeliveredToMembers ==
    /\ \A c \in Channel : \A s \in ChannelAudience(c) : socketUser[s] \in member[GuildOf[c]]
    /\ \A g \in Guild : \A s \in GuildAudience(g) : socketUser[s] \in member[g]
    /\ \A t \in Thread : \A s \in ThreadAudience(t) : socketUser[s] \in threadMember[t]

\* The routing table is sound: a socket is listed under its own user, with a
\* session, and every open socket with a session is listed - so an event meant
\* for a user reaches all their live connections and nobody else's.
RoutingSound ==
    /\ \A u \in User : \A s \in socketsByUserId[u] : s \in sessions /\ socketUser[s] = u
    /\ \A s \in sessions : readyState[s] = "open" => s \in socketsByUserId[socketUser[s]]

Open(u) == {s \in SocketsOf(u) : readyState[s] = "open"}

\* User is "account identity, profile, current presence" (docs/DB.md:4): a
\* connected user is not shown OFFLINE once no handler of theirs is running,
\* unless they chose so.
ConnectedNotOffline ==
    \A u \in User : Quiet(u) /\ Open(u) \cap sessions # {} => presence[u] # "OFFLINE"

\* A user without a connection is shown OFFLINE once the handlers of the last
\* one have ended.
GoneIsOffline ==
    \A u \in User : Quiet(u) /\ Open(u) = {} => presence[u] = "OFFLINE"

\* What the clients were told last is what Postgres holds, and Redis holds the
\* same or nothing, whenever no handler of the user is running.
StoresAgree ==
    \A u \in User : Quiet(u) => /\ announced[u] = presence[u]
                                /\ redis[u] \in {presence[u], "expired"}

\* A user who stays away is eventually OFFLINE for good.
EventuallyOffline ==
    \A u \in User : <>[](Open(u) = {}) => <>[](presence[u] = "OFFLINE")
=============================================================================
