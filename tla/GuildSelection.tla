---------------------------- MODULE GuildSelection ----------------------------
(***************************************************************************)
(* What a signed-in client shows beside the messages: guilds, channels,    *)
(* members, direct threads, its own presence                               *)
(* (client/src/viewmodels/GuildViewModel.cpp, the rest of                  *)
(* client/src/store/AppStore.cpp, sign-in and logout of                    *)
(* client/src/viewmodels/AuthViewModel.cpp), and what it subscribes to.    *)
(* Every answer is taken for what is selected when it arrives.             *)
(* A request is served when it is sent; its answer comes back later.       *)
(***************************************************************************)
EXTENDS Naturals, Sequences, SequencesExt

CONSTANTS
    Guild, NoGuild,
    MaxRooms,           \* bound: channels of one guild
    MaxThreads,         \* bound: direct threads
    MaxAnswers,         \* bound: answers and events under way when the user acts
    GuildScenarios      \* what the environment may do: sets of
                        \* "friend", "late", "fail", "reconnect", "create", "logout"

ASSUME GuildAssumption == NoGuild \notin Guild /\ MaxRooms \in Nat \ {0, 1} /\ MaxThreads \in Nat

VARIABLES
    guildEnv,       \* never changes
    account,        \* the server: the user's guilds, direct threads, presence
    rooms,          \* the server: the types of every guild's channels; a new guild has two
    friend,         \* the server: another user's guilds and presence
    store,          \* AppStore, without messages and voice participants
    subs,           \* channels: wanted by the client, held by the server; up: the client's
                    \* gateway session is registered at the server
    answers         \* answers and events under way to the client

guildVars == <<guildEnv, account, rooms, friend, store, subs, answers>>

RoomType == {"TEXT", "VOICE"}
Room == Guild \X (1..MaxRooms)      \* a channel: the n-th of a guild
NoRoom == <<>>
Presence == {"ONLINE", "OFFLINE"}
NoUser == "none"

\* clearSession.
Cleared == [signedIn |-> FALSE, presence |-> NoUser, guilds |-> <<>>, guild |-> NoGuild,
            rooms |-> [of |-> NoGuild, types |-> <<>>], room |-> NoRoom,
            members |-> [of |-> NoGuild, friend |-> NoUser], threads |-> 0]

NoSubs == [wanted |-> {}, held |-> {}, up |-> FALSE]

GuildTypeOK ==
    /\ guildEnv \in GuildScenarios
    /\ account \in [guilds : Seq(Guild), threads : 0..MaxThreads]
    /\ rooms \in [Guild -> Seq(RoomType)]
    /\ \A g \in Guild : Len(rooms[g]) <= MaxRooms
    /\ friend \in [guilds : SUBSET Guild, presence : Presence]
    /\ store.signedIn \in BOOLEAN /\ store.presence \in Presence \cup {NoUser}
    /\ store.guilds \in Seq(Guild) /\ store.guild \in Guild \cup {NoGuild}
    /\ store.rooms.of \in Guild \cup {NoGuild} /\ store.room \in Room \cup {NoRoom}
    /\ store.members.friend \in Presence \cup {NoUser}
    /\ store.threads \in 0..MaxThreads
    /\ subs.wanted \subseteq Room /\ subs.held \subseteq Room /\ subs.up \in BOOLEAN

GuildInit ==
    /\ guildEnv \in GuildScenarios
    /\ account = [guilds |-> <<>>, threads |-> 0]
    /\ rooms = [g \in Guild |-> <<"TEXT", "VOICE">>]
    /\ friend = [guilds |-> {}, presence |-> "OFFLINE"]
    /\ store = Cleared
    /\ subs = NoSubs
    /\ answers = <<>>

-----------------------------------------------------------------------------
(* Requests.  Answer(r) is what the server answers to the request r.  *)

Member(g) == IF g \in friend'.guilds THEN friend'.presence ELSE NoUser

Answer(r) ==
    CASE r.kind = "guilds" -> [kind |-> "guilds", list |-> account'.guilds]
      [] r.kind = "rooms" -> [kind |-> "rooms", of |-> r.of, types |-> rooms'[r.of]]
      [] r.kind = "members" -> [kind |-> "members", of |-> r.of, friend |-> Member(r.of)]
      [] r.kind = "threads" -> [kind |-> "threads", count |-> account'.threads]
      [] OTHER -> r

\* The requests rs are sent; "fail": each may fail.
Ask(rs, rest) ==
    \E failed \in SUBSET (IF "fail" \in guildEnv THEN 1..Len(rs) ELSE {}) :
        answers' = rest \o [i \in 1..Len(rs) |->
            IF i \in failed THEN [kind |-> "failed"] ELSE Answer(rs[i])]

LoadGuilds == <<[kind |-> "guilds"]>>
LoadDmThreads == <<[kind |-> "threads"]>>
LoadChannels(g) == IF g = NoGuild THEN <<>> ELSE <<[kind |-> "rooms", of |-> g]>>
LoadGuildMembers(g) == IF g = NoGuild THEN <<>> ELSE <<[kind |-> "members", of |-> g]>>
LoadGuild(g) == LoadChannels(g) \o LoadGuildMembers(g)

Server == <<account, rooms, friend>>

-----------------------------------------------------------------------------
(* The user. *)

UserActs == Len(answers) < MaxAnswers

\* A gateway session is registered and told what the client wants: sendSubscriptions.
Registered == [subs EXCEPT !.held = subs.wanted, !.up = TRUE]

\* applyAuthResponse; Application loads guilds and threads when the session is ready.
\* The server tells everybody the new presence, and this request answers it.
\* The gateway session is there at once, or ("reconnect") later.
SignIn ==
    /\ UserActs /\ ~store.signedIn
    /\ store' = [store EXCEPT !.signedIn = TRUE, !.presence = "ONLINE"]
    /\ subs' = IF "reconnect" \in guildEnv THEN subs ELSE Registered
    /\ UNCHANGED <<guildEnv, Server>>
    /\ Ask(<<[kind |-> "presence"]>> \o LoadGuilds \o LoadDmThreads, answers)

\* logout; "logout": while answers are under way.
Logout ==
    /\ store.signedIn
    /\ answers = <<>> \/ "logout" \in guildEnv
    /\ store' = Cleared
    /\ subs' = NoSubs
    /\ UNCHANGED <<guildEnv, Server, answers>>

SelectGuild(g) ==
    /\ UserActs /\ store.signedIn /\ g \in ToSet(store.guilds)
    /\ store' = [store EXCEPT !.guild = g]
    /\ UNCHANGED <<guildEnv, Server, subs>>
    /\ Ask(LoadGuild(g), answers)

\* A text channel is selected on the screen (ChatTimeline).
SelectRoom(i) ==
    /\ store.signedIn /\ i \in 1..Len(store.rooms.types) /\ store.rooms.types[i] = "TEXT"
    /\ store' = [store EXCEPT !.room = <<store.rooms.of, i>>]
    /\ UNCHANGED <<guildEnv, Server, subs, answers>>

\* createGuild, joinInvite.
JoinGuild(g) ==
    /\ UserActs /\ store.signedIn /\ g \notin ToSet(account.guilds)
    /\ account' = [account EXCEPT !.guilds = Append(@, g)]
    /\ UNCHANGED <<guildEnv, rooms, friend, store, subs>>
    /\ Ask(<<[kind |-> "joined"]>>, answers)

CreateChannel(type) ==
    /\ UserActs /\ store.guild # NoGuild
    /\ "create" \in guildEnv /\ Len(rooms[store.guild]) < MaxRooms
    /\ rooms' = [rooms EXCEPT ![store.guild] = Append(@, type)]
    /\ UNCHANGED <<guildEnv, account, friend, store, subs>>
    /\ Ask(<<[kind |-> "roomCreated"]>>, answers)

CreateDmThread ==
    /\ UserActs /\ store.signedIn /\ account.threads < MaxThreads
    /\ account' = [account EXCEPT !.threads = @ + 1]
    /\ UNCHANGED <<guildEnv, rooms, friend, store, subs>>
    /\ Ask(<<[kind |-> "threadCreated"]>>, answers)

-----------------------------------------------------------------------------
(* The others. *)

\* An event goes to the sessions there are: without one it is lost.
Tells(e) == answers' = IF subs.up THEN Append(answers, e) ELSE answers

FriendJoins(g) ==
    /\ "friend" \in guildEnv /\ UserActs /\ g \notin friend.guilds
    /\ friend' = [friend EXCEPT !.guilds = @ \cup {g}]
    /\ Tells([kind |-> "memberJoin", of |-> g])
    /\ UNCHANGED <<guildEnv, account, rooms, store, subs>>

FriendPresence ==
    /\ "friend" \in guildEnv /\ UserActs
    /\ friend' = [friend EXCEPT !.presence = CHOOSE p \in Presence : p # @]
    /\ Tells([kind |-> "friendPresence", presence |-> friend'.presence])
    /\ UNCHANGED <<guildEnv, account, rooms, store, subs>>

\* Somebody creates a channel; the client does not handle channel_create.
OtherCreates(g) ==
    /\ "create" \in guildEnv /\ Len(rooms[g]) < MaxRooms
    /\ rooms' = [rooms EXCEPT ![g] = Append(@, "TEXT")]
    /\ UNCHANGED <<guildEnv, account, friend, store, subs, answers>>

\* "reconnect": the client's session is registered (after sign-in, or again), and it
\* is lost.  Nothing is loaded again; subscriptions lost between the two ends are
\* GatewayLink's matter.
SessionBegins ==
    /\ "reconnect" \in guildEnv /\ store.signedIn /\ ~subs.up
    /\ subs' = Registered
    /\ UNCHANGED <<guildEnv, Server, store, answers>>

SessionEnds ==
    /\ "reconnect" \in guildEnv /\ subs.up
    /\ subs' = [subs EXCEPT !.held = {}, !.up = FALSE]
    /\ UNCHANGED <<guildEnv, Server, store, answers>>

-----------------------------------------------------------------------------
(* What arrives: in the order it was sent, or ("late") in any order.  *)

Comes(i, kinds) ==
    /\ i \in 1..Len(answers) /\ answers[i].kind \in kinds
    /\ i = 1 \/ "late" \in guildEnv

After(i, rs) == /\ UNCHANGED <<guildEnv, Server>>
                /\ Ask(rs, RemoveAt(answers, i))

\* subscribeChannels: without a session nothing is sent, signed in or not.
Subscribe(ids) ==
    subs' = [subs EXCEPT !.wanted = ids, !.held = IF subs.up THEN @ \cup ids ELSE @]

\* loadGuilds: the first guild is selected if none is, the selected one reloaded.
GuildsListed(i) ==
    /\ Comes(i, {"guilds"})
    /\ LET list == answers[i].list
           g == IF store.guild = NoGuild /\ list # <<>> THEN Head(list) ELSE store.guild
       IN store' = [store EXCEPT !.guilds = list, !.guild = g] /\ After(i, LoadGuild(g))
    /\ UNCHANGED subs

\* Mutant: the loop over the channels starts at the second.
RoomsButFirst(i) ==
    /\ Comes(i, {"rooms"})
    /\ LET a == answers[i]
           ids == {<<a.of, n>> : n \in 2..Len(a.types)}
           first == SelectInSeq(a.types, LAMBDA t : t = "TEXT")
       IN /\ store' = [store EXCEPT !.rooms = [of |-> a.of, types |-> a.types],
                         !.room = IF @ = NoRoom /\ first # 0 THEN <<a.of, first>> ELSE @]
          /\ Subscribe(ids)
    /\ After(i, <<>>)

\* loadChannels: all channels are subscribed, a first text channel selected.
RoomsListed(i) ==
    /\ Comes(i, {"rooms"})
    /\ LET a == answers[i]
           ids == {<<a.of, n>> : n \in 1..Len(a.types)}
           first == SelectInSeq(a.types, LAMBDA t : t = "TEXT")
       IN /\ store' = [store EXCEPT !.rooms = [of |-> a.of, types |-> a.types],
                         !.room = IF @ = NoRoom /\ first # 0 THEN <<a.of, first>> ELSE @]
          /\ Subscribe(ids)
    /\ After(i, <<>>)

MembersListed(i) ==
    /\ Comes(i, {"members"})
    /\ store' = [store EXCEPT !.members = [of |-> answers[i].of, friend |-> answers[i].friend]]
    /\ UNCHANGED subs
    /\ After(i, <<>>)

ThreadsListed(i) ==
    /\ Comes(i, {"threads"})
    /\ store' = [store EXCEPT !.threads = answers[i].count]
    /\ UNCHANGED subs
    /\ After(i, <<>>)

\* The lists are loaded again after what was created or joined.
Created(i) ==
    /\ Comes(i, {"joined", "roomCreated", "threadCreated"})
    /\ UNCHANGED <<store, subs>>
    /\ After(i, CASE answers[i].kind = "joined" -> LoadGuilds
                  [] answers[i].kind = "roomCreated" -> LoadChannels(store.guild)
                  [] OTHER -> LoadDmThreads)

\* guild_member_join.
MemberJoined(i) ==
    /\ Comes(i, {"memberJoin"})
    /\ UNCHANGED <<store, subs>>
    /\ After(i, IF answers[i].of = store.guild THEN LoadGuildMembers(store.guild) ELSE <<>>)

\* presence_update of somebody in the list of members.
PresencePatched(i) ==
    /\ Comes(i, {"friendPresence"})
    /\ store' = [store EXCEPT !.members.friend =
                    IF @ = NoUser THEN NoUser ELSE answers[i].presence]
    /\ UNCHANGED subs
    /\ After(i, <<>>)

\* The answer of updatePresence: into the user's record, signed in or not.
PresenceAnswered(i) ==
    /\ Comes(i, {"presence"})
    /\ store' = [store EXCEPT !.presence = "ONLINE"]
    /\ UNCHANGED subs
    /\ After(i, <<>>)

Failed(i) ==
    /\ Comes(i, {"failed"})
    /\ UNCHANGED <<store, subs>>
    /\ After(i, <<>>)

GuildNext ==
    \/ SignIn \/ Logout \/ CreateDmThread \/ FriendPresence
    \/ SessionBegins \/ SessionEnds
    \/ \E g \in Guild : SelectGuild(g) \/ JoinGuild(g) \/ FriendJoins(g) \/ OtherCreates(g)
    \/ \E n \in 1..MaxRooms : SelectRoom(n)
    \/ \E t \in RoomType : CreateChannel(t)
    \/ \E i \in 1..Len(answers) :
          \/ GuildsListed(i) \/ RoomsListed(i) \/ MembersListed(i) \/ ThreadsListed(i)
          \/ Created(i) \/ MemberJoined(i) \/ PresencePatched(i) \/ PresenceAnswered(i)
          \/ Failed(i)

GuildSpec == GuildInit /\ [][GuildNext]_guildVars

-----------------------------------------------------------------------------
(* Properties. *)

\* When nothing is under way, and nothing came late or failed, the screen shows the
\* user's guilds, and the channels and members of the selected one.  Friends act or
\* sessions are lost, not both: an event that finds no session is lost, and the
\* members are not loaded again.
ShowsGuild ==
    guildEnv \in {{}, {"friend"}, {"reconnect"}} /\ store.signedIn /\ answers = <<>> =>
        /\ store.guilds = account.guilds /\ store.threads = account.threads
        /\ store.guild # NoGuild =>
              /\ store.rooms = [of |-> store.guild, types |-> rooms[store.guild]]
              /\ store.members.of = store.guild
              /\ store.members.friend =
                    IF store.guild \in friend.guilds THEN friend.presence ELSE NoUser

\* The events of the channel on the screen are held by the session, if there is one:
\* always, unless the session is a new one and the lists show another guild than that
\* channel's or, from an answer that was overtaken, the channels there were before that one.
OpenRoomHeard ==
    subs.up /\ store.room # NoRoom /\
    ({"reconnect", "logout"} \cap guildEnv # {} =>
        store.room[1] = store.rooms.of /\ ~({"late", "create"} \subseteq guildEnv)) =>
        store.room \in subs.held

\* Who is signed out has nothing in the store, if nothing was under way at logout.
SignedOutEmpty == "logout" \notin guildEnv /\ ~store.signedIn => store = Cleared

\* The three together.
GuildSound == ShowsGuild /\ OpenRoomHeard /\ SignedOutEmpty
=============================================================================
