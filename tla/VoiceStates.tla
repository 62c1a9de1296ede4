----------------------------- MODULE VoiceStates -----------------------------
(***************************************************************************)
(* Voice states: the rows in Postgres, the gateway's in-memory copy of     *)
(* them (voiceSessionsByGuildUser) and the join and leave events           *)
(* (server/src/voice/voice.service.ts and the voice parts of               *)
(* gateway.service.ts), composed with GatewaySessions.  A request is a     *)
(* slot of Call; its pc names the database write it is about to make or,   *)
(* after that write, the code that runs when the write has answered.       *)
(***************************************************************************)
EXTENDS GatewaySessions

CONSTANTS
    VoiceChannel,   \* channels of type VOICE
    Flags,          \* values of muted that clients send
    Call,           \* slots for the requests in flight
    RowId           \* ids of VoiceState rows; one nothing refers to is reused

ASSUME VoiceAssumption == VoiceChannel \subseteq Channel /\ Flags \subseteq BOOLEAN

VARIABLES
    voice,          \* VoiceState rows
    cache,          \* voiceSessionsByGuildUser
    call,
    cleanup,        \* the voice part of handleDisconnect(s)
    told            \* who a subscriber of a channel shows in it, from the
                    \* voice_state_update events of that channel alone

voiceVars == <<voice, cache, call, cleanup, told>>
vars == <<gatewayVars, voiceVars>>

\* muted stands for both flags, muted and deafened.
Row == [id : RowId, guild : Guild, user : User, channel : Channel, muted : BOOLEAN]
Entry == [guild : Guild, user : User, channel : Channel, muted : BOOLEAN]

\* What the cache should hold for a row.
EntryOf(r) == [guild |-> r.guild, user |-> r.user, channel |-> r.channel, muted |-> r.muted]

VoicePc == {"upsert", "deleteStale", "joined", "delete", "left", "write", "updated",
            "evict", "evicted", "speak", "fill"}

\* found: the rows the request has read.  channel and muted: those of the
\* request body, and of the row once it is written.
VoiceCall == [pc : VoicePc, user : User, guild : Guild, channel : Channel,
              muted : BOOLEAN, found : SUBSET Row]
IdleCall == [pc |-> "idle"]
NoCleanup == [pc |-> "no", found |-> {}]

VoiceTypeOK ==
    /\ voice \subseteq Row
    /\ cache \subseteq Entry
    /\ call \in [Call -> VoiceCall \cup {IdleCall}]
    /\ cleanup \in [Socket -> [pc : {"no", "delete", "emit"}, found : SUBSET Row]]
    /\ told \in [Channel -> SUBSET User]

VoiceInit ==
    /\ GatewayInit
    /\ voice = {}
    /\ cache = {}
    /\ call = [k \in Call |-> IdleCall]
    /\ cleanup = [s \in Socket |-> NoCleanup]
    /\ told = [c \in Channel |-> {}]

-----------------------------------------------------------------------------
RowsOf(u) == {r \in voice : r.user = u}
RowOf(u, g) == {r \in RowsOf(u) : r.guild = g}
WithId(rs) == {r \in voice : r.id \in {f.id : f \in rs}}

\* trackVoiceState
Untrack(es, rs) == {e \in es : \A r \in rs : e.user # r.user \/ e.guild # r.guild}
Track(es, e) == Untrack(es, {e}) \cup {e}

\* A leave event for every row, then a join or update event for user u.
Leaves(rs) == [c \in Channel |-> told[c] \ {r.user : r \in {x \in rs : x.channel = c}}]
Joins(shown, c, u) == [shown EXCEPT ![c] = @ \cup {u}]

At(k, pc) == call[k].pc = pc
Goto(k, pc) == call' = [call EXCEPT ![k].pc = pc]
Finish(k) == call' = [call EXCEPT ![k] = IdleCall]

CallsOf(u) == {k \in Call : ~At(k, "idle") /\ ~At(k, "evict") /\ ~At(k, "evicted")
                                /\ call[k].user = u}

\* No handler works on the voice state of the user.
VoiceQuiet(u) ==
    /\ Quiet(u) /\ CallsOf(u) = {}
    /\ \A s \in SocketsOf(u) : leaving[s] # "voice"

\* Without "overlap" a user sends a voice request only when connected and when
\* none of theirs is being handled.
VoiceMayCome(u) ==
    "overlap" \in Env \/ (VoiceQuiet(u) /\ Open(u) \cap sessions # {})

Receive(k, u, pc, g, c, m, rs) ==
    /\ At(k, "idle")
    /\ call' = [call EXCEPT ![k] = [pc |-> pc, user |-> u, guild |-> g, channel |-> c,
                                    muted |-> m, found |-> rs]]
    /\ UNCHANGED <<gatewayVars, voice, cache, cleanup, told>>

-----------------------------------------------------------------------------
(* POST /voice/join *)

\* Mutant: whoever asks may join.
JoinUnchecked(k, u, c, m) ==
    /\ VoiceMayCome(u) /\ c \in VoiceChannel
    /\ Receive(k, u, "upsert", GuildOf[c], c, m, RowsOf(u))

\* The checks pass and the user's rows are read.  CONNECT may be missing, in
\* which case nothing changes.
Join(k, u, c, m) ==
    /\ VoiceMayCome(u)
    /\ c \in VoiceChannel /\ u \in member[GuildOf[c]]
    /\ Receive(k, u, "upsert", GuildOf[c], c, m, RowsOf(u))

Stale(k) == {r \in call[k].found : r.guild # call[k].guild}
Previous(k) == call[k].found \ Stale(k)

\* The ids a new row may get.
FreshId ==
    RowId \ {r.id : r \in voice \cup UNION {call[k].found : k \in {j \in Call : ~At(j, "idle")}}}

\* Mutant: a row is created although there is one.
JoinCreate(k) ==
    /\ At(k, "upsert")
    /\ LET q == call[k]
       IN \E i \in FreshId :
             voice' = voice \cup {[id |-> i, guild |-> q.guild, user |-> q.user,
                                   channel |-> q.channel, muted |-> q.muted]}
    /\ Goto(k, IF Stale(k) = {} THEN "joined" ELSE "deleteStale")
    /\ UNCHANGED <<gatewayVars, cache, cleanup, told>>

\* The row of the guild is updated in place or created.
JoinUpsert(k) ==
    /\ At(k, "upsert")
    /\ LET q == call[k]
           old == RowOf(q.user, q.guild)
       IN \E i \in IF old = {} THEN FreshId ELSE {r.id : r \in old} :
             voice' = (voice \ old) \cup {[id |-> i, guild |-> q.guild, user |-> q.user,
                                           channel |-> q.channel, muted |-> q.muted]}
    /\ Goto(k, IF Stale(k) = {} THEN "joined" ELSE "deleteStale")
    /\ UNCHANGED <<gatewayVars, cache, cleanup, told>>

\* Mutant: the filter of the stale rows is the wrong way round.
JoinDeletePrevious(k) ==
    /\ At(k, "deleteStale")
    /\ voice' = voice \ WithId(Previous(k))
    /\ Goto(k, "joined")
    /\ UNCHANGED <<gatewayVars, cache, cleanup, told>>

JoinDeleteStale(k) ==
    /\ At(k, "deleteStale")
    /\ voice' = voice \ WithId(Stale(k))
    /\ Goto(k, "joined")
    /\ UNCHANGED <<gatewayVars, cache, cleanup, told>>

\* Mutant: no leave event for the previous channel.
JoinDoneSilently(k) ==
    /\ At(k, "joined")
    /\ LET q == call[k]
           e == [guild |-> q.guild, user |-> q.user, channel |-> q.channel, muted |-> q.muted]
       IN /\ cache' = Track(Untrack(cache, Stale(k)), e)
          /\ told' = Joins(Leaves(Stale(k)), q.channel, q.user)
    /\ Finish(k)
    /\ UNCHANGED <<gatewayVars, voice, cleanup>>

\* leave events for the other guilds and for the previous channel, the join
\* event, and the cache.
JoinDone(k) ==
    /\ At(k, "joined")
    /\ LET q == call[k]
           e == [guild |-> q.guild, user |-> q.user, channel |-> q.channel, muted |-> q.muted]
       IN /\ cache' = Track(Untrack(cache, Stale(k)), e)
          /\ told' = Joins(Leaves(Stale(k) \cup {r \in Previous(k) : r.channel # q.channel}),
                           q.channel, q.user)
    /\ Finish(k)
    /\ UNCHANGED <<gatewayVars, voice, cleanup>>

-----------------------------------------------------------------------------
(* POST /voice/leave *)

Leave(k, u, g) ==
    /\ VoiceMayCome(u)
    /\ \E r \in RowOf(u, g) : Receive(k, u, "delete", g, r.channel, r.muted, {r})

\* delete by id fails when the row is gone: P2025, a 500.
LeaveDelete(k) ==
    /\ At(k, "delete")
    /\ voice' = voice \ WithId(call[k].found)
    /\ IF WithId(call[k].found) = {} THEN Finish(k) ELSE Goto(k, "left")
    /\ UNCHANGED <<gatewayVars, cache, cleanup, told>>

\* Mutant: the entry is set to no channel instead of deleted.
LeaveDoneTracksNull(k) ==
    /\ At(k, "left")
    /\ cache' = Track(cache, [guild |-> call[k].guild, user |-> call[k].user,
                              channel |-> "null", muted |-> FALSE])
    /\ told' = Leaves(call[k].found)
    /\ Finish(k)
    /\ UNCHANGED <<gatewayVars, voice, cleanup>>

\* Mutant: the cache is left alone.
LeaveDoneUncached(k) ==
    /\ At(k, "left")
    /\ told' = Leaves(call[k].found)
    /\ Finish(k)
    /\ UNCHANGED <<gatewayVars, voice, cache, cleanup>>

LeaveDone(k) ==
    /\ At(k, "left")
    /\ cache' = Untrack(cache, call[k].found)
    /\ told' = Leaves(call[k].found)
    /\ Finish(k)
    /\ UNCHANGED <<gatewayVars, voice, cleanup>>

-----------------------------------------------------------------------------
(* PATCH /voice/state *)

Update(k, u, g, m) ==
    /\ VoiceMayCome(u)
    /\ \E r \in RowOf(u, g) : Receive(k, u, "write", g, r.channel, m, {r})

\* The event names the channel the row has when it is written.
UpdateWrite(k) ==
    /\ At(k, "write")
    /\ LET q == call[k]
           rs == WithId(q.found)
       IN /\ voice' = (voice \ rs) \cup {[r EXCEPT !.muted = q.muted] : r \in rs}
          /\ \/ rs = {} /\ Finish(k)
             \/ \E r \in rs :
                   call' = [call EXCEPT ![k] = [q EXCEPT !.pc = "updated", !.channel = r.channel]]
    /\ UNCHANGED <<gatewayVars, cache, cleanup, told>>

UpdateDone(k) ==
    /\ At(k, "updated")
    /\ LET q == call[k]
           e == [guild |-> q.guild, user |-> q.user, channel |-> q.channel, muted |-> q.muted]
       IN cache' = Track(cache, e) /\ told' = Joins(told, q.channel, q.user)
    /\ Finish(k)
    /\ UNCHANGED <<gatewayVars, voice, cleanup>>

-----------------------------------------------------------------------------
(* GET /voice/channels/:id/participants, asked by member u of the guild *)

List(k, u, c) ==
    LET rs == {r \in voice : r.channel = c /\ presence[r.user] = "OFFLINE"}
    IN /\ u \in member[GuildOf[c]]
       /\ rs # {}
       /\ Receive(k, u, "evict", GuildOf[c], c, FALSE, rs)

ListDelete(k) ==
    /\ At(k, "evict")
    /\ voice' = voice \ WithId(call[k].found)
    /\ Goto(k, "evicted")
    /\ UNCHANGED <<gatewayVars, cache, cleanup, told>>

\* The leave events; the cache is left alone.
ListDone(k) ==
    /\ At(k, "evicted")
    /\ told' = Leaves(call[k].found)
    /\ Finish(k)
    /\ UNCHANGED <<gatewayVars, voice, cache, cleanup>>

-----------------------------------------------------------------------------
(* voice_speaking with a guild the cache has no entry for *)

Speak(k, s, g, c) ==
    LET u == socketUser[s]
    IN /\ readyState[s] = "open" /\ s \in sessions /\ c \in channelSubs[s]
       /\ VoiceMayCome(u)
       /\ \A e \in cache : e.user # u \/ e.guild # g
       /\ Receive(k, u, "speak", g, c, FALSE, {})

SpeakFind(k) ==
    /\ At(k, "speak")
    /\ call' = [call EXCEPT ![k].pc = "fill",
                            ![k].found = RowOf(call[k].user, call[k].guild)]
    /\ UNCHANGED <<gatewayVars, voice, cache, cleanup, told>>

\* The row as it was read goes into the cache.
SpeakFill(k) ==
    /\ At(k, "fill")
    /\ cache' = Untrack(cache, call[k].found) \cup {EntryOf(r) : r \in call[k].found}
    /\ Finish(k)
    /\ UNCHANGED <<gatewayVars, voice, cleanup, told>>

-----------------------------------------------------------------------------
(* The voice part of handleDisconnect: DisconnectVoice in three steps *)

Close(s) ==
    /\ "overlap" \in Env \/ CallsOf(socketUser[s]) = {}
    /\ Disconnect(s)
    /\ UNCHANGED voiceVars

CleanupFind(s) ==
    /\ leaving[s] = "voice" /\ cleanup[s].pc = "no"
    /\ LET rs == RowsOf(socketUser[s])
       IN IF rs = {}
          THEN DisconnectVoice(s) /\ UNCHANGED voiceVars
          ELSE /\ cleanup' = [cleanup EXCEPT ![s] = [pc |-> "delete", found |-> rs]]
               /\ UNCHANGED <<gatewayVars, voice, cache, call, told>>

\* deleteMany by user, not by the ids that were read.
CleanupDelete(s) ==
    /\ cleanup[s].pc = "delete"
    /\ voice' = voice \ RowsOf(socketUser[s])
    /\ cleanup' = [cleanup EXCEPT ![s].pc = "emit"]
    /\ UNCHANGED <<gatewayVars, cache, call, told>>

\* Mutant: nobody is told.
CleanupDoneSilently(s) ==
    /\ cleanup[s].pc = "emit"
    /\ cache' = Untrack(cache, cleanup[s].found)
    /\ cleanup' = [cleanup EXCEPT ![s] = NoCleanup]
    /\ DisconnectVoice(s)
    /\ UNCHANGED <<voice, call, told>>

\* Mutant: return once the rows are gone, without the presence.
CleanupDoneReturns(s) ==
    /\ cleanup[s].pc = "emit"
    /\ cache' = Untrack(cache, cleanup[s].found)
    /\ told' = Leaves(cleanup[s].found)
    /\ cleanup' = [cleanup EXCEPT ![s] = NoCleanup]
    /\ leaving' = [leaving EXCEPT ![s] = "no"]
    /\ UNCHANGED <<readyState, socketUser, tables, subs, connecting, subscribing,
                   presenceCall, rows, status, voice, call>>

CleanupDone(s) ==
    /\ cleanup[s].pc = "emit"
    /\ cache' = Untrack(cache, cleanup[s].found)
    /\ told' = Leaves(cleanup[s].found)
    /\ cleanup' = [cleanup EXCEPT ![s] = NoCleanup]
    /\ DisconnectVoice(s)
    /\ UNCHANGED <<voice, call>>

-----------------------------------------------------------------------------
\* The rows survive the process, the cache and the requests do not.
ServerRestart ==
    /\ GatewayRestart
    /\ cache' = {}
    /\ call' = [k \in Call |-> IdleCall]
    /\ cleanup' = [s \in Socket |-> NoCleanup]
    /\ UNCHANGED <<voice, told>>

CallStep(k) ==
    \/ JoinUpsert(k) \/ JoinDeleteStale(k) \/ JoinDone(k)
    \/ LeaveDelete(k) \/ LeaveDone(k)
    \/ UpdateWrite(k) \/ UpdateDone(k)
    \/ ListDelete(k) \/ ListDone(k)
    \/ SpeakFind(k) \/ SpeakFill(k)

CleanupStep(s) == CleanupFind(s) \/ CleanupDelete(s) \/ CleanupDone(s)

UserRequest(k, u) ==
    \/ \E c \in VoiceChannel, m \in Flags : Join(k, u, c, m)
    \/ \E g \in Guild : Leave(k, u, g)
    \/ \E g \in Guild, m \in Flags : Update(k, u, g, m)
    \/ \E c \in Channel : List(k, u, c)

SpeakRequest(k) == \E s \in Socket, g \in Guild, c \in Channel : Speak(k, s, g, c)

GatewayStep ==
    /\ \/ \E s \in Socket : SocketStep(s)
       \/ \E u \in User : UserNext(u)
       \/ \E t \in Thread, us \in SUBSET User : CreateThread(t, us)
    /\ UNCHANGED voiceVars

VoiceNext ==
    \/ \E k \in Call : CallStep(k) \/ SpeakRequest(k) \/ \E u \in User : UserRequest(k, u)
    \/ \E s \in Socket : CleanupStep(s) \/ Close(s)
    \/ GatewayStep
    \/ ServerRestart

VoiceSpec == VoiceInit /\ [][VoiceNext]_vars

\* node runs every handler to its end.
VoiceFairSpec ==
    /\ VoiceSpec
    /\ \A k \in Call : WF_vars(CallStep(k))
    /\ \A s \in Socket : /\ WF_vars(CleanupStep(s))
                         /\ WF_vars(ConnectStep(s) /\ UNCHANGED voiceVars)
                         /\ WF_vars(LeaveStores(s) /\ UNCHANGED voiceVars)
                         /\ WF_vars(Subscribed(s) /\ UNCHANGED voiceVars)
    /\ \A u \in User : WF_vars(PresenceStep(u) /\ UNCHANGED voiceVars)

-----------------------------------------------------------------------------
\* In a voice channel of the guild, and a member of the guild.
Placed(x) ==
    /\ x.channel \in VoiceChannel /\ GuildOf[x.channel] = x.guild
    /\ x.user \in member[x.guild]

\* Whatever overlaps, a row is in a voice channel of its guild, belongs to a
\* member of it, and is the only one of its user there, though every write but
\* the upsert acts on rows read at an earlier await.
VoiceRowsValid ==
    /\ \A r \in voice : Placed(r)
    /\ \A r1, r2 \in voice :
          r1.id = r2.id \/ (r1.guild = r2.guild /\ r1.user = r2.user) => r1 = r2

\* handleVoiceAudio relays audio to a channel only for members of its guild, and
\* has one entry for a user there: also one filled from a row read earlier.
AudioAdmitsMembers ==
    /\ \A e \in cache : Placed(e)
    /\ \A e1, e2 \in cache : e1.guild = e2.guild /\ e1.user = e2.user => e1 = e2

Settled(u) == VoiceQuiet(u) /\ \A k \in Call : At(k, "idle")

\* The cache, which decides whose audio is relayed, never disagrees with the
\* rows of a user none of whose requests is being handled, whether the server
\* was restarted or not: channel and flags are those of the row.
CacheSound ==
    \A u \in User : VoiceQuiet(u) =>
        \A e \in cache : e.user = u => e \in {EntryOf(r) : r \in voice}

\* Clients that follow the events of a channel show exactly the users who have
\* a row in it.
ToldAgrees ==
    \A u \in User : Settled(u) =>
        \A c \in Channel : u \in told[c] <=> \E r \in RowsOf(u) : r.channel = c

\* A user is in one voice channel at a time, over all guilds.
OneVoiceChannel == \A u \in User : Settled(u) => \A r1, r2 \in RowsOf(u) : r1 = r2

\* A user who stays away is eventually out of every voice channel, in the table
\* and on the screens of the others.
EventuallyOutOfVoice ==
    \A u \in User : <>[](Open(u) = {}) =>
        <>[](RowsOf(u) = {} /\ \A c \in Channel : u \notin told[c])
=============================================================================
