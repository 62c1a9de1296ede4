--------------------------- MODULE VoiceParticipants ---------------------------
(***************************************************************************)
(* Who is in which voice channel, as the desktop client shows it           *)
(* (client/src/viewmodels/VoiceViewModel.cpp and the participant lists of  *)
(* client/src/store/AppStore.cpp).  The lists are patched by gateway       *)
(* events and replaced by lists of the REST API, which are fetched after   *)
(* an event: at most one at a time per channel, not again at once, again   *)
(* when one was forced meanwhile, later when the server has refused.       *)
(* A request is served when it is sent; what it answers comes back later.  *)
(***************************************************************************)
EXTENDS Naturals, Sequences, FiniteSets, SequencesExt

CONSTANTS
    User, Self,         \* the users in voice; the user of this client
    VoiceChannel, NoVoiceChannel,
    MaxArriving,        \* bound: answers and events under way
    MaxRefused,         \* bound: requests refused in one behaviour
    PartyScenarios      \* what the environment may do: sets of
                        \* "others", "mute", "late", "same", "limit", "fail",
                        \* "speak", "preview"

ASSUME PartyAssumption ==
    /\ IsFiniteSet(User) /\ Self \in User /\ NoVoiceChannel \notin VoiceChannel
    /\ MaxArriving \in Nat /\ MaxRefused \in Nat

VARIABLES
    partyEnv,       \* never changes
    where,          \* the server: channel (or none) and mute flag of every user
    active,         \* m_activeChannelId
    rows,           \* AppStore::m_voiceParticipantsByChannel
    dock,           \* AppStore::m_voiceParticipants, the list of the active channel
    fetch,          \* m_participantFetchInFlight, m_pendingParticipantFetchForce,
                    \* m_lastParticipantFetchAtMs (recent), timers for another try
    refused,
    arriving        \* answers and events under way to the client

partyVars == <<partyEnv, where, active, rows, dock, fetch, refused, arriving>>

\* A list of the REST API does not say who is speaking.
Row == [user : User, muted : BOOLEAN, speaking : {"unset", "no", "yes"}]

PartyTypeOK ==
    /\ partyEnv \in PartyScenarios
    /\ where \in [User -> [channel : VoiceChannel \cup {NoVoiceChannel}, muted : BOOLEAN]]
    /\ active \in VoiceChannel \cup {NoVoiceChannel}
    /\ rows \in [VoiceChannel -> Seq(Row)]
    /\ dock \in Seq(Row)
    /\ fetch \in [inFlight : SUBSET VoiceChannel, pending : SUBSET VoiceChannel,
                  recent : SUBSET VoiceChannel, retry : [VoiceChannel -> Nat]]
    /\ refused \in 0..MaxRefused
    /\ Len(arriving) <= MaxArriving

PartyInit ==
    /\ partyEnv \in PartyScenarios
    /\ where = [u \in User |-> [channel |-> NoVoiceChannel, muted |-> FALSE]]
    /\ active = NoVoiceChannel
    /\ rows = [c \in VoiceChannel |-> <<>>]
    /\ dock = <<>>
    /\ fetch = [inFlight |-> {}, pending |-> {}, recent |-> {}, retry |-> [c \in VoiceChannel |-> 0]]
    /\ refused = 0
    /\ arriving = <<>>

-----------------------------------------------------------------------------
(* The store. *)

RowsOf(list, u) == {i \in 1..Len(list) : list[i].user = u}

FirstOf(list, u) ==     \* 0 if there is none
    IF RowsOf(list, u) = {} THEN 0
    ELSE CHOOSE i \in RowsOf(list, u) : \A j \in RowsOf(list, u) : i <= j

\* The rows that stay keep their order.
Without(list, u) ==
    LET stay == (1..Len(list)) \ RowsOf(list, u)
        Kth(k) == CHOOSE i \in stay : Cardinality({j \in stay : j <= i}) = k
    IN [k \in 1..Cardinality(stay) |-> list[Kth(k)]]

\* updateVoiceParticipantState: a patch that changes nothing appends the row again.
Patched(list, u, new) ==
    LET at == FirstOf(list, u)
    IN IF at # 0 /\ list[at] # new THEN [list EXCEPT ![at] = new] ELSE Append(list, new)

\* voice_state_update; a join removes the user from every other channel.
EventApplied(list, e) ==
    LET row == [user |-> e.user, muted |-> e.muted, speaking |-> "no"]
        at == FirstOf(list[e.channel], e.user)
    IN [c \in VoiceChannel |->
           IF c # e.channel
           THEN IF e.kind = "join" THEN Without(list[c], e.user) ELSE list[c]
           ELSE IF e.kind = "leave" THEN IF at = 0 THEN list[c] ELSE RemoveAt(list[c], at)
           ELSE Patched(list[c], e.user, row)]

\* setVoiceSpeakingUsers.
SpeakingSet(list, speaking) ==
    [i \in 1..Len(list) |->
        LET now == IF list[i].user \in speaking THEN "yes" ELSE "no"
        IN IF (list[i].speaking = "yes") = (now = "yes") THEN list[i]
           ELSE [list[i] EXCEPT !.speaking = now]]

-----------------------------------------------------------------------------
(* The server. *)

Listed(s, c) ==
    LET in == SetToSeq({u \in User : s[u].channel = c})
    IN [i \in 1..Len(in) |-> [user |-> in[i], muted |-> s[in[i]].muted, speaking |-> "unset"]]

Event(kind, c, u, muted) == [kind |-> kind, channel |-> c, user |-> u, muted |-> muted]

Tell(items) ==
    /\ Len(arriving) + Len(items) <= MaxArriving
    /\ arriving' = arriving \o items

Leave(u) ==
    IF where[u].channel = NoVoiceChannel THEN <<>>
    ELSE <<Event("leave", where[u].channel, u, where[u].muted)>>

\* A user joins or moves; "same": joins where the server has them already.
Join(u, c, answer) ==
    /\ where[u].channel # c \/ ("same" \in partyEnv /\ Len(rows[c]) <= Cardinality(User))
    /\ where' = [where EXCEPT ![u].channel = c]
    /\ Tell((IF where[u].channel = c THEN <<>> ELSE Leave(u))
            \o <<Event("join", c, u, where[u].muted)>> \o answer)

Quit(u, answer) ==
    /\ where[u].channel # NoVoiceChannel
    /\ where' = [where EXCEPT ![u].channel = NoVoiceChannel]
    /\ Tell(Leave(u) \o answer)

ToggleMuted(u) ==
    /\ "mute" \in partyEnv
    /\ where[u].channel # NoVoiceChannel
    /\ where' = [where EXCEPT ![u].muted = ~@]
    /\ Tell(<<Event("update", where[u].channel, u, ~where[u].muted)>>)

\* The other users; also this user's mute button.
OthersInVoice ==
    /\ \/ \E u \in User : ToggleMuted(u)
       \/ "others" \in partyEnv /\ \E u \in User \ {Self} : Quit(u, <<>>) \/ \E c \in VoiceChannel : Join(u, c, <<>>)
    /\ UNCHANGED <<partyEnv, active, rows, dock, fetch, refused>>

-----------------------------------------------------------------------------
(* Fetching. *)

NoFetch(f) == [fetch |-> f, calls |-> <<>>]

\* fetchChannelParticipants.
FetchParticipants(f, c, sync) ==
    IF c \in f.inFlight THEN NoFetch(f)
    ELSE [fetch |-> [f EXCEPT !.inFlight = @ \cup {c}],
          calls |-> <<[channel |-> c, sync |-> sync]>>]

\* Mutant: a forced refresh is dropped while a fetch is under way.
RefreshOnce(f, c, force, act) ==
    IF c \in f.inFlight \/ (~force /\ c \in f.recent) THEN NoFetch(f)
    ELSE FetchParticipants([f EXCEPT !.recent = @ \cup {c}], c, c = act)

\* refreshChannelParticipants, with act the active channel.
RefreshParticipants(f, c, force, act) ==
    IF c \in f.inFlight
    THEN NoFetch(IF force THEN [f EXCEPT !.pending = @ \cup {c}] ELSE f)
    ELSE IF ~force /\ c \in f.recent THEN NoFetch(f)
    ELSE FetchParticipants([f EXCEPT !.recent = @ \cup {c}], c, c = act)

\* The answers of the server to what is fetched; "limit": it refuses, "fail": it fails.
Serve(calls, rest) ==
    \/ /\ arriving' = rest \o [i \in 1..Len(calls) |->
             [kind |-> "rows", channel |-> calls[i].channel, sync |-> calls[i].sync,
              list |-> Listed(where', calls[i].channel)]]
       /\ UNCHANGED refused
    \/ /\ calls # <<>> /\ refused < MaxRefused
       /\ \E why \in {"limit", "fail"} \cap partyEnv :
             arriving' = rest \o [i \in 1..Len(calls) |-> [kind |-> why, channel |-> calls[i].channel]]
       /\ refused' = refused + 1

-----------------------------------------------------------------------------
(* The user. *)

\* joinVoice, leaveVoice: VoiceClient has their steps in full.
JoinVoice(c) ==
    /\ active = NoVoiceChannel
    /\ ~\E i \in 1..Len(arriving) : arriving[i].kind \in {"joined", "left"}
    /\ Join(Self, c, <<[kind |-> "joined", channel |-> c]>>)
    /\ UNCHANGED <<partyEnv, active, rows, dock, fetch, refused>>

LeaveVoice ==
    /\ active # NoVoiceChannel
    /\ ~\E i \in 1..Len(arriving) : arriving[i].kind \in {"joined", "left"}
    /\ Quit(Self, <<[kind |-> "left", channel |-> active]>>)
    /\ UNCHANGED <<partyEnv, active, rows, dock, fetch, refused>>

\* GuildViewModel::loadChannels lists every voice channel once more, beside the above.
Preview(c) ==
    /\ "preview" \in partyEnv
    /\ Tell(<<[kind |-> "preview", channel |-> c, list |-> Listed(where, c)]>>)
    /\ UNCHANGED <<partyEnv, where, active, rows, dock, fetch, refused>>

-----------------------------------------------------------------------------
(* What arrives: in the order it was sent, or ("late") an answer overtakes  *)
(* and is overtaken.                                                        *)

StateEvents == {"join", "update", "leave"}

Arrives(i, kind) ==
    /\ i \in 1..Len(arriving)
    /\ arriving[i].kind = kind
    /\ i = 1 \/ /\ "late" \in partyEnv
                /\ kind \in StateEvents => \A j \in 1..(i - 1) : arriving[j].kind \notin StateEvents

\* The answer of joinVoice (and of the token): loadParticipants.
Joined(i) ==
    /\ Arrives(i, "joined")
    /\ active' = arriving[i].channel
    /\ LET f == FetchParticipants(fetch, active', TRUE)
       IN fetch' = f.fetch /\ UNCHANGED where /\ Serve(f.calls, RemoveAt(arriving, i))
    /\ UNCHANGED <<partyEnv, rows, dock>>

\* The answer of leaveVoice; pruneCurrentUserFromChannel.
Left(i) ==
    /\ Arrives(i, "left")
    /\ active' = NoVoiceChannel
    /\ dock' = <<>>
    /\ rows' = [rows EXCEPT ![arriving[i].channel] = Without(@, Self)]
    /\ LET f == RefreshParticipants(fetch, arriving[i].channel, TRUE, NoVoiceChannel)
       IN fetch' = f.fetch /\ UNCHANGED where /\ Serve(f.calls, RemoveAt(arriving, i))
    /\ UNCHANGED partyEnv

\* voice_state_update: the user's own events force a fetch.
StateEvent(i) ==
    /\ \E kind \in StateEvents : Arrives(i, kind)
    /\ LET e == arriving[i]
           f == RefreshParticipants(fetch, e.channel, e.user = Self, active')
       IN /\ active' = IF e.user = Self /\ e.kind = "leave" THEN NoVoiceChannel ELSE active
          /\ rows' = EventApplied(rows, e)
          /\ dock' = IF e.channel = active' THEN rows'[e.channel] ELSE dock
          /\ fetch' = f.fetch
          /\ UNCHANGED where /\ Serve(f.calls, RemoveAt(arriving, i))
    /\ UNCHANGED partyEnv

Answered(f, c, act) ==
    LET g == [f EXCEPT !.inFlight = @ \ {c}, !.pending = @ \ {c}]
    IN IF c \in f.pending THEN RefreshParticipants(g, c, TRUE, act) ELSE NoFetch(g)

ParticipantsListed(i) ==
    /\ Arrives(i, "rows")
    /\ LET a == arriving[i]
           f == Answered(fetch, a.channel, active)
       IN /\ rows' = [rows EXCEPT ![a.channel] = a.list]
          /\ dock' = IF a.sync /\ a.channel = active THEN a.list ELSE dock
          /\ fetch' = f.fetch
          /\ UNCHANGED where /\ Serve(f.calls, RemoveAt(arriving, i))
    /\ UNCHANGED <<partyEnv, active>>

ParticipantsFailed(i) ==
    /\ Arrives(i, "fail")
    /\ LET f == Answered(fetch, arriving[i].channel, active)
       IN fetch' = f.fetch /\ UNCHANGED where /\ Serve(f.calls, RemoveAt(arriving, i))
    /\ UNCHANGED <<partyEnv, active, rows, dock>>

PreviewListed(i) ==
    /\ Arrives(i, "preview")
    /\ rows' = [rows EXCEPT ![arriving[i].channel] = arriving[i].list]
    /\ arriving' = RemoveAt(arriving, i)
    /\ UNCHANGED <<partyEnv, where, active, dock, fetch, refused>>

\* Too many requests: a forced refresh in 0.9 seconds.
ParticipantsRefused(i) ==
    /\ Arrives(i, "limit")
    /\ LET c == arriving[i].channel
       IN fetch' = [fetch EXCEPT !.inFlight = @ \ {c}, !.pending = @ \ {c}, !.retry[c] = @ + 1]
    /\ arriving' = RemoveAt(arriving, i)
    /\ UNCHANGED <<partyEnv, where, active, rows, dock, refused>>

RetryFires(c) ==
    /\ fetch.retry[c] > 0
    /\ LET f == RefreshParticipants([fetch EXCEPT !.retry[c] = @ - 1], c, TRUE, active)
       IN /\ Len(arriving) + Len(f.calls) <= MaxArriving
          /\ fetch' = f.fetch /\ UNCHANGED where /\ Serve(f.calls, arriving)
    /\ UNCHANGED <<partyEnv, active, rows, dock>>

\* 1.2 seconds after a fetch.
NoLongerRecent(c) ==
    /\ c \in fetch.recent
    /\ fetch' = [fetch EXCEPT !.recent = @ \ {c}]
    /\ UNCHANGED <<partyEnv, where, active, rows, dock, refused, arriving>>

\* NativeVoiceEngine::activeSpeakersChanged.
SpeakersChanged(speaking) ==
    /\ "speak" \in partyEnv /\ active # NoVoiceChannel
    /\ \A u \in speaking : where[u].channel = active
    /\ rows' = [rows EXCEPT ![active] = SpeakingSet(@, speaking)]
    /\ dock' = rows'[active]
    /\ UNCHANGED <<partyEnv, where, active, fetch, refused, arriving>>

\* voice_speaking_update, from a client that reports when its speech begins and ends.
SpeakingEvent(u, speaking) ==
    /\ "speak" \in partyEnv /\ where[u].channel # NoVoiceChannel
    /\ LET c == where[u].channel
           at == FirstOf(rows[c], u)
           now == IF speaking THEN "yes" ELSE "no"
           new == IF at = 0 THEN [user |-> u, muted |-> FALSE, speaking |-> now]
                  ELSE [rows[c][at] EXCEPT !.speaking = now]
       IN /\ \A i \in 1..Len(arriving) : arriving[i].kind \in StateEvents => arriving[i].user # u
          /\ at # 0 => rows[c][at] # new
          /\ rows' = [rows EXCEPT ![c] = Patched(@, u, new)]
          /\ dock' = IF c = active THEN rows'[c] ELSE dock
    /\ UNCHANGED <<partyEnv, where, active, fetch, refused, arriving>>

PartyNext ==
    \/ OthersInVoice \/ LeaveVoice
    \/ \E c \in VoiceChannel : JoinVoice(c) \/ Preview(c) \/ RetryFires(c) \/ NoLongerRecent(c)
    \/ \E speaking \in SUBSET User : SpeakersChanged(speaking)
    \/ \E u \in User, b \in BOOLEAN : SpeakingEvent(u, b)
    \/ \E i \in 1..MaxArriving :
          \/ Joined(i) \/ Left(i) \/ StateEvent(i)
          \/ ParticipantsListed(i) \/ PreviewListed(i) \/ ParticipantsFailed(i) \/ ParticipantsRefused(i)

PartySpec == PartyInit /\ [][PartyNext]_partyVars

-----------------------------------------------------------------------------
(* Properties. *)

Settled == arriving = <<>> /\ \A c \in VoiceChannel : fetch.retry[c] = 0

Shown(list) == {[user |-> list[i].user, muted |-> list[i].muted] : i \in 1..Len(list)}
Present(c) == {[user |-> u, muted |-> where[u].muted] : u \in {v \in User : where[v].channel = c}}

\* When nothing is under way, and nothing has overtaken or failed and every event
\* changed something, every channel lists exactly the users it has, once each: the
\* patches and the lists that replace them agree.
RowsAgree ==
    partyEnv \subseteq {"others", "mute", "limit", "speak", "preview"} /\ Settled =>
        \A c \in VoiceChannel : Shown(rows[c]) = Present(c) /\ Len(rows[c]) = Cardinality(Present(c))

\* Of the user themself the lists are right also when answers come late or are
\* refused: their own event forces a list that is fetched after it.
SelfAgrees ==
    partyEnv \subseteq {"others", "mute", "late", "limit", "same"} /\ Settled =>
        \A c \in VoiceChannel : {r \in Shown(rows[c]) : r.user = Self} = {r \in Present(c) : r.user = Self}

\* A refresh that is put off while a fetch is under way has its turn.
PendingIsFetched == fetch.pending \subseteq fetch.inFlight

\* A channel is in the set of the fetches under way exactly while its answer is.
InFlightExact ==
    \A c \in VoiceChannel : c \in fetch.inFlight <=>
        \E i \in 1..Len(arriving) : arriving[i].kind \in {"rows", "limit", "fail"} /\ arriving[i].channel = c

\* The list beside the controls is of the active channel.
DockOfChannel ==
    partyEnv \subseteq {"others", "mute"} /\ Settled /\ active # NoVoiceChannel => 
        Shown(dock) \in {{}, Shown(rows[active])}

\* The five together: the lists are right when nothing is under way, and the
\* bookkeeping of the fetches that makes them right is exact.
PartySound == RowsAgree /\ SelfAgrees /\ PendingIsFetched /\ InFlightExact /\ DockOfChannel
=============================================================================
