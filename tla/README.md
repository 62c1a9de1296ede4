# Voxter: verification project

TLA+ models of Voxter (Qt desktop client, NestJS server, Postgres, Redis), the
TLC runs that check them and the TLAPS proofs about them. Paths are relative to
the repository (`server/src/...`, `client/src/...`).

The server is one node process. A handler of a REST call or a gateway event is
an async function: it runs alone up to the next `await` and any other handler
may run there. The models of the server take that literally: **one action is the
code between two awaits, with the database statement it issues**, a handler in
flight is a program counter (or a slot of a set `Call`) with what it has already
read. The client is one Qt event loop; a callback is one action. The models of the
client contain the other end of its conversations, and that end is coarser: a
voice request is one step in VoiceParticipants, REST calls for guilds and channels
are one step in GuildSelection, and so is a change of a message in ChatTimeline
except in its scenario `overlap`, where the awaits are steps there too. What
requests do to each other inside the server is the matter of the server's modules.

## 1. Inventory

| Component | State | Operations | Talks to | What is hard | What makes it correct |
|---|---|---|---|---|---|
| Auth service (`auth/auth.service.ts`, `auth.controller.ts`) | `User`, `RefreshToken` rows | register, login, refresh, logout, logout-all | Postgres | check, revoke and issue are three awaits; overlapping refreshes and logouts; restarts in between | rotation pointers sound, a token forks only by overlap, a logout is final up to the refreshes it races with |
| Desktop session (`AuthViewModel.cpp`, `ApiClient.cpp`, `SecureStorage.cpp`) | stored refresh token, busy flag, retry counter | bootstrap, login, register, logout, retry timer | auth service | lost answers are retried while the first handler still runs; the application can end at any moment | signed in means: holds the head of the chain; every request settles |
| Gateway sessions (`gateway/gateway.service.ts`) | `sessions` (WeakMap), `socketsByUserId`, subscriptions of each session | handleConnection, handleDisconnect, subscribe, presence_set, emit | presence, voice, clients | a socket closes or a user reconnects at any await of another handler; restart loses the maps | routing table sound, events reach members only |
| Presence (`presence.service.ts`, `redis.service.ts`) | Redis key with a TTL, column `User.presence`, last broadcast | PATCH /presence/me, presence_set, the two ends of a connection | gateway | three copies written in two different orders | connected users not OFFLINE, absent users OFFLINE, copies agree |
| Voice states (`voice/voice.service.ts`, voice parts of the gateway) | `VoiceState` rows, `voiceSessionsByGuildUser` cache, what clients were told | join, leave, updateState, listParticipants (evicts), cleanup on disconnect, speaking fallback | gateway, Postgres, clients | every write but the upsert uses rows read at an earlier await; cache and rows are separate | rows well placed and unique, cache admits members only and agrees with the rows, told agrees with the rows |
| Guilds, roles, invites (`guilds.service.ts`, `common/`) | guild, member, role, overwrite, invite rows | create, join by invite, roles, overwrites, permission resolution | all services | invite limit checked and incremented in separate awaits; bit masks | ordering of allow and deny, limit of uses |
| Messages (`messages.service.ts`) | messages, reactions, attachments | list, create, update, delete, toggleReaction | gateway | toggle is check-then-act | authorship, one reaction per user and emoji |
| Direct messages (`dm.service.ts`) | threads, members, messages | create thread, list, send | gateway | find-or-create race | one thread for a pair |
| REST client (`ApiClient.cpp`) | attempt counter of each call | object, array and upload requests, retry timer | server | a retried POST may have been done | what the caller hears is what was done |
| Gateway client (`GatewayClient.cpp`) | socket, token, reconnect timer, wanted ids | connect, disconnect, subscribe, reconnect | gateway | error and disconnect signals, timer and logout in any order; the server drops frames before it knows the user | signed in is never stranded, signed out stays down, the session holds what is wanted |
| Voice view model (`VoiceViewModel.cpp`) | active and joining channel, mute, deafen, push to talk, devices, fetches | join, switch, leave, toggles, gateway events, settings | REST, gateway, engine, store | answers, late events of an earlier session and engine signals interleave; permission to transmit depends on six members | sends only what the user asked for; screen, engine and server agree; every call ends |
| Native voice engine (`NativeVoiceEngine.cpp`) | generation, room, capture, tracks, playback threads | start, connect thread, stop, LiveKit callbacks, frames | view model, LiveKit, Qt audio | callbacks of a room already left, threads joined on the GUI thread, devices that vanish | microphone only inside a session; no stray thread; frames whole and in order |
| Store, chat and guild view models (`AppStore.cpp`, `ChatViewModel.cpp`, `GuildViewModel.cpp`) | messages, participants, guilds, selection | load, select, apply answers and events | REST, gateway | late answers for another selection, events during a load | what is shown is the selected place, once each |
| Log filter (`main.cpp`) | pipe, reader thread | start, stop, read | stdout and stderr of the process (Windows) | order of restoring, closing and joining | nothing but noise is lost, stop returns |
| Application shell, persistence, configuration | wiring | – | – | – | – |

The client's parts meet in three places: the access token of the session opens
the gateway link; gateway events and REST answers change the store; the voice
view model drives the engine and hears its signals.

`PROJECT.json` lists under `hazards` the places where this code can go wrong in
ways a test would hardly reach, with the property that watches each.

## 2. What is modelled

### AuthService and AuthSessions

`AuthService` keeps the `RefreshToken` table by column (`issued`, `userId`,
`rotatedFrom`, `revoked`, `expired`). A call is a slot with the await it waits
on: `RegisterFind`/`RegisterCreate`, `LoginVerify`, `RefreshFind` →
`RefreshRevoke` → `IssueTokenPair`, `LogoutFind` → `LogoutRevoke`, `RevokeAll`,
then `Respond`. `Restart` drops the calls and keeps the tables. Passwords,
argon2 and JWTs are the outcome of their check. Three history variables are
read by properties only: `loggedOut`, `escaped` (issued by a refresh a logout
overtook), `forked` (two refreshes past the check together).

`AuthSessions` extends it with desktop devices: `Bootstrap` (once per start, with
the stored token), `SignIn`, `Logout` (forgets the tokens, calls no endpoint),
the retry loop of `sendObjectRequest` (`LoseReply`, `RetryOrGiveUp`, `Retry`; every
loss may be retried, which is more than the code does: it gives up at once on
some), `ApplyAuthResponse`. A lost answer leaves its handler running on the server.

### GatewaySessions

Sockets are a pool of values, reused once nothing refers to one (`Collect`, the
WeakMap). `connecting[s]`, `leaving[s]` and `presenceCall[u]` say at which await
handleConnection, handleDisconnect and the two presence handlers are;
`subscribing[s]` is the set of ids a subscribe handler has asked Postgres about,
added to the session when the answer arrives, whatever became of the socket.
`redis`, `presence` and `announced` are the three copies of a status.
`Env` names what the environment may do, so that a run can say which of it its
properties need: `overlap` (events of a user while an earlier one is handled),
`earlyClose` (close during the user lookup), `rest` (presence by REST without a
connection), `ttl`, `restart`.

### VoiceStates

Composes the voice handlers with GatewaySessions: the gateway's `DisconnectVoice`
becomes the three steps `CleanupFind`, `CleanupDelete`, `CleanupDone`; every
other gateway action is taken as it is. `voice` is the table, `cache` is
`voiceSessionsByGuildUser`, `told[c]` is who a client that follows the events of
channel `c` shows in it. A request keeps in `found` the rows it has read, so the
writes by id (`leave`, `updateState`, eviction, stale rows of other guilds) and
the write by user (`deleteMany` of handleDisconnect) act on what was read an
await earlier, as in the code. `GatewaySpec` is the abstract specification;
VoiceStates is shown to implement it, by TLC and by proof.

### VoiceEngine, VoiceClient and VoiceSession

`VoiceEngine` is NativeVoiceEngine: `engine` its members on the GUI thread,
`thread` the connect thread (`Connect`, `Publish`), `sdk` the LiveKit room,
`posted` the closures queued to the event loop. The code's generation counter is
modelled by what a closure can tell from it, `fresh`; `NextGeneration` makes all
waiting closures stale. `Run` is a closure's body, the handlers it calls
included. `Mic` is what opening the microphone does. `leaked` remembers a
QAudioSource that runs although `m_audioSource` points elsewhere.

`VoiceClient` composes it with the view model (`vm`), the calls in flight
(`join`, `leave`, `abandon` for the leave after a refused token, and in each `Slot` of
`update` a PATCH of mute or deafen: it sends both flags as they are shown at the
call, and its answer sets the one it changed), the user's row on the server and the leave events on their way. A button, an answer,
an event or a closure is one action; the engine's `connectedChanged` is handled
inside the step that emits it (`Notify`), as a direct Qt connection does.
`VoiceSession` is the abstract specification: enter, use, leave, the microphone
only in between. `MicSession` is the refinement, with `vm.active` as the session.

### The other parts of the client

Nine modules with no variable in common, each a part of the client with the
other end of its conversations:

- `GatewayLink` (GatewayClient): one socket, `link` the members, `desired` the
  two lists, `wire` the subscribe frames, `server` where handleConnection is.
  subscribeChannels and subscribeDmThreads are called signed in or not, because an
  answer of GuildViewModel may come after the logout.
- `ChatTimeline` (ChatViewModel, messages of AppStore): `log` is the server's
  messages, `inbox` answers and events under way. A change of a message has three
  steps in the server: its checks (`PassesChecks`), its write (`serving`,
  `WriteEnds`) and its event (`untold`, `TellEnds`). With `overlap` each is an
  action; else they are one, when the request is sent.
- `VoiceParticipants` (VoiceViewModel, participants of AppStore): `rows` per
  channel, `dock` the list beside the controls, `fetch` the bookkeeping of
  refreshes. A patch that changes nothing appends the row again, as in
  `updateVoiceParticipantState`.
- `GuildSelection` (GuildViewModel, session of AppStore): guilds, channels,
  members, threads, selection and the subscriptions that follow from them. `subs.up`
  says that the client's gateway session is registered: with `reconnect` it comes
  after sign-in, is lost and comes again; an event that finds none is lost, and
  nothing is loaded again.
- `RemotePlayback` (NativeVoiceEngine): one thread per track; `gui` says whether
  the GUI thread waits in a join.
- `AudioSettings` (both): devices and settings in the engine, the view model and
  the file. `audio.live` is what there is a device to open for: a connected room with
  its audio source, a remote track. With `fail` opening a device may fail
  (`Opened`), and nobody is told when it would succeed again.
- `CaptureFrames` (NativeVoiceEngine): samples to frames; a sample is a number,
  its loudness `Level`.
- `RestCalls` (ApiClient).
- `LogFilter` (main.cpp, Windows only): a line is two pieces, `logged` what was
  written, `shown` what came out, `reader` the thread with its `m_pending`.

In each the rigid variable `...Env`, chosen from a constant set of scenarios,
says which faults a behaviour may have (`late`, `fail`, `drop`, ...). A property
names in its premise the faults it does not survive. `MCClientParts` puts the
nine side by side: `part` says which of them moves, so that the state space is
the sum and not the product.

## 3. Runs

| Run | Checks | Instance |
|---|---|---|
| `auth_overlap` | SessionsTypeOK, RotationSound, LogoutFinal, SignedInTokenCurrent, ForksOnlyByOverlap | one device, two handlers at once, other clients calling logout |
| `auth_settles` | RequestsSettle (liveness) | one device, two retries as in the code |
| `gateway_routing` | GatewayTypeOK, DeliveredToMembers, RoutingSound | two users, two sockets, a channel, overlap, early close, TTL, restart |
| `gateway_orderly` | ConnectedNotOffline, GoneIsOffline, StoresAgree, EventuallyOffline | one user, two sockets, a thread, both presence statuses, TTL, handlers of a user one after the other |
| `gateway_reconnect` (violation) | ConnectedNotOffline | one user, two sockets, overlap |
| `gateway_ghost` (violation) | GoneIsOffline | one user, two sockets, early close |
| `voice_cleanup` | VoiceTypeOK, VoiceRowsValid, AudioAdmitsMembers, GatewaySpec (refinement) | one request against the connects, closes and cleanups of a socket, a channel in each of two guilds, cache misses |
| `voice_calm` | OneVoiceChannel, ToldAgrees, EventuallyOutOfVoice | two sockets, three channels in two guilds, requests one after the other |
| `voice_restart` | CacheSound | the same with restarts |
| `voice_client` | VoiceClientTypeOK, MicContained, TransmitsAsAsked, ViewAgrees, CapturesReleased, ServerAgrees, MicSession (refinement), VoiceSettles (liveness) | two channels, a remote track, a microphone that may fail, seven sets of faults (`MCScenarios`) |
| `client_parts` | ClientTypeOK, LinkSound, TimelineSound, PartySound, GuildSound, PlaybackSound, AudioSound, CaptureSound, RestSound, FilterSound, ClientSettles (liveness) | each part with its own scenarios |
| `voice_mic_leak` (violation) | MicReleasedOnLeave | the voice client when LiveKit reconnects |

### Bounds

- *Tokens* (`Token`, `Budget` in AuthSessions): ids are never reused in the code.
  Four are a sign-in and two rotations, or a rotation forked by its retry, which
  is all one token's successors can do to each other. `Budget` only stops a
  device from starting a request the pool could not serve; no handler waits.
- *Retries*: `kMaxApiRetries` is 2. `auth_settles` uses 2; `auth_overlap` uses 1,
  enough for a retry beside its first attempt, which is where they interact.
- *Calls*: two handlers in flight. The races of a refresh are with one other
  refresh or one logout. In VoiceStates one slot meets the cleanup; with two TLC
  needs more than the minutes a run should take, and two requests that meet each
  other are left to the theorems, which allow any number.
- *Sockets*: two for one user are the reconnect and the second window. Values
  are reused, so behaviours are not bounded to two connections.
- *One subscription request of a socket and one presence call of a user at a
  time*: both only add or overwrite, so a second one adds nothing but order.
- *Asked, Chosen, Flags*: the inputs clients send. `muted` stands for both flags.
- *RowId*: ids are reused when no row and no request refers to one; the pools
  are large enough that a fresh id is always there in the runs.
- `RedisExpire`, `Expire` of refresh tokens and restarts may come at any moment,
  uncounted.
- *Posted closures and leave events* (`MaxPosted`, `MaxEvents`): two of each. A
  late closure or event meets what has happened since; a second one gives their
  order. Steps that post wait for room, and the user's buttons with them
  (`CanPost`), so no closure is lost for want of room.
- *Slots*: two PATCHes of mute and deafen in flight, and both flags: one may carry
  what the other has not yet shown. A third adds another late answer of the same kind.
- *Scenarios*: faults are combined in small sets, the pairs and triples that can
  meet in one handler (a late leave event with an impatient switch, a refused
  token with a room that closes). All of them at once is too large for TLC; the
  proofs of voice_client's invariants allow any combination.
- *Parts*: two tokens are a session and the next; three messages with a page of
  two make a cursor; two guilds, channels, users or tracks are the old and the
  new; a frame of two samples and five samples make a rest, a cut and a second
  frame; three lost answers are as many as a call has attempts.
  Two requests that change messages overlap (`MaxServing`), over at most two
  messages, or one that is reacted to (`MaxWritten` by scenario): a message and the
  request beside it. `MaxWire`, `MaxInbox`, `MaxArriving` and `MaxAnswers` bound what
  is under way;
  `MaxFaults`, `MaxRefused`, `MaxBroken`, `MaxDropped`, `MaxSpoken` and `MaxLines` count
  what would otherwise never end.

Deadlock is checked in every run but `client_parts`, where a part may really be
over: all calls answered, all lines logged.

### Fairness

node runs every handler to its end and Postgres and Redis answer, so each
handler's steps have weak fairness (`FairSpec`, `GatewayFairSpec`,
`VoiceFairSpec`). A device's requests end in an answer, a timeout or a closed
connection, and its retry timer fires (`DeviceStep`). Nothing is assumed of
users, of new connections or of closes: EventuallyOffline and
EventuallyOutOfVoice speak of users who stay away, in behaviours where the loss
of a connection is seen as a close (the server never pings).

On the client, Qt's event loop delivers what is queued and timers fire, the
connect thread and the playback threads run, and the server answers
(`FairSpec` of VoiceClient, `ClientSpec`). Not assumed: that the user does
anything, that a frame or room in a sink ever comes (a playback thread must end
without either), or that LiveKit reconnects once it has lost the room
(`VoiceSettles` leaves that state out). A REST call has no timeout of its own:
`CallEnds` assumes that the network answers or breaks.

### What calm means, and what is known to fail outside it

The properties of `gateway_orderly`, `voice_calm` and `voice_restart` hold when the
handlers of one user do not overlap, a socket does not close during the user
lookup, and nobody chooses the status OFFLINE. The findings show two of them
failing without that assumption, against what the documentation says. Others
fail in the same way, and no document speaks of them:

- a join that overlaps the cleanup: `deleteMany` removes its row, nobody is told
  and the cache keeps it;
- overlapping joins in two guilds leave two rows;
- a user who chose OFFLINE is evicted by listParticipants and stays in the cache;
- a restart leaves ONLINE and the voice rows of users who do not come back.

On the client, the environments the properties leave out really break them:

- a subscription that reaches the server before the user lookup has ended is
  dropped for the whole session (`early`);
- an access token that has expired is presented again at every reconnection and
  never refreshed (`expire`);
- two toggles of mute and deafen that overlap (`overlap`, VoiceClient): the second
  sends the first flag as it was, so the server ends with one flag and the screen
  shows both; a late leave event of the user's own old session takes the screen out
  of voice and leaves the row (`late`);
- an edit of a message that awaits its permissions while a deletion is written and
  told: the event of the edit puts the deleted message back on the screen
  (`overlap`, ChatTimeline);
- events of a friend that find no gateway session are lost, and a new session loads
  nothing again: members are missing, or shown with an old status (`friend` with
  `reconnect`, GuildSelection);
- an input device that cannot be opened (`fail`, AudioSettings) leaves voice without
  a microphone until the devices, the selection or the room change; also without
  it there is none while the room is not connected;
- the list of a guild that arrives after the logout is wanted, and subscribed to by
  the next session;
- an answer for a place that is no longer selected fills the list of the one that
  is (`late`, ChatTimeline and GuildSelection); after a failed load the old list
  stays; a page further back is prepended in reverse, an edit of a message that is
  not on the page appends it;
- the first of two overlapping answers clears `busy`;
- answers after a logout fill the store again (`logout`);
- a participant list older than an event stays until the next refresh (`late`),
  a patch that changes nothing doubles the row (`same`);
- a user who switches channels before the engine is connected, when the leave
  event also comes late or a call fails, keeps the old room under the new name
  (`impatient`);
- a captureFrame that throws leaves the frames already sent in the buffer (`fail`).

VoiceRowsValid, AudioAdmitsMembers, RoutingSound, DeliveredToMembers, RotationSound,
LogoutFinal and ForksOnlyByOverlap are proved with all overlaps, and checked with
those the bounds of their runs let happen.

## 4. Findings

- `gateway_reconnect`: handleDisconnect decides that the user is gone and writes
  OFFLINE three awaits later; a user who reconnected meanwhile stays OFFLINE.
- `gateway_ghost`: a socket that closes while its user is looked up is registered
  afterwards; the user stays ONLINE for good.
- `voice_mic_leak`: after LiveKit has reconnected, handleConnected opens the
  microphone once more and overwrites the pointer to the first audio source.
  leaveVoice stops the second; the first captures on until the application ends,
  against docs/SESSION_STATE.md:19.

Two things met while reading have no run, because they only restate a line:
leaveVoice names the selected guild and not the guild of the voice session
(VoiceViewModel.cpp:286), and logout neither leaves voice nor stops the engine
(AuthViewModel.cpp:93). And the rotation "chain" of docs/DB.md:5 is a tree once
two refreshes of a token overlap: ForksOnlyByOverlap, checked and proved, says that
this is the only way.

## 5. Proofs

For every number of users, tokens, sockets, channels, rows, calls, tracks and
messages under way, from the ASSUMEs on the constants only (sentinels are not
ids, `GuildOf` is a function, voice channels are channels, and the like, all
evaluated by the runs). Where a property needs an environment, the theorem has it
as a hypothesis or the property as its premise, and it is one of a run.

**Server**

- `AuthSessionsProofs`, first of the service: types, **RotationSound**,
  **LogoutFinal** and **ForksOnlyByOverlap** of `AuthSpec`. Neither of the first
  two is inductive: the invariant `IInv` adds what a call past its check still knows (`CallsSound`: its
  token has a row of the call's user; past the revocation the row is revoked; if
  a logout has overtaken it, it is marked), that logged-out tokens are revoked
  and that rows have an owner. ForksOnlyByOverlap needs `SingleUse`: of a token
  that was never forked there is either one refresh past the check or one
  successor. A valid token has neither, because its successor or a refresh past
  the revocation would have revoked it, so the check hands it to one refresh.
  Then of the composition: with the devices it implements the service
  (**SessionsSpec => AuthSpec**, step by step, so the theorems above hold of it),
  types, **SignedInTokenCurrent** and that devices do not share tokens
  (`TokensNotShared`). A device's token is current although handlers of requests
  it has given up still run: the invariant (`SlotsSound`, `HeldSound`) follows each request of a device from
  its slot on the server to the answer, retry or loss, and says which tokens are
  still the device's own.
- `VoiceStatesProofs`, first of the gateway: types, **RoutingSound** and **DeliveredToMembers** of
  `GatewaySpec`. `IInv` adds what a socket is at each await (`HandlersSound`: one
  being looked up has no session yet, every later await of a handler has one),
  that subscriptions are of members (`SubsSound`, kept because membership only
  grows) and that only sessions have subscriptions (`SubsOfSessions`). Then
  presence: `PresenceInv` follows one user through the awaits of the handlers and
  says which of the three copies of the status may be behind at each. From it
  **ConnectedNotOffline** (no overlap, nobody chooses OFFLINE), **GoneIsOffline**
  (no overlap, early close, REST presence or restart) and **StoresAgree** (no
  overlap or restart): weaker environments than that of `gateway_orderly`.
- Then of voice: **VoiceSpec => GatewaySpec** (the initial states and every
  step of the composition map to the gateway's, or to a stutter), types,
  **VoiceRowsValid** and **AudioAdmitsMembers** with every overlap. `VInv` carries
  the gateway's invariant over and adds `RequestsSound`: what a request has
  checked still holds when it writes, a row with the id of one it has read is
  still the same user's in the same guild, and what the speaking fallback has
  read may go into the cache. The second half assumes that the events of a user
  do not overlap and nobody chooses OFFLINE: `FollowInv` says, for each await of
  a join, leave, update, eviction, speaking event and cleanup, how far cache,
  rows and what subscribers are shown may disagree on a user. From it
  **CacheSound** (restarts allowed), **ToldAgrees** and **OneVoiceChannel** (the
  server stays up).

**Voice client**

- `VoiceClientProofs`: types, **MicContained**, **TransmitsAsAsked**, the half of
  ViewAgrees that needs no assumption about the user (`ConnectionAgrees`), and
  the refinement **VoiceClientSpec => MicSession**, for any channels, tracks,
  flags, bounds and fault scenarios. MicContained is not inductive: a stale closure
  could open the microphone. `VoiceInv` adds what the engine's members say of
  each other (`EngineSound`: a capture has a room and a started engine, no
  permission to transmit without a connection), that the engine was told
  what the view model holds (`Told`), that once out of voice nothing fresh is
  queued or under way (`NothingComes`), and that closures and calls carry what
  they claim (`PostedFits`, `CallsNamed`).
  The second half proves all of **ViewAgrees** (the engine is, or is getting, in
  the room of the channel on the screen), **CapturesReleased** and
  **ServerAgrees** (what the client shows of itself is the server's row, once
  nothing is under way), each in the environments its premise names. Any number of
  PATCHes may be in flight: of those that overlap nothing is claimed about flags, and
  a lone one has no join or leave beside it (`NoOverlap`).

**The other parts of the client**

- `GuildSelectionProofs`: types and **GuildSound**. An answer may be out of date when it is
  shown, and nothing but a later message sets that right, so the invariant is
  about the queue: whatever the screen or a message of the queue has wrong is
  followed by a message that mends it (`ScreenMended`, built from `Mended`). With
  the queue empty nothing is wrong. For subscriptions: lists of channels are what
  the guild's were at some time (`QueueWere`, `ScreenWere`), they only grow where
  answers keep their order (`QueueGrows`, `ScreenGrows`), and the list on the
  screen is wanted, and held wherever there is a session (`ListWanted`). What a
  session held and the list no longer names is heard as long as it lasts
  (`FirstSession`); a new one holds what is wanted only. The proof found a case the
  run's scenarios did not combine: when an answer that was overtaken shortens the
  list (`late`, `create`) and the session is then a new one (`reconnect`, `logout`),
  the channel that is open is no longer subscribed to. OpenRoomHeard excludes it.
- `ChatTimelineProofs`: types and **TimelineSound**. Where answers keep their order, the
  queue is read as the history of the selected place: there are states of its log,
  one between any two messages, of which the screen shows the first and the
  server's log is the last, and each message leads from one to the next
  (`Synced`, `Follows`); or the screen does not matter, because a list under way
  replaces it and is of one of these states. The step that makes it work is
  `WholeFollows` and `PartFollows`: what upsertMessage, removeMessage and the
  reaction patch do to the list on the screen is what the server did to the log,
  for all of it and for a page of it. It needs that an id is in one place only
  (`LogsSound`), because a reaction event does not name its channel. Where requests
  overlap there is no such history (`OverlapLoud`), and only the parts of the
  invariant are kept that NoMessageTwice and BusyEnds rest on; where they do not, the
  server has nothing half done between two steps (`ServerInv`).
- `VoiceParticipantsProofs`: types and **PartySound**, for any finite set of users.
  - *RowsAgree* and *DockOfChannel*, where answers keep their order: the queue is
    read as the history of the server (`HistoryInv`). There are situations, one
    between any two messages, of which the lists on the screen show the first and
    the server is in the last, and each message leads from one to the next
    (`Leads`). A list of the REST API is of the situation it stands at, so it may
    replace a patched list and agree with it; with the queue empty the screen
    shows what is. It needs that no list has a user twice (in `Right`), because
    updateVoiceParticipantState patches the first row it finds.
  - *SelfAgrees*, where answers overtake and are refused and there is no such
    history: every list has the user of the client right, or something is under way that
    sets it right: an event of theirs, a list that has them right, a refresh put
    off, or a refusal and its timer (`OnItsWay`). The step behind it is that their own events force
    a refresh, and that one put off is made when the fetch under way ends.
  - *PendingIsFetched* and *InFlightExact*: at most one answer of a channel is in
    the queue (`OneAnswer`).
- `ClientPartsProofs`, six parts without a variable in common:
  - **LinkSound**. `ManualSound`: without a token nothing opens a socket;
    `AllAnnounced`: what is wanted is held, on the wire, or will be sent when
    the socket is connected.
  - **RestSound**. `Accounted` is the balance behind it: what the server has done
    is what was dropped, what waits as an answer and what was heard.
  - **PlaybackSound**. A running thread is in the map or in the join the GUI
    thread waits for, and its sink fits its frame from the check to the write.
  - **AudioSound**, with what the selected devices and the file have in common
    while a change is applied (`AudioInv`).
  - **CaptureSound**. `BufferSound`: the samples in the buffer, and in the device,
    follow each other up to the last one spoken, and less than a frame of them
    was read in silence; `SentSound`: so do those of every frame, and its last
    sample was heard; `SentBefore`: what is in the buffer comes after what was
    sent.
  - **FilterSound**. What the thread and the pipe hold is one stretch of the log
    (`Segment`), whatever has been read of it; what is shown was logged outside
    of the stretch, no piece twice, and what is neither held nor shown is noise
    together with the other half of its line (`Accounts`). A line in `pending` that is whole
    may be one piece, when its first half was written before the filter started;
    the pieces of a line are neighbours in the log, so two that are dropped are
    one line (`LogInv`, `Halves`). Once the thread has ended the stretch is empty.
    With `late` the log goes on beside the stretch; without it the stretch is the
    end of the log, and that is why the order is kept (`InOrder`).
- `ClientProofs`: the composition of `client_parts` implements each of its nine
  parts (**ClientRunsParts**), so that it has **ClientTypeOK** and all that is
  proved of the parts (`ClientIsSound`). For **ClientTypeOK** the channels of
  GuildSelection needed an invariant of their own (`RoomsBound`): the server is
  asked for no channel beyond the bound because a list that is shown was the guild's.

Model-checked only:

- the liveness properties and the fairness they need, out of the prover's reach;
- the violations, which are counterexamples.

## 6. Not modelled

Errors of Postgres and Redis (a restart in the middle of a handler is modelled,
an exception is not); JWT and argon2 details; typing and voice_signal, which only
relay; issueSfuToken, which changes no state; roles, overwrites and the
permission resolver; the uses of an invite; the race of two equal createThread
calls; search and the storage of attachments; the content of profiles; the
microphone level and speaker volumes, which are only passed on; voice in more
than one guild on one client; LiveKit's own queues; QML and wiring. Components
marked `not_modelled` in PROJECT.json are one row update (Users) and the
database itself.
No run uses `rest` with overlap: it multiplies the states and the theorems cover it.

## 7. Plan

1. *Permissions* as sets of bits with the resolver's order of overwrites (a pure
   algorithm against a reference definition; a theorem about the owner and about
   ADMINISTRATOR), *invites* as a race on `maxUses`, *DM threads* as
   find-or-create.
2. VoiceClient with two guilds and with logout.
3. VoiceClient composed with VoiceStates, so that the leave events come from the
   server's own cleanup; GatewayLink composed with GatewaySessions.
4. Database errors inside the gateway's handlers.
5. Theorems: every invariant and the refinements the runs check are proved; next, which
   rows an overlap may leave behind (VoiceStates).
