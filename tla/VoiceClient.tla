----------------------------- MODULE VoiceClient -----------------------------
(***************************************************************************)
(* The voice view model (client/src/viewmodels/VoiceViewModel.cpp) with    *)
(* its engine, the REST calls it has in flight, the user's row on the      *)
(* server and the leave events of that user on their way through the       *)
(* gateway.  One guild; the participant lists are in VoiceParticipants.    *)
(* An answer, a gateway event and a closure of the engine are callbacks of *)
(* one event loop: each is one action.                                     *)
(***************************************************************************)
EXTENDS VoiceEngine

CONSTANTS
    MaxEvents,      \* bound: leave events in flight
    Slot            \* bound: one for each PATCH of mute or deafen in flight

VARIABLES
    vm,             \* the members of VoiceViewModel
    join,           \* the join in flight: POST join, then the SFU token
    leave,          \* the leave in flight; next is what to join after it
    abandon,        \* a leave nobody waits for is in flight
    update,         \* the PATCHes of mute and deafen in flight
    row,            \* the user's VoiceState row: channel and flags
    events          \* channels of self leave events, in order

clientVars == <<vm, join, leave, abandon, update, row, events>>
vars == <<engineVars, clientVars>>

\* ptt: "off" when the activation mode is voice activity.
ViewModel == [active : Room, joining : Room, leaving : BOOLEAN, connected : BOOLEAN,
              flags : SUBSET Flag, ptt : {"off", "released", "held"}]
NoJoin == [pc |-> "none", channel |-> NoChannel, flags |-> {}]
NoLeave == [pc |-> "none", next |-> NoChannel]
NoUpdate == [pc |-> "none", changed |-> {}, flags |-> {}]
NoRow == [channel |-> NoChannel, flags |-> {}]
CallPc == {"none", "sent", "ok", "failed"}

\* No PATCH of mute or deafen is in flight.
NoUpdates == \A s \in Slot : update[s] = NoUpdate

VoiceClientTypeOK ==
    /\ VoiceEngineTypeOK
    /\ vm \in ViewModel
    /\ join \in [pc : CallPc \cup {"token"}, channel : Room, flags : SUBSET Flag]
    /\ leave \in [pc : CallPc, next : Room]
    /\ abandon \in BOOLEAN
    /\ update \in [Slot -> [pc : CallPc, changed : SUBSET Flag, flags : SUBSET Flag]]
    /\ row \in [channel : Room, flags : SUBSET Flag]
    /\ events \in Seq(Channel)

VoiceClientInit ==
    /\ EngineInit
    /\ \E p \in {"off", "released"} :
         /\ "talk" \in env \/ p = "off"
         /\ vm = [active |-> NoChannel, joining |-> NoChannel, leaving |-> FALSE,
                  connected |-> FALSE, flags |-> {}, ptt |-> p]
    /\ join = NoJoin
    /\ leave = NoLeave
    /\ abandon = FALSE
    /\ update = [s \in Slot |-> NoUpdate]
    /\ row = NoRow
    /\ events = <<>>

-----------------------------------------------------------------------------
(* Members of the view model. *)

TransmitWanted(v) == v.connected /\ v.active # NoChannel /\ v.flags = {} /\ v.ptt # "released"

\* Mutant: the engine's setters forget updateTrackMuteState.
DispatchOnly(v, e) == [e EXCEPT !.flags = v.flags, !.transmit = TransmitWanted(v)]

\* dispatchAudioSettingsToBridge: the engine's setters do nothing when nothing
\* changes.
Dispatch(v, e) ==
    LET told == [e EXCEPT !.flags = v.flags, !.transmit = TransmitWanted(v)]
    IN IF told = e THEN e ELSE UpdateTrackMuteState(told)

ReleasePtt(v) == [v EXCEPT !.ptt = IF @ = "held" THEN "released" ELSE @]

\* setConnected, and the setPttPressed(false) that follows every setConnected(false).
Connected(v, c) == IF c THEN [v EXCEPT !.connected = TRUE]
                   ELSE [ReleasePtt(v) EXCEPT !.connected = FALSE]

\* The engine's connectedChanged signal, handled inside the step that emits it.
Notify(v, before, after) ==
    IF after.connected = before.connected THEN vm' = v /\ engine' = after
    ELSE vm' = Connected(v, after.connected) /\ engine' = Dispatch(Connected(v, after.connected), after)

\* Mutant: the engine is not stopped.
GoOutOnScreen(v) ==
    LET off == Connected(v, FALSE)
    IN /\ vm' = [off EXCEPT !.active = NoChannel]
       /\ engine' = Dispatch(off, engine) /\ UNCHANGED <<thread, sdk, posted>>

\* setConnected(false), setPttPressed(false), setActiveChannelId({}), stop():
\* how the client goes out of voice, with v for the other members.
GoOut(v) ==
    LET off == Connected(v, FALSE)
    IN vm' = [off EXCEPT !.active = NoChannel] /\ Stop(Dispatch(off, engine))

\* An answer that arrives on time finds the events the server sent before it handled.
InOrder == "late" \in env \/ events = <<>>

-----------------------------------------------------------------------------
(* The user. *)

\* "overlap": mute or deafen is toggled beside a join, a leave or another toggle.
CallsOverlap == "overlap" \in env

RequestJoin(v, c) ==
    /\ vm' = [v EXCEPT !.joining = c]
    /\ join' = [pc |-> "sent", channel |-> c, flags |-> v.flags]

\* Mutant: a leave in progress does not hold a join back.
JoinDuringLeave(c) ==
    /\ CanPost
    /\ vm.joining = NoChannel
    /\ ~vm.connected \/ vm.active = NoChannel
    /\ "impatient" \in env \/ vm.active \in {c, NoChannel}
    /\ CallsOverlap \/ NoUpdates
    /\ RequestJoin(vm, c)
    /\ UNCHANGED <<engineVars, leave, abandon, update, row, events>>

\* joinVoice(c): what its guards leave is a first join or a switch.
\* "impatient": another channel while the engine is not connected yet.
JoinVoice(c) ==
    /\ CanPost
    /\ vm.joining = NoChannel /\ ~vm.leaving
    /\ ~vm.connected \/ vm.active = NoChannel
    /\ "impatient" \in env \/ vm.active \in {c, NoChannel}
    /\ CallsOverlap \/ NoUpdates
    /\ RequestJoin(vm, c)
    /\ UNCHANGED <<engineVars, leave, abandon, update, row, events>>

SwitchVoice(c) ==
    /\ CanPost
    /\ vm.joining = NoChannel /\ ~vm.leaving
    /\ vm.connected /\ vm.active \notin {c, NoChannel}
    /\ CallsOverlap \/ NoUpdates
    /\ vm' = [vm EXCEPT !.leaving = TRUE]
    /\ leave' = [pc |-> "sent", next |-> c]
    /\ UNCHANGED <<engineVars, join, abandon, update, row, events>>

\* leaveVoice; the button is enabled while connected.
LeaveVoice ==
    /\ vm.connected
    /\ vm.active # NoChannel /\ ~vm.leaving /\ vm.joining = NoChannel
    /\ CallsOverlap \/ NoUpdates
    /\ vm' = [vm EXCEPT !.leaving = TRUE]
    /\ leave' = [pc |-> "sent", next |-> NoChannel]
    /\ UNCHANGED <<engineVars, join, abandon, update, row, events>>

\* toggleMute, toggleDeafen: both flags are sent, as they are shown at the call.
Toggle(f) ==
    /\ env \cap {"talk", "overlap"} # {} /\ vm.connected
    /\ CallsOverlap \/ (join = NoJoin /\ leave = NoLeave /\ NoUpdates)
    /\ \E s \in Slot :
         /\ update[s] = NoUpdate
         /\ update' = [update EXCEPT ![s] =
                [pc |-> "sent", changed |-> {f}, flags |-> (vm.flags \cup {f}) \ (vm.flags \cap {f})]]
    /\ UNCHANGED <<engineVars, vm, join, leave, abandon, row, events>>

\* setPttPressed by the shortcut, which asks for connected; setActivationMode.
SetPtt(p) ==
    /\ "talk" \in env /\ vm.ptt # p
    /\ p = "held" => vm.connected /\ vm.ptt = "released"
    /\ vm' = [vm EXCEPT !.ptt = p]
    /\ engine' = Dispatch(vm', engine)
    /\ UNCHANGED <<env, thread, sdk, posted, join, leave, abandon, update, row, events>>

\* A microphone is plugged, unplugged or chosen; the same for a loudspeaker.
InputsChanged ==
    /\ "devices" \in env /\ engine.started
    /\ \E mic \in Mic : engine' = RestartInputCapture(engine, mic)
    /\ UNCHANGED <<env, thread, sdk, posted, clientVars>>

OutputsChanged ==
    /\ "devices" \in env /\ engine.started
    /\ \E works \in SUBSET Track : engine' = RebuildRemotePlaybacks(engine, works)
    /\ UNCHANGED <<env, thread, sdk, posted, clientVars>>

-----------------------------------------------------------------------------
(* The server and the gateway. *)

\* Mutant: a leave is announced for a user who was not there.
SelfLeaveAlways(c) == Append(events, c)

SelfLeave(c) == IF c = NoChannel THEN events ELSE Append(events, c)

\* "fail": a call fails before or after it has its effect.
Outcome == IF "fail" \in env THEN {"ok", "failed"} ELSE {"ok"}

ServerJoin ==
    /\ join.pc = "sent"
    /\ Len(events) < MaxEvents
    /\ \/ /\ row' = [channel |-> join.channel, flags |-> join.flags]
          /\ events' = IF row.channel = join.channel THEN events ELSE SelfLeave(row.channel)
          /\ \E o \in Outcome : join' = [join EXCEPT !.pc = o]
       \/ /\ "fail" \in env
          /\ join' = [join EXCEPT !.pc = "failed"]
          /\ UNCHANGED <<row, events>>
    /\ UNCHANGED <<engineVars, vm, leave, abandon, update>>

Leaves == row' = NoRow /\ events' = SelfLeave(row.channel) /\ Len(events) < MaxEvents

ServerLeave ==
    /\ leave.pc = "sent"
    /\ \/ Leaves /\ \E o \in Outcome : leave' = [leave EXCEPT !.pc = o]
       \/ "fail" \in env /\ leave' = [leave EXCEPT !.pc = "failed"] /\ UNCHANGED <<row, events>>
    /\ UNCHANGED <<engineVars, vm, join, abandon, update>>

ServerAbandon ==
    /\ abandon
    /\ abandon' = FALSE
    /\ Leaves \/ ("fail" \in env /\ UNCHANGED <<row, events>>)
    /\ UNCHANGED <<engineVars, vm, join, leave, update>>

\* updateState refuses a user without a row.
ServerUpdate(s) ==
    /\ update[s].pc = "sent"
    /\ IF row = NoRow THEN update' = [update EXCEPT ![s].pc = "failed"] /\ row' = row
       ELSE /\ row' = [row EXCEPT !.flags = update[s].flags]
            /\ \E o \in Outcome : update' = [update EXCEPT ![s].pc = o]
    /\ UNCHANGED <<engineVars, vm, join, leave, abandon, events>>

\* The row is taken elsewhere: another device of the user leaves, or the gateway
\* cleans up after the last socket of the user.
Elsewhere ==
    /\ "elsewhere" \in env
    /\ row # NoRow
    /\ Leaves
    /\ UNCHANGED <<engineVars, vm, join, leave, abandon, update>>

-----------------------------------------------------------------------------
(* Callbacks of the event loop. *)

\* Mutant: a refused join leaves m_joiningChannelId set.
JoinForgotten ==
    /\ InOrder
    /\ \/ join.pc = "ok" /\ join' = [join EXCEPT !.pc = "token"]
       \/ join.pc = "failed" /\ join' = NoJoin
    /\ UNCHANGED <<engineVars, vm, leave, abandon, update, row, events>>

JoinAnswered ==
    /\ InOrder
    /\ \/ /\ join.pc = "ok"
          /\ join' = [join EXCEPT !.pc = "token"]
          /\ vm' = vm
       \/ /\ join.pc = "failed"
          /\ join' = NoJoin
          /\ vm' = [vm EXCEPT !.joining = NoChannel]
    /\ UNCHANGED <<engineVars, leave, abandon, update, row, events>>

\* issueVoiceSfuToken answers: the engine is started for the channel.
TokenIssued ==
    /\ join.pc = "token" /\ InOrder
    /\ vm' = [vm EXCEPT !.active = join.channel, !.joining = NoChannel]
    /\ Start(Dispatch(vm', [engine EXCEPT !.sfu = join.channel]))
    /\ join' = NoJoin
    /\ UNCHANGED <<env, leave, abandon, update, row, events>>

TokenRefused ==
    /\ join.pc = "token" /\ "fail" \in env /\ ~abandon
    /\ vm' = [vm EXCEPT !.joining = NoChannel]
    /\ join' = NoJoin
    /\ abandon' = TRUE
    /\ UNCHANGED <<engineVars, leave, update, row, events>>

\* The leave has answered: out, and on to the next channel if it was a switch.
LeaveAnswered ==
    /\ InOrder
    /\ leave' = NoLeave
    /\ \/ /\ leave.pc = "failed"
          /\ vm' = [vm EXCEPT !.leaving = FALSE]
          /\ UNCHANGED <<engine, thread, sdk, posted, join>>
       \/ /\ leave.pc = "ok" /\ leave.next = NoChannel
          /\ GoOut([vm EXCEPT !.leaving = FALSE, !.joining = NoChannel])
          /\ join' = join
       \/ /\ leave.pc = "ok" /\ leave.next # NoChannel
          /\ GoOut([vm EXCEPT !.leaving = FALSE, !.joining = leave.next])
          /\ join' = [pc |-> "sent", channel |-> leave.next, flags |-> vm.flags]
    /\ UNCHANGED <<env, abandon, update, row, events>>

\* The flags shown once u has answered: the callback sets the one it changed.
Shown(u) == IF u.pc = "ok" THEN (vm.flags \ u.changed) \cup (u.flags \cap u.changed) ELSE vm.flags

UpdateAnswered(s) ==
    /\ update[s].pc \in {"ok", "failed"}
    /\ vm' = [vm EXCEPT !.flags = Shown(update[s])]
    /\ engine' = Dispatch(vm', engine)
    /\ update' = [update EXCEPT ![s] = NoUpdate]
    /\ UNCHANGED <<env, thread, sdk, posted, join, leave, abandon, row, events>>

\* voice_state_update, action leave, of the user himself: whatever the channel.
SelfLeaveEvent ==
    /\ events # <<>>
    /\ events' = Tail(events)
    /\ GoOut(vm)
    /\ UNCHANGED <<env, join, leave, abandon, update, row>>

\* The gateway was not connected when the server sent it.
LoseEvent ==
    /\ "late" \in env
    /\ events # <<>>
    /\ events' = Tail(events)
    /\ UNCHANGED <<engineVars, vm, join, leave, abandon, update, row>>

\* A closure of the engine: dropped if it is of another generation.
Deliver ==
    /\ posted # <<>>
    /\ posted' = Tail(posted)
    /\ IF Head(posted).fresh
       THEN \E mic \in Mic, works \in SUBSET Track :
                Notify(vm, engine, Run(engine, Head(posted), mic, works))
       ELSE UNCHANGED <<vm, engine>>
    /\ sdk' = IF Head(posted).fresh /\ Head(posted).kind = "error" THEN "none" ELSE sdk
    /\ UNCHANGED <<env, thread, join, leave, abandon, update, row, events>>

-----------------------------------------------------------------------------
UserStep ==
    \/ \E c \in Channel : JoinVoice(c) \/ SwitchVoice(c)
    \/ LeaveVoice
    \/ \E f \in Flag : Toggle(f)
    \/ \E p \in {"off", "released", "held"} : SetPtt(p)
    \/ InputsChanged \/ OutputsChanged

ServerStep == ServerJoin \/ ServerLeave \/ ServerAbandon \/ \E s \in Slot : ServerUpdate(s)

Callbacks ==
    \/ JoinAnswered \/ TokenIssued \/ TokenRefused
    \/ LeaveAnswered \/ (\E s \in Slot : UpdateAnswered(s))
    \/ SelfLeaveEvent
    \/ Deliver

VoiceClientNext ==
    \/ UserStep
    \/ LiveKitStep /\ UNCHANGED clientVars
    \/ ServerStep \/ Elsewhere \/ LoseEvent
    \/ Callbacks

VoiceClientSpec == VoiceClientInit /\ [][VoiceClientNext]_vars

\* The event loop runs what is queued, the server answers every call, and the
\* connect thread goes on.  Nothing is assumed of the user and of faults.
FairSpec ==
    /\ VoiceClientSpec
    /\ WF_vars(ServerJoin) /\ WF_vars(JoinAnswered \/ TokenIssued \/ TokenRefused)
    /\ WF_vars(ServerLeave) /\ WF_vars(LeaveAnswered)
    /\ WF_vars(ServerAbandon) /\ WF_vars(SelfLeaveEvent)
    /\ WF_vars(Deliver)
    /\ WF_vars((Connect \/ Publish) /\ UNCHANGED clientVars)

-----------------------------------------------------------------------------
(* Properties. *)

\* The microphone is captured only for a started engine that is in a room.
MicOnlyInRoom == engine.capture => engine.started /\ engine.room # NoChannel

\* What is captured goes out only in a joined channel, with neither mute nor
\* deafen set and, with push to talk, the key held: the engine never keeps a
\* permission that the view model has withdrawn on another path.
TransmitsAsAsked ==
    engine.transmitting =>
        /\ vm.active # NoChannel /\ vm.connected /\ vm.flags = {} /\ vm.ptt # "released"
        /\ engine.started /\ engine.connected

\* Out of voice the engine is stopped: no closure of an earlier room, however
\* late, opens the microphone or plays a voice again.
SilentOutOfVoice ==
    vm.active = NoChannel =>
        /\ ~engine.started /\ ~engine.capture /\ engine.playbacks = {}
        /\ thread.pc = "none" /\ \A i \in DOMAIN posted : ~posted[i].fresh

\* The two together: the microphone is open in a room and in voice, or not at all.
MicContained == MicOnlyInRoom /\ SilentOutOfVoice

\* The buttons show the state of the engine.
ConnectedAgrees == vm.connected = engine.connected

\* The engine is, or is getting, in the room of the channel shown as joined,
\* unless the user switches channels before it is connected and the events
\* that would have stopped it come late.
RoomFollowsChannel ==
    "impatient" \notin env \/ env \cap {"late", "elsewhere", "fail"} = {} =>
        /\ engine.started /\ engine.room # NoChannel => engine.room = vm.active
        /\ thread.pc # "none" => thread.room = vm.active

\* The two together: what the user sees of the engine is so.
ViewAgrees == ConnectedAgrees /\ RoomFollowsChannel

\* Every microphone opened is released: a capture is replaced without being
\* stopped only after LiveKit has reconnected or has closed the room early.
CapturesReleased == engine.leaked => env \cap {"reconnect", "down"} # {}

Idle == join = NoJoin /\ leave = NoLeave /\ ~abandon /\ NoUpdates /\ events = <<>>

\* With no call and no event under way the client shows the channel, and the
\* flags, that the server has for the user.
RowAgrees ==
    env \cap {"late", "fail", "elsewhere"} = {} /\ Idle => vm.active = row.channel

FlagsAgree ==
    env \cap {"fail", "overlap"} = {} /\ Idle =>
        row = NoRow \/ row.flags = vm.flags

\* The two together.
ServerAgrees == RowAgrees /\ FlagsAgree

\* A join and a leave end, so that the guards against a second one go away.
CallsSettle == (vm.joining # NoChannel \/ vm.leaving) ~> (vm.joining = NoChannel /\ ~vm.leaving)

\* A started engine connects or stops.
ConnectSettles ==
    engine.started ~> (engine.connected \/ ~engine.started \/ sdk = "reconnecting")

\* The two together.
VoiceSettles == CallsSettle /\ ConnectSettles

\* docs/SESSION_STATE.md: "Microphone is requested/used only while in a voice
\* session; released on leave."
MicReleasedOnLeave == vm.active = NoChannel => ~engine.capture /\ ~engine.leaked

\* The same sentence, of the captures the engine knows of, as a specification.
Session == INSTANCE VoiceSession WITH
    session <- vm.active,
    mic <- engine.capture,
    sending <- engine.capture /\ engine.transmitting

MicSession == Session!Spec
=============================================================================
