----------------------------- MODULE VoiceEngine -----------------------------
(***************************************************************************)
(* The native voice engine of the desktop client                           *)
(* (client/src/services/NativeVoiceEngine.cpp).  The Qt main thread owns   *)
(* `engine'; the connect thread and the LiveKit callbacks only post        *)
(* closures to it, which carry the generation they were made in.  The      *)
(* counter m_generation is modelled by what a closure can tell from it:    *)
(* `fresh' is whether it is still the generation of that closure.          *)
(***************************************************************************)
EXTENDS Naturals, Sequences

CONSTANTS
    Channel,        \* voice channels; a LiveKit room stands for its channel
    NoChannel,
    Track,          \* remote audio tracks
    Flag,           \* "muted", "deafened": what the user may set
    Mic,            \* what opening the microphone can do: see StartInputCapture
    MaxPosted,      \* bound: closures waiting in the event loop
    Scenarios       \* sets of faults; one of them, env, may happen

ASSUME VoiceEngineAssumption == NoChannel \notin Channel

VARIABLES
    env,            \* never changes
    engine,         \* the members of NativeVoiceEngine
    thread,         \* m_connectThread
    sdk,            \* the LiveKit room of this generation
    posted          \* closures queued to the main thread

engineVars == <<env, engine, thread, sdk, posted>>

Room == Channel \cup {NoChannel}

Engine == [started : BOOLEAN, connected : BOOLEAN,
           sfu : Room,                      \* m_sfuUrl, m_sfuToken
           room : Room,                     \* m_room, its source and track
           capture : BOOLEAN,               \* m_inputSource runs
           leaked : BOOLEAN,                \* one runs that nothing refers to
           flags : SUBSET Flag, transmit : BOOLEAN, transmitting : BOOLEAN,
           tracks : SUBSET Track, playbacks : SUBSET Track]

Kind == {"room", "error", "connected", "reconnecting", "disconnected",
         "subscribed", "unsubscribed"}
Closure == [kind : Kind, fresh : BOOLEAN, arg : Room \cup Track]

VoiceEngineTypeOK ==
    /\ env \in Scenarios
    /\ engine \in Engine
    /\ thread \in [pc : {"none", "connecting", "publishing"}, room : Room]
    /\ sdk \in {"none", "up", "reconnecting"}
    /\ posted \in Seq(Closure)

EngineInit ==
    /\ env \in Scenarios
    /\ engine = [started |-> FALSE, connected |-> FALSE, sfu |-> NoChannel, room |-> NoChannel,
                 capture |-> FALSE, leaked |-> FALSE, flags |-> {}, transmit |-> FALSE,
                 transmitting |-> FALSE, tracks |-> {}, playbacks |-> {}]
    /\ thread = [pc |-> "none", room |-> NoChannel]
    /\ sdk = "none"
    /\ posted = <<>>

-----------------------------------------------------------------------------
(* What the member functions do to the members. *)

UpdateTrackMuteState(e) ==
    [e EXCEPT !.transmitting = e.started /\ e.connected /\ e.transmit /\ e.flags = {}]

\* mic: "ok", "unsupported" (the format is refused and nothing is opened), or
\* "failed" (a QAudioSource is made and deleted).  The source that ran before,
\* a child of the engine, is not stopped.
StartInputCapture(e, mic) ==
    IF ~e.started \/ ~e.connected \/ e.room = NoChannel \/ mic = "unsupported" THEN e
    ELSE [e EXCEPT !.capture = mic = "ok", !.leaked = @ \/ e.capture]

StopInputCapture(e) == [e EXCEPT !.capture = FALSE]

\* Mutant: the capture that runs is not stopped first.
StartOver(e, mic) == StartInputCapture(e, mic)

RestartInputCapture(e, mic) == StartInputCapture(StopInputCapture(e), mic)

StopAllRemotePlaybacks(e) == [e EXCEPT !.playbacks = {}]

\* works: the tracks whose audio stream can be opened.
RebuildRemotePlaybacks(e, works) == [e EXCEPT !.playbacks = e.tracks \cap works]

StopRoom(e) ==
    [StopAllRemotePlaybacks(StopInputCapture(e)) EXCEPT !.tracks = {}, !.room = NoChannel]

HandleDisconnected(e) ==
    [StopRoom(e) EXCEPT !.started = FALSE, !.transmitting = FALSE, !.connected = FALSE]

HandleConnected(e, mic) ==
    IF ~e.started THEN e
    ELSE UpdateTrackMuteState(StartInputCapture([e EXCEPT !.connected = TRUE], mic))

HandleTrackSubscribed(e, t, works) ==
    [e EXCEPT !.tracks = @ \cup {t}, !.playbacks = IF t \in works THEN @ \cup {t} ELSE @ \ {t}]

HandleTrackUnsubscribed(e, t) == [e EXCEPT !.tracks = @ \ {t}, !.playbacks = @ \ {t}]

\* What a fresh closure does when the main thread runs it.
Run(e, closure, mic, works) ==
    CASE closure.kind = "room" -> HandleConnected([e EXCEPT !.room = closure.arg], mic)
      [] closure.kind = "connected" -> HandleConnected(e, mic)
      [] closure.kind \in {"error", "disconnected"} -> HandleDisconnected(e)
      [] closure.kind = "reconnecting" -> [e EXCEPT !.connected = FALSE]
      [] closure.kind = "subscribed" -> HandleTrackSubscribed(e, closure.arg, works)
      [] closure.kind = "unsubscribed" -> HandleTrackUnsubscribed(e, closure.arg)

-----------------------------------------------------------------------------
Post(kind, arg) == Append(posted, [kind |-> kind, fresh |-> TRUE, arg |-> arg])

\* Mutant: stop() does not count a new generation.
SameGeneration(q) ==
    IF thread.pc = "none" THEN q
    ELSE Append(q, [kind |-> "room", fresh |-> TRUE, arg |-> thread.room])

\* m_generation.fetch_add, then the join of a connect thread that still runs:
\* the main thread waits for it, and what it posts is of the old generation.
NextGeneration(q) ==
    LET old == [i \in DOMAIN q |-> [q[i] EXCEPT !.fresh = FALSE]]
    IN IF thread.pc = "none" THEN old
       ELSE Append(old, [kind |-> "room", fresh |-> FALSE, arg |-> thread.room])

\* Mutant: stop() leaves the capture running.
StopAllButInput(e) ==
    /\ engine' = [HandleDisconnected(e) EXCEPT !.capture = e.capture]
    /\ posted' = NextGeneration(posted)
    /\ thread' = [pc |-> "none", room |-> NoChannel]
    /\ sdk' = "none"

\* stop(), on the engine e.  The signals it emits are the view model's to handle.
Stop(e) ==
    /\ engine' = HandleDisconnected(e)
    /\ posted' = NextGeneration(posted)
    /\ thread' = [pc |-> "none", room |-> NoChannel]
    /\ sdk' = "none"

\* start(), on the engine e: at once if it is started already.
Start(e) ==
    IF e.started THEN engine' = UpdateTrackMuteState(e) /\ UNCHANGED <<thread, sdk, posted>>
    ELSE /\ engine' = [e EXCEPT !.started = TRUE]
         /\ posted' = NextGeneration(posted)
         /\ thread' = [pc |-> "connecting", room |-> e.sfu]
         /\ sdk' = "none"

-----------------------------------------------------------------------------
(* The connect thread and LiveKit. *)

CanPost == Len(posted) < MaxPosted

\* Connect returns; the delegate may have been told "connected" by then.
Connect ==
    /\ thread.pc = "connecting"
    /\ \/ /\ thread' = [thread EXCEPT !.pc = "publishing"]
          /\ sdk' = "up"
          /\ posted' \in {posted, Post("connected", NoChannel)}
       \/ /\ "fail" \in env
          /\ thread' = [pc |-> "none", room |-> NoChannel]
          /\ posted' = Post("error", NoChannel)
          /\ sdk' = sdk
    /\ UNCHANGED <<env, engine>>

Publish ==
    /\ thread.pc = "publishing"
    /\ \/ posted' = Post("room", thread.room)
       \/ "fail" \in env /\ posted' = Post("error", NoChannel)
    /\ thread' = [pc |-> "none", room |-> NoChannel]
    /\ UNCHANGED <<env, engine, sdk>>

\* The callbacks of RoomDelegateImpl while the room lives.
Callback(kind, arg, state) ==
    /\ CanPost
    /\ posted' = Post(kind, arg)
    /\ sdk' = state
    /\ UNCHANGED <<env, engine, thread>>

LoseRoom == sdk = "up" /\ "reconnect" \in env /\ Callback("reconnecting", NoChannel, "reconnecting")
RegainRoom == sdk = "reconnecting" /\ Callback("connected", NoChannel, "up")
EndRoom == sdk # "none" /\ "down" \in env /\ Callback("disconnected", NoChannel, "none")
Subscribe(t) == sdk = "up" /\ "voices" \in env /\ Callback("subscribed", t, sdk)
Unsubscribe(t) == sdk = "up" /\ "voices" \in env /\ Callback("unsubscribed", t, sdk)

LiveKitStep ==
    \/ Connect \/ Publish
    \/ LoseRoom \/ RegainRoom \/ EndRoom
    \/ \E t \in Track : Subscribe(t) \/ Unsubscribe(t)
=============================================================================
