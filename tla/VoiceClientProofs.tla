-------------------------- MODULE VoiceClientProofs --------------------------
(***************************************************************************)
(* What holds of the voice client for any number of channels, tracks,      *)
(* flags and closures: of the microphone whatever the network, the server  *)
(* and the devices do, and of what the client shows.                       *)
(***************************************************************************)
EXTENDS VoiceClient, SequenceTheorems, TLAPS

\* The argument of a closure is of the kind the closure asks for.
Fits(c) ==
    /\ c.kind = "room" => c.arg \in Channel
    /\ c.kind \in {"subscribed", "unsubscribed"} => c.arg \in Track

PostedFits == \A i \in DOMAIN posted : Fits(posted[i])

\* A join, and the thread that connects, are about a channel.
CallsNamed ==
    /\ join.pc # "none" => join.channel # NoChannel
    /\ thread.pc # "none" => thread.room # NoChannel

\* The calls and the events are well formed.
CallsTypeOK ==
    /\ join \in [pc : CallPc \cup {"token"}, channel : Room, flags : SUBSET Flag]
    /\ leave \in [pc : CallPc, next : Room]
    /\ abandon \in BOOLEAN
    /\ update \in [Slot -> [pc : CallPc, changed : SUBSET Flag, flags : SUBSET Flag]]
    /\ row \in [channel : Room, flags : SUBSET Flag]
    /\ events \in Seq(Channel)

\* The engine's own state hangs together.
EngineSound(e) ==
    /\ e.connected => e.started
    /\ e.capture => e.started /\ e.room # NoChannel
    /\ e.transmitting = (e.started /\ e.connected /\ e.transmit /\ e.flags = {})

\* So it does while the view model has not heard of a lost connection, but for
\* what it transmits.
Reconnecting(e) ==
    /\ ~e.connected
    /\ e.capture => e.started /\ e.room # NoChannel
    /\ e.transmitting => e.transmit

\* The engine has been told what the view model wants.
Told(v, e) ==
    /\ v.connected = e.connected
    /\ v.flags = e.flags
    /\ e.transmit = TransmitWanted(v)

\* An engine that is stopped.
Silent(e) == ~e.started /\ ~e.capture /\ e.playbacks = {}

\* Out of voice nothing is left that could start the engine again.
NothingComes(v) ==
    v.active = NoChannel =>
        /\ Silent(engine) /\ thread.pc = "none" /\ sdk = "none"
        /\ \A i \in DOMAIN posted : ~posted[i].fresh

\* The properties are not inductive: a closure is posted by one step and run by a
\* later one, and the permission to transmit is kept by the engine and by the view
\* model.  The invariant says what is still true of both in between.
VoiceInv ==
    /\ VoiceClientTypeOK
    /\ PostedFits /\ CallsNamed
    /\ EngineSound(engine)
    /\ Told(vm, engine)
    /\ NothingComes(vm)

-----------------------------------------------------------------------------
(* The member functions. *)

\* updateTrackMuteState writes one member.
LEMMA UpdateFacts ==
  ASSUME NEW e \in Engine, NEW u, u = UpdateTrackMuteState(e)
  PROVE  /\ u \in Engine
         /\ u.transmitting = (e.started /\ e.connected /\ e.transmit /\ e.flags = {})
         /\ u.started = e.started /\ u.connected = e.connected
         /\ u.room = e.room /\ u.capture = e.capture
         /\ u.flags = e.flags /\ u.transmit = e.transmit /\ u.playbacks = e.playbacks
<1> DEFINE b == e.started /\ e.connected /\ e.transmit /\ e.flags = {}
<1>1. b \in BOOLEAN /\ u = [e EXCEPT !.transmitting = b]
  BY DEF UpdateTrackMuteState
<1> HIDE DEF b
<1>2. /\ u \in Engine /\ u.transmitting = b
      /\ u.started = e.started /\ u.connected = e.connected
      /\ u.room = e.room /\ u.capture = e.capture
      /\ u.flags = e.flags /\ u.transmit = e.transmit /\ u.playbacks = e.playbacks
  BY <1>1 DEF Engine
<1>3. QED
  BY <1>2 DEF b

\* dispatchAudioSettingsToBridge brings the permission to transmit up to date, and
\* touches nothing else.
LEMMA DispatchFacts ==
  ASSUME NEW v \in ViewModel, NEW e \in Engine, v.connected = e.connected,
         EngineSound(e) \/ Reconnecting(e)
  PROVE  /\ Dispatch(v, e) \in Engine
         /\ EngineSound(Dispatch(v, e)) /\ Told(v, Dispatch(v, e))
         /\ Silent(e) => Silent(Dispatch(v, e))
         /\ Dispatch(v, e).capture = e.capture /\ Dispatch(v, e).started = e.started
         /\ Dispatch(v, e).connected = e.connected
<1> DEFINE want == TransmitWanted(v)
           told == [e EXCEPT !.flags = v.flags, !.transmit = want]
           d == Dispatch(v, e)
<1>1. want \in BOOLEAN /\ v.flags \in SUBSET Flag
  BY DEF TransmitWanted, ViewModel
<1>2. d = IF told = e THEN e ELSE UpdateTrackMuteState(told)
  BY DEF Dispatch
<1> HIDE DEF want, d
<1>3. /\ told \in Engine /\ told.flags = v.flags /\ told.transmit = want
      /\ told.started = e.started /\ told.connected = e.connected
      /\ told.room = e.room /\ told.capture = e.capture
      /\ told.transmitting = e.transmitting /\ told.playbacks = e.playbacks
  BY <1>1 DEF Engine
<1> HIDE DEF told
<1>4. d \in Engine /\ EngineSound(d) /\ d.flags = v.flags /\ d.transmit = want
      /\ d.started = e.started /\ d.connected = e.connected
      /\ d.capture = e.capture /\ d.playbacks = e.playbacks
  <2>1. CASE told = e
    <3>1. d = e /\ (e.transmitting => e.transmit)
      BY <1>2, <2>1 DEF EngineSound, Reconnecting
    <3>2. EngineSound(e)
      <4>1. CASE EngineSound(e)
        BY <4>1
      <4>2. CASE Reconnecting(e)
        <5>1. ~v.connected /\ ~want
          BY <4>2 DEF Reconnecting, want, TransmitWanted
        <5>2. ~e.transmit /\ ~e.transmitting /\ e.transmitting \in BOOLEAN
          BY <1>3, <2>1, <3>1, <5>1 DEF Engine
        <5>3. QED
          BY <4>2, <5>2 DEF Reconnecting, EngineSound
      <4>3. QED
        BY <4>1, <4>2
    <3>3. QED
      BY <1>3, <2>1, <3>1, <3>2
  <2>2. CASE told # e
    <3>1. d = UpdateTrackMuteState(told)
      BY <1>2, <2>2
    <3>2. /\ d \in Engine
          /\ d.transmitting = (told.started /\ told.connected /\ told.transmit /\ told.flags = {})
          /\ d.started = told.started /\ d.connected = told.connected
          /\ d.room = told.room /\ d.capture = told.capture
          /\ d.flags = told.flags /\ d.transmit = told.transmit /\ d.playbacks = told.playbacks
      BY <1>3, <3>1, UpdateFacts
    <3>3. /\ e.connected => e.started
          /\ e.capture => e.started /\ e.room # NoChannel
      BY DEF EngineSound, Reconnecting
    <3>4. EngineSound(d)
      BY <1>3, <3>2, <3>3 DEF EngineSound
    <3>5. QED
      BY <1>3, <3>2, <3>4
  <2>3. QED
    BY <2>1, <2>2
<1>5. Told(v, d)
  BY <1>4 DEF Told, want
<1>6. Silent(e) => Silent(d)
  BY <1>4 DEF Silent
<1>7. QED
  BY <1>4, <1>5, <1>6 DEF d

\* stopRoom and the flags: the engine is off.
LEMMA DisconnectedFacts ==
  ASSUME NEW e \in Engine
  PROVE  /\ HandleDisconnected(e) \in Engine
         /\ EngineSound(HandleDisconnected(e)) /\ Silent(HandleDisconnected(e))
         /\ ~HandleDisconnected(e).connected
         /\ HandleDisconnected(e).flags = e.flags /\ HandleDisconnected(e).transmit = e.transmit
BY DEF HandleDisconnected, StopRoom, StopAllRemotePlaybacks, StopInputCapture, EngineSound,
       Silent, Engine, Room

\* A capture is started for a connected engine with a room, and nothing else that
\* the properties read changes.
LEMMA StartCaptureFacts ==
  ASSUME NEW e \in Engine, NEW mic, NEW s, s = StartInputCapture(e, mic)
  PROVE  /\ s \in Engine
         /\ s.capture => e.capture \/ (e.started /\ e.connected /\ e.room # NoChannel)
         /\ s.started = e.started /\ s.connected = e.connected /\ s.room = e.room
         /\ s.flags = e.flags /\ s.transmit = e.transmit
         /\ s.transmitting = e.transmitting /\ s.playbacks = e.playbacks
<1>1. CASE ~e.started \/ ~e.connected \/ e.room = NoChannel \/ mic = "unsupported"
  <2>1. s = e
    BY <1>1 DEF StartInputCapture
  <2>2. QED
    BY <2>1
<1>2. CASE ~(~e.started \/ ~e.connected \/ e.room = NoChannel \/ mic = "unsupported")
  <2> DEFINE opened == mic = "ok"
             left == e.leaked \/ e.capture
  <2>1. s = [e EXCEPT !.capture = opened, !.leaked = left]
    BY <1>2 DEF StartInputCapture
  <2>2. opened \in BOOLEAN /\ left \in BOOLEAN
    OBVIOUS
  <2> HIDE DEF opened, left
  <2>3. QED
    BY <1>2, <2>1, <2>2 DEF Engine
<1>3. QED
  BY <1>1, <1>2

\* Opening and closing the microphone keeps the engine sound.
LEMMA CaptureFacts ==
  ASSUME NEW e \in Engine, NEW mic, EngineSound(e)
  PROVE  /\ StartInputCapture(e, mic) \in Engine /\ EngineSound(StartInputCapture(e, mic))
         /\ RestartInputCapture(e, mic) \in Engine /\ EngineSound(RestartInputCapture(e, mic))
         /\ RestartInputCapture(e, mic).flags = e.flags
         /\ RestartInputCapture(e, mic).transmit = e.transmit
         /\ RestartInputCapture(e, mic).connected = e.connected
         /\ RestartInputCapture(e, mic).transmitting = e.transmitting
<1> DEFINE stopped == StopInputCapture(e)
           s == StartInputCapture(e, mic)
           r == StartInputCapture(stopped, mic)
<1>1. /\ stopped \in Engine /\ ~stopped.capture
      /\ stopped.started = e.started /\ stopped.connected = e.connected
      /\ stopped.room = e.room /\ stopped.flags = e.flags /\ stopped.transmit = e.transmit
      /\ stopped.transmitting = e.transmitting
  BY DEF StopInputCapture, Engine
<1> HIDE DEF stopped
<1>2. /\ s \in Engine
      /\ s.capture => e.capture \/ (e.started /\ e.connected /\ e.room # NoChannel)
      /\ s.started = e.started /\ s.connected = e.connected /\ s.room = e.room
      /\ s.flags = e.flags /\ s.transmit = e.transmit /\ s.transmitting = e.transmitting
  BY StartCaptureFacts
<1>3. /\ r \in Engine
      /\ r.capture => stopped.capture
                      \/ (stopped.started /\ stopped.connected /\ stopped.room # NoChannel)
      /\ r.started = stopped.started /\ r.connected = stopped.connected
      /\ r.room = stopped.room /\ r.flags = stopped.flags /\ r.transmit = stopped.transmit
      /\ r.transmitting = stopped.transmitting
  BY <1>1, StartCaptureFacts
<1>4. RestartInputCapture(e, mic) = r
  BY DEF RestartInputCapture, stopped
<1> HIDE DEF s, r
<1>5. EngineSound(s)
  BY <1>2 DEF EngineSound
<1>6. EngineSound(r)
  BY <1>1, <1>3 DEF EngineSound
<1>7. QED
  BY <1>1, <1>2, <1>3, <1>4, <1>5, <1>6 DEF s

\* handleConnected, with the room of the closure or the one there is.
LEMMA ConnectedFacts ==
  ASSUME NEW e \in Engine, NEW mic, EngineSound(e)
  PROVE  /\ HandleConnected(e, mic) \in Engine /\ EngineSound(HandleConnected(e, mic))
         /\ HandleConnected(e, mic).flags = e.flags
         /\ HandleConnected(e, mic).transmit = e.transmit
<1>1. CASE ~e.started
  BY <1>1 DEF HandleConnected
<1>2. CASE e.started
  <2> DEFINE on == [e EXCEPT !.connected = TRUE]
             s == StartInputCapture(on, mic)
             u == UpdateTrackMuteState(s)
  <2>1. HandleConnected(e, mic) = u
    BY <1>2 DEF HandleConnected
  <2>2. /\ on \in Engine /\ on.started /\ on.connected /\ on.capture = e.capture
        /\ on.room = e.room /\ on.flags = e.flags /\ on.transmit = e.transmit
    BY <1>2 DEF Engine
  <2> HIDE DEF on
  <2>3. /\ s \in Engine
        /\ s.capture => on.capture \/ (on.started /\ on.connected /\ on.room # NoChannel)
        /\ s.started = on.started /\ s.connected = on.connected /\ s.room = on.room
        /\ s.flags = on.flags /\ s.transmit = on.transmit
    BY <2>2, StartCaptureFacts
  <2> HIDE DEF s
  <2>4. /\ u \in Engine
        /\ u.transmitting = (s.started /\ s.connected /\ s.transmit /\ s.flags = {})
        /\ u.started = s.started /\ u.connected = s.connected
        /\ u.room = s.room /\ u.capture = s.capture
        /\ u.flags = s.flags /\ u.transmit = s.transmit
    BY <2>3, UpdateFacts
  <2> HIDE DEF u
  <2>5. EngineSound(u)
    BY <1>2, <2>2, <2>3, <2>4 DEF EngineSound
  <2>6. QED
    BY <2>1, <2>2, <2>3, <2>4, <2>5
<1>3. QED
  BY <1>1, <1>2

\* A closure leaves the flags and the permission alone, and the engine sound.
LEMMA RunFacts ==
  ASSUME NEW e \in Engine, NEW c \in Closure, NEW mic, NEW works, EngineSound(e), Fits(c),
         NEW after, after = Run(e, c, mic, works)
  PROVE  /\ after \in Engine
         /\ EngineSound(after) \/ Reconnecting(after)
         /\ after.connected = e.connected => EngineSound(after)
         /\ after.flags = e.flags /\ after.transmit = e.transmit
<1> DEFINE up == [e EXCEPT !.connected = FALSE]
           in == [e EXCEPT !.room = c.arg]
<1>1. CASE c.kind = "room"
  <2>1. in \in Engine /\ in.flags = e.flags /\ in.transmit = e.transmit /\ EngineSound(in)
    BY <1>1, VoiceEngineAssumption DEF Engine, Room, Fits, EngineSound
  <2>2. after = HandleConnected(in, mic)
    BY <1>1 DEF Run
  <2> HIDE DEF in
  <2>3. QED
    BY <2>1, <2>2, ConnectedFacts
<1>2. CASE c.kind = "connected"
  <2>1. after = HandleConnected(e, mic)
    BY <1>2 DEF Run
  <2>2. QED
    BY <2>1, ConnectedFacts
<1>3. CASE c.kind \in {"error", "disconnected"}
  <2>1. after = HandleDisconnected(e)
    BY <1>3 DEF Run
  <2>2. QED
    BY <2>1, DisconnectedFacts
<1>4. CASE c.kind = "reconnecting"
  <2>1. after = up
    BY <1>4 DEF Run
  <2>2. QED
    BY <2>1 DEF EngineSound, Reconnecting, Engine
<1>5. CASE c.kind = "subscribed"
  <2> DEFINE heard == IF c.arg \in works THEN e.playbacks \cup {c.arg} ELSE e.playbacks \ {c.arg}
  <2>1. after = [e EXCEPT !.tracks = @ \cup {c.arg}, !.playbacks = heard]
    BY <1>5 DEF Run, HandleTrackSubscribed
  <2>2. c.arg \in Track /\ e.tracks \in SUBSET Track /\ e.playbacks \in SUBSET Track
    BY <1>5 DEF Fits, Engine
  <2>3. e.tracks \cup {c.arg} \in SUBSET Track /\ heard \in SUBSET Track
    BY <2>2
  <2> HIDE DEF heard
  <2>4. after \in Engine
    BY <2>1, <2>3 DEF Engine
  <2>5. QED
    BY <2>1, <2>4 DEF EngineSound, Engine
<1>6. CASE c.kind = "unsubscribed"
  <2>1. after = HandleTrackUnsubscribed(e, c.arg)
    BY <1>6 DEF Run
  <2>2. QED
    BY <1>6, <2>1 DEF HandleTrackUnsubscribed, EngineSound, Engine, Fits
<1>7. QED
  BY <1>1, <1>2, <1>3, <1>4, <1>5, <1>6 DEF Closure, Kind

\* A new generation: no closure that waits is of it.
LEMMA GenerationFacts ==
  ASSUME VoiceEngineTypeOK, PostedFits, CallsNamed, NEW q, q = posted
  PROVE  /\ NextGeneration(q) \in Seq(Closure)
         /\ \A i \in DOMAIN NextGeneration(q) :
               ~NextGeneration(q)[i].fresh /\ Fits(NextGeneration(q)[i])
<1> DEFINE old == [i \in DOMAIN q |-> [q[i] EXCEPT !.fresh = FALSE]]
           last == [kind |-> "room", fresh |-> FALSE, arg |-> thread.room]
<1>1. q \in Seq(Closure) /\ DOMAIN q = 1..Len(q) /\ Len(q) \in Nat
  BY DEF VoiceEngineTypeOK
<1>2. \A i \in DOMAIN q : q[i] \in Closure /\ Fits(q[i])
  BY <1>1 DEF PostedFits
<1>3. \A i \in DOMAIN q : old[i] \in Closure /\ ~old[i].fresh /\ Fits(old[i])
  BY <1>2 DEF Closure, Fits
<1>4. old \in Seq(Closure) /\ DOMAIN old = DOMAIN q
  BY <1>1, <1>3
<1>5. CASE thread.pc = "none"
  BY <1>3, <1>4, <1>5 DEF NextGeneration
<1>6. CASE thread.pc # "none"
  <2>1. last \in Closure /\ ~last.fresh /\ Fits(last)
    BY <1>6 DEF VoiceEngineTypeOK, CallsNamed, Closure, Kind, Room, Fits
  <2>2. NextGeneration(q) = Append(old, last)
    BY <1>6 DEF NextGeneration
  <2> HIDE DEF old, last
  <2>3. Append(old, last) \in Seq(Closure)
    BY <1>4, <2>1
  <2>4. \A i \in DOMAIN Append(old, last) : Append(old, last)[i] = last \/
           (i \in DOMAIN old /\ Append(old, last)[i] = old[i])
    BY <1>4
  <2>5. QED
    BY <1>3, <1>4, <2>1, <2>2, <2>3, <2>4
<1>7. QED
  BY <1>5, <1>6

\* Running a fresh closure leaves the view model and the engine in agreement.
LEMMA NotifyFacts ==
  ASSUME NEW v \in ViewModel, NEW e \in Engine, NEW a \in Engine, Told(v, e),
         EngineSound(a) \/ Reconnecting(a),
         a.connected = e.connected => EngineSound(a),
         a.flags = e.flags, a.transmit = e.transmit,
         NEW w, NEW b,
         \/ a.connected = e.connected /\ w = v /\ b = a
         \/ /\ a.connected # e.connected
            /\ w = Connected(v, a.connected) /\ b = Dispatch(w, a)
  PROVE  /\ w \in ViewModel /\ b \in Engine
         /\ EngineSound(b) /\ Told(w, b)
         /\ w.active = v.active
<1>1. CASE a.connected = e.connected
  BY <1>1 DEF Told, TransmitWanted
<1>2. CASE a.connected # e.connected
  <2>1. w = Connected(v, a.connected) /\ b = Dispatch(w, a)
    BY <1>2
  <2>2. w \in ViewModel /\ w.connected = a.connected /\ w.active = v.active
    BY <2>1 DEF Connected, ReleasePtt, ViewModel, Engine
  <2>3. QED
    BY <2>1, <2>2, DispatchFacts
<1>3. QED
  BY <1>1, <1>2

\* stop() from any sound state.
LEMMA StopFacts ==
  ASSUME VoiceEngineTypeOK, PostedFits, CallsNamed, NEW e \in Engine, Stop(e)
  PROVE  /\ engine' \in Engine /\ EngineSound(engine') /\ Silent(engine')
         /\ ~engine'.connected /\ engine'.flags = e.flags /\ engine'.transmit = e.transmit
         /\ posted' \in Seq(Closure) /\ PostedFits'
         /\ \A i \in DOMAIN posted' : ~posted'[i].fresh
         /\ thread' = [pc |-> "none", room |-> NoChannel] /\ sdk' = "none"
<1>1. engine' = HandleDisconnected(e) /\ posted' = NextGeneration(posted)
      /\ thread' = [pc |-> "none", room |-> NoChannel] /\ sdk' = "none"
  BY DEF Stop
<1>2. NextGeneration(posted) \in Seq(Closure)
      /\ \A i \in DOMAIN NextGeneration(posted) :
            ~NextGeneration(posted)[i].fresh /\ Fits(NextGeneration(posted)[i])
  BY GenerationFacts
<1>3. PostedFits' /\ posted' \in Seq(Closure) /\ \A i \in DOMAIN posted' : ~posted'[i].fresh
  BY <1>1, <1>2 DEF PostedFits
<1>4. QED
  BY <1>1, <1>3, DisconnectedFacts

\* What every way out of voice leaves behind.
LEMMA GoOutFacts ==
  ASSUME VoiceInv, NEW v \in ViewModel, v.connected = vm.connected, GoOut(v)
  PROVE  /\ vm' \in ViewModel /\ vm'.active = NoChannel
         /\ engine' \in Engine /\ EngineSound(engine') /\ Told(vm', engine')
         /\ Silent(engine') /\ sdk' = "none"
         /\ posted' \in Seq(Closure) /\ PostedFits'
         /\ \A i \in DOMAIN posted' : ~posted'[i].fresh
         /\ thread' = [pc |-> "none", room |-> NoChannel]
<1> DEFINE off == Connected(v, FALSE)
           told == Dispatch(off, engine)
<1>1. off \in ViewModel /\ ~off.connected
  BY DEF Connected, ReleasePtt, ViewModel
<1>2. vm' = [off EXCEPT !.active = NoChannel] /\ Stop(told)
  BY DEF GoOut
<1>3. engine \in Engine /\ EngineSound(engine)
  BY DEF VoiceInv, VoiceClientTypeOK, VoiceEngineTypeOK
<1>4. told \in Engine /\ told.flags = off.flags /\ ~told.transmit
  BY <1>1, <1>3 DEF Dispatch, UpdateTrackMuteState, TransmitWanted, Engine, ViewModel
<1> HIDE DEF told, off
<1>5. vm' \in ViewModel /\ vm'.active = NoChannel /\ ~vm'.connected /\ vm'.flags = off.flags
  BY <1>1, <1>2 DEF ViewModel, Room
<1>6. VoiceEngineTypeOK /\ PostedFits /\ CallsNamed
  BY DEF VoiceInv, VoiceClientTypeOK
<1>7. /\ engine' \in Engine /\ EngineSound(engine') /\ Silent(engine')
      /\ ~engine'.connected /\ engine'.flags = told.flags /\ engine'.transmit = told.transmit
      /\ posted' \in Seq(Closure) /\ PostedFits'
      /\ \A i \in DOMAIN posted' : ~posted'[i].fresh
      /\ thread' = [pc |-> "none", room |-> NoChannel] /\ sdk' = "none"
  BY <1>2, <1>4, <1>6, StopFacts
<1>8. Told(vm', engine')
  BY <1>4, <1>5, <1>7 DEF Told, TransmitWanted, Engine, ViewModel
<1>9. QED
  BY <1>5, <1>7, <1>8

-----------------------------------------------------------------------------
(* The invariant. *)

\* It is what its parts say.
LEMMA InvParts ==
  ASSUME env' \in Scenarios,
         thread' \in [pc : {"none", "connecting", "publishing"}, room : Room],
         sdk' \in {"none", "up", "reconnecting"}, posted' \in Seq(Closure),
         vm' \in ViewModel, engine' \in Engine, CallsTypeOK', PostedFits', CallsNamed',
         EngineSound(engine'), Told(vm', engine'), NothingComes(vm)'
  PROVE  VoiceInv'
<1>1. VoiceEngineTypeOK'
  BY DEF VoiceEngineTypeOK
<1>2. VoiceClientTypeOK'
  BY <1>1 DEF VoiceClientTypeOK, CallsTypeOK
<1>3. EngineSound(engine)' /\ Told(vm, engine)'
  BY DEF EngineSound, Told, TransmitWanted
<1>4. QED
  BY <1>2, <1>3 DEF VoiceInv

\* The parts of the invariant.
LEMMA PartsOfInv ==
  ASSUME VoiceInv
  PROVE  /\ env \in Scenarios /\ thread \in [pc : {"none", "connecting", "publishing"}, room : Room]
         /\ sdk \in {"none", "up", "reconnecting"} /\ posted \in Seq(Closure)
         /\ vm \in ViewModel /\ engine \in Engine /\ CallsTypeOK
         /\ PostedFits /\ CallsNamed /\ EngineSound(engine) /\ Told(vm, engine) /\ NothingComes(vm)
BY DEF VoiceInv, VoiceClientTypeOK, VoiceEngineTypeOK, CallsTypeOK

\* A step that leaves the engine alone, and in the view model what the engine is told.
LEMMA CallsOnly ==
  ASSUME VoiceInv, UNCHANGED engineVars, vm' \in ViewModel,
         vm'.active = vm.active, vm'.connected = vm.connected,
         vm'.flags = vm.flags, vm'.ptt = vm.ptt,
         CallsTypeOK', join'.pc # "none" => join'.channel # NoChannel
  PROVE  VoiceInv'
<1> USE PartsOfInv DEF engineVars
<1>1. PostedFits' /\ CallsNamed'
  BY DEF PostedFits, CallsNamed
<1>2. EngineSound(engine') /\ Told(vm', engine')
  BY DEF Told, TransmitWanted
<1>3. NothingComes(vm)'
  BY DEF NothingComes, Silent
<1>4. QED
  BY <1>1, <1>2, <1>3, InvParts

\* A step of the engine alone, or of the permission to transmit.
LEMMA EngineOnly ==
  ASSUME VoiceInv, UNCHANGED <<env, thread, sdk, posted, join, leave, abandon, row, events>>,
         CallsTypeOK', vm' \in ViewModel, engine' \in Engine,
         vm'.active = vm.active,
         EngineSound(engine'), Told(vm', engine'), Silent(engine) => Silent(engine')
  PROVE  VoiceInv'
<1> USE PartsOfInv
<1>1. PostedFits' /\ CallsNamed'
  BY DEF PostedFits, CallsNamed
<1>3. NothingComes(vm)'
  BY DEF NothingComes, Silent
<1>4. QED
  BY <1>1, <1>3, InvParts

\* What the user does.
LEMMA UserKeeps ==
  ASSUME VoiceInv, UserStep
  PROVE  VoiceInv'
<1> USE PartsOfInv
<1>1. ASSUME NEW c \in Channel, JoinVoice(c)
      PROVE  VoiceInv'
  BY <1>1, CallsOnly, VoiceEngineAssumption
     DEF JoinVoice, RequestJoin, CallsTypeOK, ViewModel, Room, CallPc
<1>2. ASSUME NEW c \in Channel, SwitchVoice(c)
      PROVE  VoiceInv'
  BY <1>2, CallsOnly DEF SwitchVoice, CallsTypeOK, CallsNamed, ViewModel, Room, CallPc
<1>3. CASE LeaveVoice
  BY <1>3, CallsOnly DEF LeaveVoice, CallsTypeOK, CallsNamed, ViewModel, Room, CallPc
<1>4. ASSUME NEW f \in Flag, Toggle(f)
      PROVE  VoiceInv'
  <2> DEFINE u == [pc |-> "sent", changed |-> {f}, flags |-> (vm.flags \cup {f}) \ (vm.flags \cap {f})]
  <2>1. u \in [pc : CallPc, changed : SUBSET Flag, flags : SUBSET Flag]
    BY DEF ViewModel, CallPc
  <2>2. UNCHANGED <<engineVars, vm, join, leave, abandon, row, events>>
        /\ \E s \in Slot : update' = [update EXCEPT ![s] = u]
    BY <1>4 DEF Toggle
  <2> HIDE DEF u
  <2>3. CallsTypeOK' /\ (join'.pc # "none" => join'.channel # NoChannel)
    BY <2>1, <2>2 DEF CallsTypeOK, CallsNamed
  <2>4. QED
    BY <2>2, <2>3, CallsOnly
<1>5. ASSUME NEW p \in {"off", "released", "held"}, SetPtt(p)
      PROVE  VoiceInv'
  <2>1. vm' \in ViewModel /\ vm'.active = vm.active /\ vm'.connected = vm.connected
        /\ engine' = Dispatch(vm', engine)
    BY <1>5 DEF SetPtt, ViewModel
  <2>2. vm'.connected = engine.connected
    BY <2>1 DEF Told
  <2>3. /\ engine' \in Engine /\ EngineSound(engine') /\ Told(vm', engine')
        /\ Silent(engine) => Silent(engine')
    BY <2>1, <2>2, DispatchFacts
  <2>4. CallsTypeOK' /\ UNCHANGED <<env, thread, sdk, posted, join, leave, abandon, row, events>>
    BY <1>5 DEF SetPtt, CallsTypeOK
  <2>5. QED
    BY <2>1, <2>3, <2>4, EngineOnly
<1>6. CASE InputsChanged
  <2>1. PICK mic \in Mic : engine' = RestartInputCapture(engine, mic)
    BY <1>6 DEF InputsChanged
  <2>2. /\ engine' \in Engine /\ EngineSound(engine')
        /\ engine'.flags = engine.flags /\ engine'.transmit = engine.transmit
        /\ engine'.connected = engine.connected
    BY <2>1, CaptureFacts
  <2>3. ~Silent(engine) /\ CallsTypeOK'
        /\ UNCHANGED <<vm, env, thread, sdk, posted, join, leave, abandon, row, events>>
    BY <1>6 DEF InputsChanged, clientVars, Silent, CallsTypeOK
  <2>4. Told(vm', engine')
    BY <2>2, <2>3 DEF Told, TransmitWanted
  <2>5. QED
    BY <2>2, <2>3, <2>4, EngineOnly
<1>7. CASE OutputsChanged
  <2>1. PICK works \in SUBSET Track : engine' = RebuildRemotePlaybacks(engine, works)
    BY <1>7 DEF OutputsChanged
  <2>2. /\ engine' \in Engine /\ EngineSound(engine')
        /\ engine'.flags = engine.flags /\ engine'.transmit = engine.transmit
        /\ engine'.connected = engine.connected
    BY <2>1 DEF RebuildRemotePlaybacks, Engine, EngineSound
  <2>3. ~Silent(engine) /\ CallsTypeOK'
        /\ UNCHANGED <<vm, env, thread, sdk, posted, join, leave, abandon, row, events>>
    BY <1>7 DEF OutputsChanged, clientVars, Silent, CallsTypeOK
  <2>4. Told(vm', engine')
    BY <2>2, <2>3 DEF Told, TransmitWanted
  <2>5. QED
    BY <2>2, <2>3, <2>4, EngineOnly
<1>8. QED
  BY <1>1, <1>2, <1>3, <1>4, <1>5, <1>6, <1>7 DEF UserStep

\* What the server does, and the events that are lost.
LEMMA ServerKeeps ==
  ASSUME VoiceInv, ServerStep \/ Elsewhere \/ LoseEvent
  PROVE  VoiceInv'
<1> USE PartsOfInv
<1>1. NoRow \in [channel : Room, flags : SUBSET Flag] /\ Outcome \subseteq CallPc
  BY DEF NoRow, Room, Outcome, CallPc
<1>2. row.channel \in Channel \cup {NoChannel} => SelfLeave(row.channel) \in Seq(Channel)
  BY DEF SelfLeave, CallsTypeOK
<1>3. SelfLeave(row.channel) \in Seq(Channel)
  BY <1>2 DEF CallsTypeOK, Room
<1>4. Leaves => row' \in [channel : Room, flags : SUBSET Flag] /\ events' \in Seq(Channel)
  BY <1>1, <1>3 DEF Leaves
<1>5. CASE ServerJoin
  BY <1>1, <1>3, <1>5, CallsOnly DEF ServerJoin, CallsTypeOK, CallsNamed, CallPc
<1>6. CASE ServerLeave
  BY <1>1, <1>4, <1>6, CallsOnly DEF ServerLeave, CallsTypeOK, CallsNamed, CallPc
<1>7. CASE ServerAbandon
  BY <1>1, <1>4, <1>7, CallsOnly DEF ServerAbandon, CallsTypeOK, CallsNamed, CallPc
<1>8. ASSUME NEW s \in Slot, ServerUpdate(s)
      PROVE  VoiceInv'
  <2>1. /\ \E o \in {"ok", "failed"} : update' = [update EXCEPT ![s].pc = o]
        /\ row' = row \/ row' = [row EXCEPT !.flags = update[s].flags]
    BY <1>8 DEF ServerUpdate, Outcome
  <2>2. update' \in [Slot -> [pc : CallPc, changed : SUBSET Flag, flags : SUBSET Flag]]
    BY <2>1 DEF CallsTypeOK, CallPc
  <2>3. row' \in [channel : Room, flags : SUBSET Flag]
    BY <2>1 DEF CallsTypeOK
  <2>4. UNCHANGED <<engineVars, vm, join, leave, abandon, events>>
    BY <1>8 DEF ServerUpdate
  <2>5. CallsTypeOK' /\ (join'.pc # "none" => join'.channel # NoChannel)
    BY <2>2, <2>3, <2>4 DEF CallsTypeOK, CallsNamed
  <2>6. QED
    BY <2>4, <2>5, CallsOnly
<1>9. CASE Elsewhere
  BY <1>4, <1>9, CallsOnly DEF Elsewhere, CallsTypeOK, CallsNamed
<1>10. CASE LoseEvent
  BY <1>10, CallsOnly DEF LoseEvent, CallsTypeOK, CallsNamed
<1>11. QED
  BY <1>5, <1>6, <1>7, <1>8, <1>9, <1>10 DEF ServerStep

\* A closure of the right kind is queued behind closures of the right kind.
LEMMA PostFacts ==
  ASSUME posted \in Seq(Closure), PostedFits,
         NEW kind \in Kind, NEW arg \in Room \cup Track,
         Fits([kind |-> kind, fresh |-> TRUE, arg |-> arg]), posted' = Post(kind, arg)
  PROVE  posted' \in Seq(Closure) /\ PostedFits'
<1> DEFINE c == [kind |-> kind, fresh |-> TRUE, arg |-> arg]
<1>1. c \in Closure /\ posted' = Append(posted, c)
  BY DEF Closure, Post
<1> HIDE DEF c
<1>2. /\ posted' \in Seq(Closure)
      /\ \A i \in DOMAIN posted' : posted'[i] = c \/ (i \in DOMAIN posted /\ posted'[i] = posted[i])
  BY <1>1
<1>3. \A i \in DOMAIN posted' : Fits(posted'[i])
  BY <1>2 DEF PostedFits, c
<1>4. QED
  BY <1>2, <1>3 DEF PostedFits

\* The connect thread and the callbacks of LiveKit only queue closures, and none
\* out of voice.
LEMMA LiveKitKeeps ==
  ASSUME VoiceInv, LiveKitStep, UNCHANGED clientVars
  PROVE  VoiceInv'
<1> USE PartsOfInv DEF clientVars
<1> DEFINE Queued == posted' \in Seq(Closure) /\ PostedFits'
<1>1. ASSUME Queued, UNCHANGED <<env, engine>>, vm.active # NoChannel,
             sdk' \in {"none", "up", "reconnecting"},
             thread' \in [pc : {"none", "connecting", "publishing"}, room : Room],
             thread'.pc # "none" => thread'.room # NoChannel
      PROVE  VoiceInv'
  <2>1. CallsNamed' /\ CallsTypeOK'
    BY <1>1 DEF CallsNamed, CallsTypeOK
  <2>2. NothingComes(vm)'
    BY <1>1 DEF NothingComes
  <2>3. EngineSound(engine') /\ Told(vm', engine')
    BY <1>1
  <2>4. QED
    BY <1>1, <2>1, <2>2, <2>3, InvParts
<1>2. NoChannel \in Room /\ \A kind \in Kind \ {"room", "subscribed", "unsubscribed"} :
        Fits([kind |-> kind, fresh |-> TRUE, arg |-> NoChannel])
  BY DEF Room, Fits
<1>3. {"room", "error", "connected", "reconnecting", "disconnected"} \subseteq Kind
  BY DEF Kind
<1>4. thread.pc # "none" \/ sdk # "none" => vm.active # NoChannel
  BY DEF NothingComes
<1>5. CASE Connect
  <2>1. posted' \in {posted, Post("connected", NoChannel)} \/ posted' = Post("error", NoChannel)
    BY <1>5 DEF Connect
  <2>2. Queued
    <3>1. CASE posted' = posted
      BY <3>1 DEF PostedFits
    <3>2. CASE posted' = Post("connected", NoChannel)
      BY <1>2, <1>3, <3>2, PostFacts
    <3>3. CASE posted' = Post("error", NoChannel)
      BY <1>2, <1>3, <3>3, PostFacts
    <3>4. QED
      BY <2>1, <3>1, <3>2, <3>3
  <2> HIDE DEF Queued
  <2>3. QED
    BY <1>1, <1>2, <1>4, <1>5, <2>2 DEF Connect, CallsNamed
<1>6. CASE Publish
  <2>1. thread.pc = "publishing" /\ (posted' = Post("room", thread.room) \/ posted' = Post("error", NoChannel))
    BY <1>6 DEF Publish
  <2>2. thread.room \in Channel /\ thread.room \in Room
    BY <2>1 DEF CallsNamed, Room
  <2>3. Fits([kind |-> "room", fresh |-> TRUE, arg |-> thread.room])
    BY <2>2 DEF Fits
  <2>4. Queued
    <3>1. CASE posted' = Post("room", thread.room)
      BY <1>3, <2>2, <2>3, <3>1, PostFacts
    <3>2. CASE posted' = Post("error", NoChannel)
      BY <1>2, <1>3, <3>2, PostFacts
    <3>3. QED
      BY <2>1, <3>1, <3>2
  <2> HIDE DEF Queued
  <2>5. QED
    BY <1>1, <1>2, <1>4, <1>6, <2>4 DEF Publish
<1>7. ASSUME NEW kind \in Kind, NEW arg \in Room \cup Track,
             NEW state \in {"none", "up", "reconnecting"}, sdk # "none",
             Fits([kind |-> kind, fresh |-> TRUE, arg |-> arg]), Callback(kind, arg, state)
      PROVE  VoiceInv'
  <2>1. posted' = Post(kind, arg) /\ sdk' = state /\ UNCHANGED <<env, engine, thread>>
    BY <1>7 DEF Callback
  <2>2. Queued
    BY <1>7, <2>1, PostFacts
  <2> HIDE DEF Queued
  <2>3. QED
    BY <1>1, <1>4, <1>7, <2>1, <2>2 DEF CallsNamed
<1>8. CASE LoseRoom \/ RegainRoom \/ EndRoom
  BY <1>2, <1>3, <1>7, <1>8 DEF LoseRoom, RegainRoom, EndRoom
<1>9. ASSUME NEW t \in Track, Subscribe(t) \/ Unsubscribe(t)
      PROVE  VoiceInv'
  BY <1>7, <1>9 DEF Subscribe, Unsubscribe, Fits, Kind
<1>10. QED
  BY <1>5, <1>6, <1>8, <1>9 DEF LiveKitStep

\* What an answer shows are flags.
LEMMA ShownTyped ==
  ASSUME VoiceInv, NEW s \in Slot
  PROVE  Shown(update[s]) \in SUBSET Flag
<1>1. /\ update[s] \in [pc : CallPc, changed : SUBSET Flag, flags : SUBSET Flag]
      /\ vm.flags \in SUBSET Flag
  BY PartsOfInv DEF CallsTypeOK, ViewModel
<1>2. QED
  BY <1>1 DEF Shown

\* The answers, the events and the closures that the event loop runs.
LEMMA CallbacksKeep ==
  ASSUME VoiceInv, Callbacks
  PROVE  VoiceInv'
<1> USE PartsOfInv
<1>1. CASE JoinAnswered
  BY <1>1, CallsOnly DEF JoinAnswered, NoJoin, CallsTypeOK, CallsNamed, ViewModel, Room, CallPc
<1>2. CASE TokenRefused
  BY <1>2, CallsOnly DEF TokenRefused, NoJoin, CallsTypeOK, CallsNamed, ViewModel, Room, CallPc
<1>3. CASE TokenIssued
  <2> DEFINE had == [engine EXCEPT !.sfu = join.channel]
             told == Dispatch(vm', had)
  <2>1. join.channel \in Channel /\ join.channel # NoChannel
    BY <1>3, VoiceEngineAssumption DEF TokenIssued, CallsNamed, CallsTypeOK, Room
  <2>2. vm' = [vm EXCEPT !.active = join.channel, !.joining = NoChannel] /\ Start(told)
    BY <1>3 DEF TokenIssued
  <2>3. had \in Engine /\ EngineSound(had) /\ had.connected = engine.connected
    BY <2>1 DEF Engine, EngineSound, Room
  <2>4. vm' \in ViewModel /\ vm'.active = join.channel /\ vm'.connected = had.connected
    BY <2>1, <2>2, <2>3 DEF ViewModel, Room, Told
  <2> HIDE DEF had
  <2>5. told \in Engine /\ EngineSound(told) /\ Told(vm', told)
    BY <2>3, <2>4, DispatchFacts
  <2>6. told.sfu = join.channel
    BY <2>1, <2>3 DEF had, Dispatch, UpdateTrackMuteState, Engine
  <2> HIDE DEF told
  <2>7. /\ env' = env /\ join' = NoJoin
        /\ UNCHANGED <<leave, abandon, update, row, events>>
    BY <1>3 DEF TokenIssued
  <2>8. CallsTypeOK' /\ join'.pc = "none"
    BY <2>7 DEF CallsTypeOK, NoJoin, CallPc, Room
  <2>9. NothingComes(vm)'
    BY <2>1, <2>4 DEF NothingComes
  <2>10. CASE told.started
    <3>1. engine' = UpdateTrackMuteState(told) /\ UNCHANGED <<thread, sdk, posted>>
      BY <2>2, <2>10 DEF Start
    <3>2. engine' \in Engine /\ EngineSound(engine') /\ Told(vm', engine')
      BY <2>5, <3>1 DEF UpdateTrackMuteState, Engine, EngineSound, Told
    <3>3. PostedFits' /\ CallsNamed'
      BY <2>8, <3>1 DEF PostedFits, CallsNamed
    <3>4. QED
      BY <2>4, <2>7, <2>8, <2>9, <3>1, <3>2, <3>3, InvParts
  <2>11. CASE ~told.started
    <3>1. /\ engine' = [told EXCEPT !.started = TRUE]
          /\ posted' = NextGeneration(posted) /\ sdk' = "none"
          /\ thread' = [pc |-> "connecting", room |-> told.sfu]
      BY <2>2, <2>11 DEF Start
    <3>2. engine' \in Engine /\ EngineSound(engine') /\ Told(vm', engine')
      BY <2>5, <2>11, <3>1 DEF Engine, EngineSound, Told
    <3>3. VoiceEngineTypeOK
      BY DEF VoiceEngineTypeOK
    <3>4. NextGeneration(posted) \in Seq(Closure)
          /\ \A i \in DOMAIN NextGeneration(posted) : Fits(NextGeneration(posted)[i])
      BY <3>3, GenerationFacts
    <3>5. posted' \in Seq(Closure) /\ PostedFits'
      BY <3>1, <3>4 DEF PostedFits
    <3>6. CallsNamed' /\ thread' \in [pc : {"none", "connecting", "publishing"}, room : Room]
      BY <2>1, <2>6, <2>8, <3>1 DEF CallsNamed, Room
    <3>7. QED
      BY <2>4, <2>7, <2>8, <2>9, <3>1, <3>2, <3>5, <3>6, InvParts
  <2>12. QED
    BY <2>10, <2>11
<1>4. ASSUME NEW v \in ViewModel, v.connected = vm.connected, GoOut(v), env' = env,
             CallsTypeOK', join'.pc # "none" => join'.channel # NoChannel
      PROVE  VoiceInv'
  <2>1. /\ vm' \in ViewModel /\ vm'.active = NoChannel
        /\ engine' \in Engine /\ EngineSound(engine') /\ Told(vm', engine')
        /\ Silent(engine') /\ sdk' = "none"
        /\ posted' \in Seq(Closure) /\ PostedFits'
        /\ \A i \in DOMAIN posted' : ~posted'[i].fresh
        /\ thread' = [pc |-> "none", room |-> NoChannel]
    BY <1>4, GoOutFacts
  <2>2. thread' \in [pc : {"none", "connecting", "publishing"}, room : Room] /\ thread'.pc = "none"
    BY <2>1 DEF Room
  <2>3. CallsNamed' /\ NothingComes(vm)'
    BY <1>4, <2>1, <2>2 DEF CallsNamed, NothingComes, Silent
  <2>4. QED
    BY <1>4, <2>1, <2>2, <2>3, InvParts
<1>5. CASE LeaveAnswered
  <2>1. leave' = NoLeave /\ UNCHANGED <<env, abandon, update, row, events>>
    BY <1>5 DEF LeaveAnswered
  <2>2. NoLeave \in [pc : CallPc, next : Room]
    BY DEF NoLeave, CallPc, Room
  <2>3. CASE leave.pc = "failed"
    <3>1. UNCHANGED <<engineVars, join>> /\ vm' = [vm EXCEPT !.leaving = FALSE]
      BY <1>5, <2>3 DEF LeaveAnswered, engineVars
    <3>2. CallsTypeOK' /\ (join'.pc # "none" => join'.channel # NoChannel)
      BY <2>1, <2>2, <3>1 DEF CallsTypeOK, CallsNamed
    <3>3. QED
      BY <3>1, <3>2, CallsOnly DEF ViewModel
  <2>4. CASE leave.pc = "ok" /\ leave.next = NoChannel
    <3> DEFINE v == [vm EXCEPT !.leaving = FALSE, !.joining = NoChannel]
    <3>1. GoOut(v) /\ join' = join
      BY <1>5, <2>4 DEF LeaveAnswered
    <3>2. v \in ViewModel /\ v.connected = vm.connected
      BY DEF ViewModel, Room
    <3> HIDE DEF v
    <3>3. CallsTypeOK' /\ (join'.pc # "none" => join'.channel # NoChannel)
      BY <2>1, <2>2, <3>1 DEF CallsTypeOK, CallsNamed
    <3>4. QED
      BY <1>4, <2>1, <3>1, <3>2, <3>3
  <2>5. CASE leave.pc = "ok" /\ leave.next # NoChannel
    <3> DEFINE v == [vm EXCEPT !.leaving = FALSE, !.joining = leave.next]
    <3>1. GoOut(v) /\ join' = [pc |-> "sent", channel |-> leave.next, flags |-> vm.flags]
      BY <1>5, <2>5 DEF LeaveAnswered
    <3>2. v \in ViewModel /\ v.connected = vm.connected
      BY DEF ViewModel, CallsTypeOK
    <3> HIDE DEF v
    <3>3. CallsTypeOK' /\ (join'.pc # "none" => join'.channel # NoChannel)
      BY <2>1, <2>2, <2>5, <3>1 DEF CallsTypeOK, CallsNamed, ViewModel, CallPc
    <3>4. QED
      BY <1>4, <2>1, <3>1, <3>2, <3>3
  <2>6. QED
    BY <1>5, <2>3, <2>4, <2>5 DEF LeaveAnswered
<1>6. ASSUME NEW s \in Slot, UpdateAnswered(s)
      PROVE  VoiceInv'
  <2>1. /\ vm' = [vm EXCEPT !.flags = Shown(update[s])]
        /\ engine' = Dispatch(vm', engine) /\ update' = [update EXCEPT ![s] = NoUpdate]
        /\ UNCHANGED <<env, thread, sdk, posted, join, leave, abandon, row, events>>
    BY <1>6 DEF UpdateAnswered
  <2>2. vm' \in ViewModel /\ vm'.active = vm.active /\ vm'.connected = engine.connected
    BY <2>1, ShownTyped DEF ViewModel, Told
  <2>3. /\ engine' \in Engine /\ EngineSound(engine') /\ Told(vm', engine')
        /\ Silent(engine) => Silent(engine')
    BY <2>1, <2>2, DispatchFacts
  <2>4. CallsTypeOK'
    BY <2>1 DEF CallsTypeOK, NoUpdate, CallPc
  <2>5. QED
    BY <2>1, <2>2, <2>3, <2>4, EngineOnly
<1>7. CASE SelfLeaveEvent
  <2>1. events' = Tail(events) /\ GoOut(vm) /\ events # <<>>
        /\ UNCHANGED <<env, join, leave, abandon, update, row>>
    BY <1>7 DEF SelfLeaveEvent
  <2>2. CallsTypeOK' /\ (join'.pc # "none" => join'.channel # NoChannel)
    BY <2>1 DEF CallsTypeOK, CallsNamed
  <2>3. QED
    BY <1>4, <2>1, <2>2
<1>8. CASE Deliver
  <2> DEFINE c == Head(posted)
  <2>1. /\ posted # <<>> /\ posted' = Tail(posted)
        /\ UNCHANGED <<env, thread, join, leave, abandon, update, row, events>>
        /\ sdk' \in {"none", sdk}
        /\ ~c.fresh => UNCHANGED <<vm, engine>> /\ sdk' = sdk
    BY <1>8 DEF Deliver
  <2>2. c \in Closure /\ Fits(c) /\ 1 \in DOMAIN posted /\ c = posted[1]
    BY <2>1 DEF PostedFits
  <2>3. posted' \in Seq(Closure) /\ \A i \in DOMAIN posted' : \E j \in DOMAIN posted : posted'[i] = posted[j]
    BY <2>1
  <2>4. PostedFits' /\ CallsNamed' /\ CallsTypeOK'
    BY <2>1, <2>3 DEF PostedFits, CallsNamed, CallsTypeOK
  <2>5. CASE ~c.fresh
    <3>1. NothingComes(vm)'
      BY <2>1, <2>3, <2>5 DEF NothingComes, Silent
    <3>2. QED
      BY <2>1, <2>3, <2>4, <2>5, <3>1, InvParts
  <2>6. CASE c.fresh
    <3>1. vm.active # NoChannel
      BY <2>2, <2>6 DEF NothingComes
    <3>2. PICK mic \in Mic, works \in SUBSET Track : Notify(vm, engine, Run(engine, c, mic, works))
      BY <1>8, <2>6 DEF Deliver
    <3> DEFINE a == Run(engine, c, mic, works)
    <3>3. /\ a \in Engine
          /\ EngineSound(a) \/ Reconnecting(a)
          /\ a.connected = engine.connected => EngineSound(a)
          /\ a.flags = engine.flags /\ a.transmit = engine.transmit
      BY <2>2, RunFacts
    <3>4. \/ a.connected = engine.connected /\ vm' = vm /\ engine' = a
          \/ /\ a.connected # engine.connected
             /\ vm' = Connected(vm, a.connected) /\ engine' = Dispatch(vm', a)
      BY <3>2 DEF Notify
    <3> HIDE DEF a
    <3>5. /\ vm' \in ViewModel /\ engine' \in Engine
          /\ EngineSound(engine') /\ Told(vm', engine') /\ vm'.active = vm.active
      BY <3>3, <3>4, NotifyFacts
    <3>6. NothingComes(vm)'
      BY <3>1, <3>5 DEF NothingComes
    <3>7. QED
      BY <2>1, <2>3, <2>4, <3>5, <3>6, InvParts
  <2>7. QED
    BY <2>5, <2>6
<1>9. QED
  BY <1>1, <1>2, <1>3, <1>5, <1>6, <1>7, <1>8 DEF Callbacks

-----------------------------------------------------------------------------
(* The theorems. *)

\* The first state.
LEMMA InitFacts ==
  ASSUME VoiceClientInit
  PROVE  VoiceInv
<1>1. vm \in ViewModel /\ vm.active = NoChannel /\ vm.connected = FALSE /\ vm.flags = {}
  BY DEF VoiceClientInit, ViewModel, Room
<1>2. /\ env \in Scenarios /\ engine \in Engine /\ posted = <<>> /\ sdk = "none"
      /\ thread = [pc |-> "none", room |-> NoChannel]
      /\ EngineSound(engine) /\ Silent(engine)
      /\ engine.connected = FALSE /\ engine.flags = {} /\ engine.transmit = FALSE
  BY DEF VoiceClientInit, EngineInit, Engine, EngineSound, Silent, Room
<1>3. CallsTypeOK /\ join.pc = "none"
  <2>1. /\ join = NoJoin /\ leave = NoLeave /\ abandon = FALSE
        /\ update = [s \in Slot |-> NoUpdate]
        /\ row = NoRow /\ events = <<>>
    BY DEF VoiceClientInit
  <2>2. events \in Seq(Channel)
    BY <2>1
  <2>3. QED
    BY <2>1, <2>2 DEF CallsTypeOK, NoJoin, NoLeave, NoUpdate, NoRow, CallPc, Room
<1>4. posted \in Seq(Closure) /\ PostedFits /\ CallsNamed /\ NothingComes(vm)
  BY <1>2, <1>3 DEF PostedFits, CallsNamed, NothingComes
<1>5. thread \in [pc : {"none", "connecting", "publishing"}, room : Room]
  BY <1>2 DEF Room
<1>6. Told(vm, engine)
  BY <1>1, <1>2 DEF Told, TransmitWanted
<1>7. QED
  BY <1>1, <1>2, <1>3, <1>4, <1>5, <1>6
     DEF VoiceInv, VoiceClientTypeOK, VoiceEngineTypeOK, CallsTypeOK

\* Every step.
LEMMA StepFacts ==
  ASSUME VoiceInv, [VoiceClientNext]_vars
  PROVE  VoiceInv'
<1>1. CASE UNCHANGED vars
  <2>1. UNCHANGED engineVars /\ UNCHANGED clientVars
    BY <1>1 DEF vars
  <2>2. CallsTypeOK' /\ (join'.pc # "none" => join'.channel # NoChannel)
    BY <2>1, PartsOfInv DEF clientVars, CallsTypeOK, CallsNamed
  <2>3. QED
    BY <2>1, <2>2, PartsOfInv, CallsOnly DEF clientVars
<1>2. CASE VoiceClientNext
  BY <1>2, UserKeeps, LiveKitKeeps, ServerKeeps, CallbacksKeep DEF VoiceClientNext
<1>3. QED
  BY <1>1, <1>2

\* The invariant, of every behaviour.
THEOREM VoiceInvariant == VoiceClientSpec => []VoiceInv
<1>1. VoiceClientInit => VoiceInv
  BY InitFacts
<1>2. VoiceInv /\ [VoiceClientNext]_vars => VoiceInv'
  BY StepFacts
<1>3. QED
  BY <1>1, <1>2, PTL DEF VoiceClientSpec

\* The variables keep their types.
THEOREM VoiceClientTypes == VoiceClientSpec => []VoiceClientTypeOK
<1>1. VoiceInv => VoiceClientTypeOK
  BY DEF VoiceInv
<1>2. QED
  BY <1>1, VoiceInvariant, PTL

\* The microphone is open in a room and in voice, or not at all: no closure of an
\* earlier connection, however late the event loop runs it, opens it again.
THEOREM MicIsContained == VoiceClientSpec => []MicContained
<1>1. VoiceInv => MicContained
  BY DEF VoiceInv, MicContained, MicOnlyInRoom, SilentOutOfVoice, EngineSound, NothingComes, Silent
<1>2. QED
  BY <1>1, VoiceInvariant, PTL

\* What is captured goes out only if channel, mute, deafen and the push-to-talk key
\* all say so, on whatever path one of them was withdrawn.
THEOREM TransmissionAsAsked == VoiceClientSpec => []TransmitsAsAsked
<1>1. ASSUME VoiceInv
      PROVE  TransmitsAsAsked
  <2>1. /\ engine \in Engine /\ vm \in ViewModel
        /\ EngineSound(engine) /\ Told(vm, engine)
    BY <1>1, PartsOfInv
  <2>2. QED
    BY <2>1 DEF EngineSound, Told, TransmitWanted, TransmitsAsAsked, Engine, ViewModel
<1>2. QED
  BY <1>1, VoiceInvariant, PTL

\* The view model and the engine agree on whether there is a connection.
THEOREM ConnectionAgrees == VoiceClientSpec => []ConnectedAgrees
<1>1. VoiceInv => ConnectedAgrees
  BY DEF VoiceInv, Told, ConnectedAgrees
<1>2. QED
  BY <1>1, VoiceInvariant, PTL

\* Only the answer with the token of a channel leads into a channel.
LEMMA ChannelChanges ==
  ASSUME VoiceInv, VoiceClientNext
  PROVE  vm'.active = vm.active \/ vm'.active = NoChannel \/ TokenIssued
<1> USE PartsOfInv
<1>1. CASE UserStep
  BY <1>1 DEF UserStep, JoinVoice, RequestJoin, SwitchVoice, LeaveVoice, Toggle, SetPtt,
              InputsChanged, OutputsChanged, clientVars, ViewModel
<1>2. CASE (LiveKitStep /\ UNCHANGED clientVars) \/ ServerStep \/ Elsewhere \/ LoseEvent
  BY <1>2 DEF clientVars, ServerStep, ServerJoin, ServerLeave, ServerAbandon, ServerUpdate,
              Elsewhere, LoseEvent
<1>3. CASE JoinAnswered \/ TokenRefused \/ \E s \in Slot : UpdateAnswered(s)
  BY <1>3 DEF JoinAnswered, TokenRefused, UpdateAnswered, ViewModel
<1>4. ASSUME NEW v \in ViewModel, GoOut(v)
      PROVE  vm'.active = NoChannel
  BY <1>4 DEF GoOut, Connected, ReleasePtt, ViewModel
<1>5. CASE SelfLeaveEvent
  BY <1>4, <1>5 DEF SelfLeaveEvent
<1>6. CASE LeaveAnswered
  <2>1. [vm EXCEPT !.leaving = FALSE, !.joining = NoChannel] \in ViewModel
        /\ [vm EXCEPT !.leaving = FALSE, !.joining = leave.next] \in ViewModel
    BY DEF ViewModel, Room, CallsTypeOK
  <2>2. QED
    BY <1>4, <1>6, <2>1 DEF LeaveAnswered, ViewModel
<1>7. CASE Deliver
  BY <1>7 DEF Deliver, Notify, Connected, ReleasePtt, ViewModel
<1>8. QED
  BY <1>1, <1>2, <1>3, <1>5, <1>6, <1>7 DEF VoiceClientNext, Callbacks

\* Entering a channel neither opens the microphone nor lets it through.
LEMMA EnterFacts ==
  ASSUME VoiceInv, VoiceInv', TokenIssued
  PROVE  /\ vm'.active \in Channel
         /\ engine'.capture = engine.capture
         /\ (engine'.capture /\ engine'.transmitting) = (engine.capture /\ engine.transmitting)
<1> DEFINE had == [engine EXCEPT !.sfu = join.channel]
           told == Dispatch(vm', had)
<1>1. /\ engine \in Engine /\ vm \in ViewModel /\ CallsTypeOK /\ CallsNamed
      /\ EngineSound(engine) /\ Told(vm, engine) /\ NothingComes(vm)
  BY PartsOfInv
<1>2. engine' \in Engine /\ vm' \in ViewModel /\ EngineSound(engine') /\ Told(vm', engine')
  BY DEF VoiceInv, VoiceClientTypeOK, VoiceEngineTypeOK, EngineSound, Told, TransmitWanted
<1>3. join.channel \in Channel
  BY <1>1 DEF TokenIssued, CallsNamed, CallsTypeOK, Room
<1>4. vm' = [vm EXCEPT !.active = join.channel, !.joining = NoChannel] /\ Start(told)
  BY DEF TokenIssued
<1>5. vm'.active = join.channel /\ vm'.flags = vm.flags /\ vm'.ptt = vm.ptt
      /\ vm'.connected = vm.connected
  BY <1>1, <1>4 DEF ViewModel
<1>6. had \in Engine /\ had.capture = engine.capture /\ had.started = engine.started
      /\ had.connected = engine.connected /\ EngineSound(had)
  BY <1>1, <1>3 DEF Engine, Room, EngineSound
<1> HIDE DEF had
<1>7. told \in Engine /\ told.capture = engine.capture /\ told.started = engine.started
      /\ told.connected = engine.connected
  BY <1>1, <1>2, <1>5, <1>6, DispatchFacts DEF Told
<1> HIDE DEF told
<1>8. engine'.capture = engine.capture /\ (engine.started => engine'.started)
      /\ engine'.connected = engine.connected
  BY <1>4, <1>7 DEF Start, UpdateTrackMuteState, Engine
<1>9. CASE ~engine.capture
  BY <1>3, <1>5, <1>8, <1>9
<1>10. CASE engine.capture
  <2>1. engine.started /\ engine'.started /\ vm.active # NoChannel /\ vm'.active # NoChannel
    BY <1>1, <1>3, <1>5, <1>8, <1>10, VoiceEngineAssumption DEF EngineSound, NothingComes, Silent
  <2>2. engine'.transmitting = engine.transmitting
    BY <1>1, <1>2, <1>5, <1>8, <2>1 DEF EngineSound, Told, TransmitWanted
  <2>3. QED
    BY <1>3, <1>5, <1>8, <2>2
<1>11. QED
  BY <1>1, <1>9, <1>10 DEF Engine

\* The client implements the voice session of VoiceSession: the microphone opens
\* and goes out only within a session, entering one opens nothing, and leaving one
\* closes it in the same step.
THEOREM SessionRefined == VoiceClientSpec => MicSession
<1> DEFINE sending == engine.capture /\ engine.transmitting
<1>1. VoiceClientInit => Session!Init
  BY DEF VoiceClientInit, EngineInit, Session!Init
<1>2. ASSUME VoiceInv, VoiceInv', [VoiceClientNext]_vars
      PROVE  [Session!Next]_(Session!vars)
  <2>1. /\ vm \in ViewModel /\ engine \in Engine /\ NothingComes(vm)
    BY <1>2, PartsOfInv
  <2>2. vm' \in ViewModel /\ engine' \in Engine
        /\ (vm'.active = NoChannel => ~engine'.capture)
    BY <1>2 DEF VoiceInv, VoiceClientTypeOK, VoiceEngineTypeOK, NothingComes, Silent
  <2>3. engine'.capture \in BOOLEAN /\ engine'.transmitting \in BOOLEAN
    BY <2>2 DEF Engine
  <2>4. CASE UNCHANGED vars
    BY <2>4 DEF vars, engineVars, clientVars, Session!vars
  <2>5. CASE VoiceClientNext /\ TokenIssued
    BY <1>2, <2>5, EnterFacts DEF Session!Next, Session!Enter
  <2>6. CASE vm'.active = NoChannel
    BY <2>2, <2>6 DEF Session!Next, Session!Leave
  <2>7. CASE vm'.active = vm.active /\ vm.active # NoChannel
    BY <2>3, <2>7 DEF Session!Next, Session!Use
  <2>8. QED
    BY <1>2, <2>4, <2>5, <2>6, <2>7, ChannelChanges
<1>3. QED
  BY <1>1, <1>2, VoiceInvariant, PTL DEF VoiceClientSpec, MicSession, Session!Spec

-----------------------------------------------------------------------------
(***************************************************************************)
(* From here on: what the client shows, the room, the channel, the flags   *)
(* and the server's row, and that no capture is lost.                      *)
(***************************************************************************)

(* The calls in flight. *)

Patient == "impatient" \notin env
InTime == env \cap {"late", "elsewhere", "fail"} = {}
NoOverlap == env \cap {"fail", "overlap"} = {}

\* The members that guard a second call are set exactly while one is in flight, and
\* a join and a leave are not in flight together.
CallsPaired ==
    /\ vm.joining # NoChannel <=> join.pc # "none"
    /\ vm.leaving <=> leave.pc # "none"
    /\ join.pc = "none" \/ leave.pc = "none"
    /\ join.pc = "none" => join = NoJoin
    /\ leave.pc = "none" => leave = NoLeave
    /\ \A s \in Slot : update[s].pc = "none" => update[s] = NoUpdate

\* A user who waits joins the channel shown, or the first one.
PatientJoin == Patient => (join.pc # "none" => vm.active \in {join.channel, NoChannel})

\* When nothing fails or comes late, the channel shown is behind the row only while a
\* call is answered, and an event of the row's change is handled before the answer.
RowFollowed ==
    InTime =>
        /\ ~abandon /\ join.pc # "failed" /\ leave.pc # "failed"
        /\ events = <<>> => vm.active \in {row.channel, NoChannel}
        /\ join.pc \in {"ok", "token"} => row.channel = join.channel
        /\ row.channel # NoChannel => vm.active = row.channel \/ join.pc \in {"ok", "token"}
        /\ leave.pc = "ok" => row.channel = NoChannel
        /\ events # <<>> => join.pc = "ok" \/ leave.pc = "ok"

\* A toggle under way asks for the flags shown, but for the one it changes.
AsShown(u) == (vm.flags \ u.changed) \cup (u.flags \cap u.changed) = u.flags

\* When calls do not overlap, the flags of the row are those shown or those asked for.
FlagsFollowed ==
    NoOverlap =>
        /\ NoUpdates \/ (join = NoJoin /\ leave = NoLeave)
        /\ \A s \in Slot : update[s] # NoUpdate =>
              AsShown(update[s]) /\ \A t \in Slot \ {s} : update[t] = NoUpdate
        /\ join.pc = "sent" => join.flags = vm.flags
        /\ row # NoRow =>
              /\ \A s \in Slot : update[s].pc = "ok" => row.flags = update[s].flags
              /\ (\A s \in Slot : update[s].pc # "ok") => row.flags = vm.flags

\* What holds of the calls.
CallsInv == CallsPaired /\ PatientJoin /\ RowFollowed /\ FlagsFollowed

\* What the calls and their answers read of the view model.
ViewKept ==
    /\ vm'.active = vm.active /\ vm'.flags = vm.flags
    /\ vm'.joining = vm.joining /\ vm'.leaving = vm.leaving

\* A step of the engine, or of what goes out.
LEMMA CallsFrame ==
  ASSUME CallsInv, ViewKept, UNCHANGED <<env, join, leave, abandon, update, row, events>>
  PROVE  CallsInv'
BY DEF CallsInv, ViewKept, CallsPaired, PatientJoin, RowFollowed, FlagsFollowed,
       Patient, InTime, NoOverlap, NoUpdates, AsShown

\* What a way out of voice shows.
LEMMA OutView ==
  ASSUME NEW v \in ViewModel, GoOut(v)
  PROVE  /\ vm'.active = NoChannel /\ vm'.flags = v.flags
         /\ vm'.joining = v.joining /\ vm'.leaving = v.leaving
BY DEF GoOut, Connected, ReleasePtt, ViewModel

\* The user starts a call only when none is in flight.
LEMMA UserCalls ==
  ASSUME VoiceInv, CallsInv, UserStep
  PROVE  CallsInv'
<1>1. vm \in ViewModel /\ CallsTypeOK
  BY PartsOfInv
<1>2. ASSUME NEW c \in Channel, JoinVoice(c)
      PROVE  CallsInv'
  <2>1. /\ vm.joining = NoChannel /\ ~vm.leaving /\ c # NoChannel
        /\ "impatient" \in env \/ vm.active \in {c, NoChannel}
        /\ "overlap" \in env \/ NoUpdates
        /\ join' = [pc |-> "sent", channel |-> c, flags |-> vm.flags]
        /\ UNCHANGED <<env, leave, abandon, update, row, events>>
    BY <1>2, VoiceEngineAssumption DEF JoinVoice, RequestJoin, CallsOverlap, engineVars
  <2>2. vm'.joining = c /\ vm'.active = vm.active /\ vm'.flags = vm.flags /\ vm'.leaving = vm.leaving
    BY <1>1, <1>2 DEF JoinVoice, RequestJoin, ViewModel
  <2>3. join.pc = "none" /\ leave.pc = "none"
    BY <2>1 DEF CallsInv, CallsPaired
  <2>4. CallsPaired' /\ PatientJoin'
    BY <2>1, <2>2, <2>3 DEF CallsInv, CallsPaired, PatientJoin, Patient
  <2>5. RowFollowed'
    BY <2>1, <2>2, <2>3 DEF CallsInv, RowFollowed, InTime
  <2>6. FlagsFollowed'
    BY <2>1, <2>2, <2>3 DEF CallsInv, FlagsFollowed, NoOverlap, NoUpdates, AsShown
  <2>7. QED
    BY <2>4, <2>5, <2>6 DEF CallsInv
<1>3. ASSUME NEW n \in Room, vm.joining = NoChannel, ~vm.leaving,
             "overlap" \in env \/ NoUpdates,
             vm' = [vm EXCEPT !.leaving = TRUE], leave' = [pc |-> "sent", next |-> n],
             UNCHANGED <<env, join, abandon, update, row, events>>
      PROVE  CallsInv'
  <2>1. vm'.leaving /\ vm'.active = vm.active /\ vm'.flags = vm.flags /\ vm'.joining = vm.joining
    BY <1>1, <1>3 DEF ViewModel
  <2>2. join.pc = "none" /\ leave.pc = "none"
    BY <1>3 DEF CallsInv, CallsPaired
  <2>3. CallsPaired' /\ PatientJoin'
    BY <1>3, <2>1, <2>2 DEF CallsInv, CallsPaired, PatientJoin, Patient
  <2>4. RowFollowed'
    BY <1>3, <2>1, <2>2 DEF CallsInv, RowFollowed, InTime
  <2>5. FlagsFollowed'
    BY <1>3, <2>1, <2>2 DEF CallsInv, FlagsFollowed, NoOverlap, NoUpdates, AsShown
  <2>6. QED
    BY <2>3, <2>4, <2>5 DEF CallsInv
<1>4. ASSUME NEW c \in Channel, SwitchVoice(c)
      PROVE  CallsInv'
  BY <1>3, <1>4 DEF SwitchVoice, CallsOverlap, engineVars, Room
<1>5. CASE LeaveVoice
  BY <1>3, <1>5 DEF LeaveVoice, CallsOverlap, engineVars, Room
<1>6. ASSUME NEW f \in Flag, Toggle(f)
      PROVE  CallsInv'
  <2> DEFINE u == [pc |-> "sent", changed |-> {f}, flags |-> (vm.flags \cup {f}) \ (vm.flags \cap {f})]
  <2>1. PICK s \in Slot : update[s] = NoUpdate /\ update' = [update EXCEPT ![s] = u]
    BY <1>6 DEF Toggle
  <2>2. /\ "overlap" \in env \/ (join = NoJoin /\ leave = NoLeave /\ NoUpdates)
        /\ UNCHANGED <<env, vm, join, leave, abandon, row, events>>
    BY <1>6 DEF Toggle, CallsOverlap, engineVars
  <2>3. u.pc = "sent" /\ AsShown(u)
    BY <1>1 DEF ViewModel, AsShown
  <2> HIDE DEF u
  <2>4. \A t \in Slot : update'[t] = IF t = s THEN u ELSE update[t]
    BY <1>1, <2>1 DEF CallsTypeOK
  <2>5. CallsPaired' /\ PatientJoin' /\ RowFollowed'
    BY <2>2, <2>3, <2>4 DEF CallsInv, CallsPaired, PatientJoin, Patient, RowFollowed, InTime
  <2>6. FlagsFollowed'
    <3>1. SUFFICES ASSUME NoOverlap
                   PROVE  FlagsFollowed'
      BY <2>2 DEF FlagsFollowed, NoOverlap
    <3>2. join = NoJoin /\ leave = NoLeave /\ \A t \in Slot : update[t] = NoUpdate
      BY <2>2, <3>1 DEF NoOverlap, NoUpdates
    <3>3. row # NoRow => row.flags = vm.flags
      BY <3>1, <3>2 DEF CallsInv, FlagsFollowed, NoUpdate
    <3>4. \A t \in Slot : update'[t].pc # "ok"
      BY <2>3, <2>4, <3>2 DEF NoUpdate
    <3>5. \A t \in Slot : update'[t] # NoUpdate =>
             AsShown(update[t])' /\ \A w \in Slot \ {t} : update'[w] = NoUpdate
      BY <2>2, <2>3, <2>4, <3>2 DEF AsShown
    <3>7. QED
      BY <2>2, <3>1, <3>2, <3>3, <3>4, <3>5 DEF FlagsFollowed, NoJoin
  <2>7. QED
    BY <2>5, <2>6 DEF CallsInv
<1>7. ASSUME NEW p \in {"off", "released", "held"}, SetPtt(p)
      PROVE  CallsInv'
  <2>1. ViewKept /\ UNCHANGED <<env, join, leave, abandon, update, row, events>>
    BY <1>1, <1>7 DEF SetPtt, ViewKept, ViewModel
  <2>2. QED
    BY <2>1, CallsFrame
<1>8. CASE InputsChanged \/ OutputsChanged
  BY <1>8, CallsFrame DEF InputsChanged, OutputsChanged, clientVars, ViewKept
<1>9. QED
  BY <1>2, <1>4, <1>5, <1>6, <1>7, <1>8 DEF UserStep

\* The server gives the row to a call that is in flight, and announces it.
LEMMA ServerCalls ==
  ASSUME VoiceInv, CallsInv, ServerStep \/ Elsewhere \/ LoseEvent
  PROVE  CallsInv'
<1>1. vm \in ViewModel /\ CallsTypeOK /\ events \in Seq(Channel) /\ CallsNamed
  BY PartsOfInv DEF CallsTypeOK
<1>2. row.channel # NoChannel => SelfLeave(row.channel) # <<>>
  <2>1. row.channel # NoChannel => row.channel \in Channel
    BY <1>1 DEF CallsTypeOK, Room
  <2>2. \A c \in Channel : Append(events, c) # <<>>
    BY <1>1, AppendProperties
  <2>3. QED
    BY <2>1, <2>2 DEF SelfLeave
<1>3. CASE ServerJoin
  <2>1. /\ join.pc = "sent" /\ leave.pc = "none" /\ join'.pc \in {"ok", "failed"}
        /\ join'.channel = join.channel /\ join'.flags = join.flags
        /\ UNCHANGED <<env, vm, leave, abandon, update>>
    BY <1>1, <1>3 DEF ServerJoin, engineVars, CallsTypeOK, Outcome, CallsInv, CallsPaired
  <2>2. \/ /\ "fail" \in env /\ UNCHANGED <<row, events>>
        \/ /\ row' = [channel |-> join.channel, flags |-> join.flags]
           /\ events' = IF row.channel = join.channel THEN events ELSE SelfLeave(row.channel)
           /\ "fail" \in env \/ join'.pc = "ok"
    BY <1>1, <1>3 DEF ServerJoin, CallsTypeOK, Outcome
  <2>3. CallsPaired' /\ PatientJoin'
    BY <2>1 DEF CallsInv, CallsPaired, PatientJoin, Patient
  <2>4. RowFollowed'
    <3>1. SUFFICES ASSUME InTime PROVE RowFollowed'
      BY <2>1 DEF RowFollowed, InTime
    <3>2. /\ join'.pc = "ok" /\ row'.channel = join.channel /\ events = <<>>
          /\ events' = IF row.channel = join.channel THEN events ELSE SelfLeave(row.channel)
      BY <2>1, <2>2, <3>1 DEF InTime, CallsInv, RowFollowed
    <3>3. events' = <<>> => vm.active \in {join.channel, NoChannel}
      BY <1>2, <3>1, <3>2 DEF CallsInv, RowFollowed
    <3>4. QED
      BY <2>1, <3>1, <3>2, <3>3 DEF CallsInv, RowFollowed
  <2>5. FlagsFollowed'
    BY <2>1, <2>2 DEF CallsInv, FlagsFollowed, NoOverlap, NoUpdates, NoUpdate, NoJoin, AsShown
  <2>6. QED
    BY <2>3, <2>4, <2>5 DEF CallsInv
<1>4. CASE ServerLeave
  <2>1. /\ leave.pc = "sent" /\ join.pc = "none" /\ leave'.pc \in {"ok", "failed"}
        /\ UNCHANGED <<env, vm, join, abandon, update>>
    BY <1>1, <1>4 DEF ServerLeave, engineVars, CallsTypeOK, Outcome, CallsInv, CallsPaired
  <2>2. \/ /\ "fail" \in env /\ UNCHANGED <<row, events>>
        \/ /\ row' = NoRow /\ events' = SelfLeave(row.channel)
           /\ "fail" \in env \/ leave'.pc = "ok"
    BY <1>1, <1>4 DEF ServerLeave, CallsTypeOK, Outcome, Leaves
  <2>3. CallsPaired' /\ PatientJoin'
    BY <2>1 DEF CallsInv, CallsPaired, PatientJoin, Patient
  <2>4. RowFollowed'
    <3>1. SUFFICES ASSUME InTime PROVE RowFollowed'
      BY <2>1 DEF RowFollowed, InTime
    <3>2. /\ leave'.pc = "ok" /\ row'.channel = NoChannel /\ events = <<>>
          /\ events' = SelfLeave(row.channel)
      BY <2>1, <2>2, <3>1 DEF InTime, CallsInv, RowFollowed, NoRow
    <3>3. events' = <<>> => vm.active = NoChannel
      BY <1>2, <3>1, <3>2 DEF CallsInv, RowFollowed
    <3>4. QED
      BY <2>1, <3>1, <3>2, <3>3 DEF CallsInv, RowFollowed
  <2>5. FlagsFollowed'
    BY <2>1, <2>2 DEF CallsInv, FlagsFollowed, NoOverlap, NoLeave, NoUpdates, AsShown
  <2>6. QED
    BY <2>3, <2>4, <2>5 DEF CallsInv
<1>5. CASE ServerAbandon \/ Elsewhere \/ LoseEvent
  <2>1. /\ UNCHANGED <<env, vm, join, leave, update>> /\ ~InTime
        /\ row' = row \/ row' = NoRow
    BY <1>5 DEF ServerAbandon, Elsewhere, LoseEvent, Leaves, engineVars, InTime, CallsInv, RowFollowed
  <2>2. CallsPaired' /\ PatientJoin' /\ RowFollowed'
    BY <2>1 DEF CallsInv, CallsPaired, PatientJoin, Patient, RowFollowed, InTime
  <2>3. FlagsFollowed'
    BY <2>1 DEF CallsInv, FlagsFollowed, NoOverlap, NoUpdates, AsShown
  <2>4. QED
    BY <2>2, <2>3 DEF CallsInv
<1>6. ASSUME NEW s \in Slot, ServerUpdate(s)
      PROVE  CallsInv'
  <2>1. PICK o \in {"ok", "failed"} :
           /\ update' = [update EXCEPT ![s].pc = o]
           /\ \/ row = NoRow /\ row' = row /\ o = "failed"
              \/ row # NoRow /\ row' = [row EXCEPT !.flags = update[s].flags] /\ ("fail" \in env \/ o = "ok")
    BY <1>6 DEF ServerUpdate, Outcome
  <2>2. update[s].pc = "sent" /\ UNCHANGED <<env, vm, join, leave, abandon, events>>
    BY <1>6 DEF ServerUpdate, engineVars
  <2>3. row'.channel = row.channel /\ (row # NoRow => row'.flags = update[s].flags)
    BY <1>1, <2>1 DEF CallsTypeOK
  <2>4. /\ update'[s].pc = o /\ update'[s].flags = update[s].flags
        /\ update'[s].changed = update[s].changed
        /\ \A t \in Slot \ {s} : update'[t] = update[t]
    BY <1>1, <2>1 DEF CallsTypeOK
  <2>5. CallsPaired' /\ PatientJoin' /\ RowFollowed'
    BY <2>1, <2>2, <2>3, <2>4 DEF CallsInv, CallsPaired, PatientJoin, Patient, RowFollowed, InTime
  <2>6. FlagsFollowed'
    <3>1. SUFFICES ASSUME NoOverlap
                   PROVE  FlagsFollowed'
      BY <2>2 DEF FlagsFollowed, NoOverlap
    <3>2. /\ join = NoJoin /\ leave = NoLeave /\ AsShown(update[s])
          /\ \A t \in Slot \ {s} : update[t] = NoUpdate
      BY <2>2, <3>1 DEF CallsInv, FlagsFollowed, NoUpdates, NoUpdate
    <3>3. \A t \in Slot : update'[t] # NoUpdate => t = s
      BY <2>4, <3>2
    <3>4. AsShown(update[s])'
      BY <2>2, <2>4, <3>2 DEF AsShown
    <3>5. \A t \in Slot \ {s} : update'[t].pc # "ok"
      BY <2>4, <3>2 DEF NoUpdate
    <3>6. row' # NoRow => o = "ok" /\ row'.flags = update'[s].flags
      BY <2>1, <2>3, <2>4, <3>1 DEF NoOverlap
    <3>7. QED
      BY <2>2, <2>4, <3>2, <3>3, <3>4, <3>5, <3>6 DEF FlagsFollowed, NoJoin
  <2>7. QED
    BY <2>5, <2>6 DEF CallsInv
<1>7. QED
  BY <1>3, <1>4, <1>5, <1>6 DEF ServerStep

\* An answer ends its call; the one of a switch starts the join.
LEMMA CallbackCalls ==
  ASSUME VoiceInv, CallsInv, Callbacks
  PROVE  CallsInv'
<1>1. vm \in ViewModel /\ CallsTypeOK /\ events \in Seq(Channel) /\ CallsNamed
  BY PartsOfInv DEF CallsTypeOK
<1>2. NoJoin.pc = "none" /\ NoLeave.pc = "none" /\ NoUpdate.pc = "none"
  BY DEF NoJoin, NoLeave, NoUpdate
<1>3. CASE JoinAnswered /\ join.pc = "ok"
  <2>1. /\ InOrder /\ join' = [join EXCEPT !.pc = "token"]
        /\ UNCHANGED <<env, vm, leave, abandon, update, row, events>>
    BY <1>3 DEF JoinAnswered, engineVars
  <2>2. join'.pc = "token" /\ join'.channel = join.channel
    BY <1>1, <2>1 DEF CallsTypeOK
  <2>3. CallsPaired' /\ PatientJoin'
    BY <1>3, <2>1, <2>2 DEF CallsInv, CallsPaired, PatientJoin, Patient
  <2>4. RowFollowed'
    BY <1>3, <2>1, <2>2 DEF CallsInv, RowFollowed, InTime, InOrder
  <2>5. FlagsFollowed'
    BY <1>2, <1>3, <2>1, <2>2 DEF CallsInv, FlagsFollowed, NoOverlap, NoUpdates, AsShown
  <2>6. QED
    BY <2>3, <2>4, <2>5 DEF CallsInv
<1>4. CASE TokenRefused \/ (JoinAnswered /\ join.pc # "ok")
  <2>1. /\ join.pc # "none" /\ join' = NoJoin /\ vm' = [vm EXCEPT !.joining = NoChannel]
        /\ UNCHANGED <<env, leave, update, row, events>> /\ ~InTime
    BY <1>4 DEF JoinAnswered, TokenRefused, engineVars, InTime, CallsInv, RowFollowed
  <2>2. vm'.joining = NoChannel /\ vm'.active = vm.active /\ vm'.flags = vm.flags /\ vm'.leaving = vm.leaving
    BY <1>1, <2>1 DEF ViewModel
  <2>3. CallsPaired' /\ PatientJoin' /\ RowFollowed'
    BY <1>2, <2>1, <2>2 DEF CallsInv, CallsPaired, PatientJoin, Patient, RowFollowed, InTime
  <2>4. FlagsFollowed'
    BY <1>2, <2>1, <2>2 DEF CallsInv, FlagsFollowed, NoOverlap, NoUpdates, AsShown
  <2>5. QED
    BY <2>3, <2>4 DEF CallsInv
<1>5. CASE TokenIssued
  <2>1. /\ join.pc = "token" /\ InOrder /\ join' = NoJoin
        /\ vm' = [vm EXCEPT !.active = join.channel, !.joining = NoChannel]
        /\ UNCHANGED <<env, leave, abandon, update, row, events>>
    BY <1>5 DEF TokenIssued
  <2>2. vm'.joining = NoChannel /\ vm'.active = join.channel /\ vm'.flags = vm.flags /\ vm'.leaving = vm.leaving
    BY <1>1, <2>1 DEF ViewModel
  <2>3. CallsPaired' /\ PatientJoin'
    BY <1>2, <2>1, <2>2 DEF CallsInv, CallsPaired, PatientJoin, Patient
  <2>4. RowFollowed'
    BY <1>2, <2>1, <2>2 DEF CallsInv, CallsPaired, RowFollowed, InTime, InOrder
  <2>5. FlagsFollowed'
    BY <1>2, <2>1, <2>2 DEF CallsInv, FlagsFollowed, NoOverlap, NoUpdates, AsShown
  <2>6. QED
    BY <2>3, <2>4, <2>5 DEF CallsInv
<1>6. CASE LeaveAnswered /\ leave.pc = "failed"
  <2>1. /\ leave' = NoLeave /\ vm' = [vm EXCEPT !.leaving = FALSE]
        /\ UNCHANGED <<env, join, abandon, update, row, events>> /\ ~InTime /\ leave.pc # "none"
    BY <1>6 DEF LeaveAnswered, InTime, CallsInv, RowFollowed
  <2>2. ~vm'.leaving /\ vm'.active = vm.active /\ vm'.flags = vm.flags /\ vm'.joining = vm.joining
    BY <1>1, <2>1 DEF ViewModel
  <2>3. CallsPaired' /\ PatientJoin' /\ RowFollowed'
    BY <1>2, <2>1, <2>2 DEF CallsInv, CallsPaired, PatientJoin, Patient, RowFollowed, InTime
  <2>4. FlagsFollowed'
    BY <1>2, <2>1, <2>2 DEF CallsInv, FlagsFollowed, NoOverlap, NoUpdates, AsShown
  <2>5. QED
    BY <2>3, <2>4 DEF CallsInv
<1>7. CASE LeaveAnswered /\ leave.pc # "failed"
  <2> DEFINE v == [vm EXCEPT !.leaving = FALSE, !.joining = leave.next]
  <2>1. /\ leave.pc = "ok" /\ join.pc = "none" /\ leave' = NoLeave /\ GoOut(v) /\ InOrder
        /\ UNCHANGED <<env, abandon, update, row, events>>
        /\ \/ leave.next = NoChannel /\ join' = join
           \/ leave.next # NoChannel /\ join' = [pc |-> "sent", channel |-> leave.next, flags |-> vm.flags]
    BY <1>7 DEF LeaveAnswered, CallsInv, CallsPaired
  <2>2. v \in ViewModel /\ v.joining = leave.next /\ ~v.leaving /\ v.flags = vm.flags
    BY <1>1 DEF ViewModel, CallsTypeOK
  <2> HIDE DEF v
  <2>3. /\ vm'.active = NoChannel /\ vm'.flags = vm.flags /\ vm'.joining = leave.next /\ ~vm'.leaving
    BY <2>1, <2>2, OutView
  <2>4. CallsPaired' /\ PatientJoin'
    BY <1>2, <2>1, <2>3 DEF CallsInv, CallsPaired, PatientJoin, Patient
  <2>5. RowFollowed'
    BY <1>2, <2>1, <2>3 DEF CallsInv, RowFollowed, InTime, InOrder
  <2>6. FlagsFollowed'
    BY <1>2, <2>1, <2>3 DEF CallsInv, CallsPaired, FlagsFollowed, NoOverlap, NoUpdates, AsShown
  <2>7. QED
    BY <2>4, <2>5, <2>6 DEF CallsInv
<1>8. ASSUME NEW s \in Slot, UpdateAnswered(s)
      PROVE  CallsInv'
  <2>1. /\ update[s].pc \in {"ok", "failed"} /\ update' = [update EXCEPT ![s] = NoUpdate]
        /\ vm' = [vm EXCEPT !.flags = Shown(update[s])]
        /\ UNCHANGED <<env, join, leave, abandon, row, events>>
    BY <1>8 DEF UpdateAnswered
  <2>2. /\ vm'.flags = Shown(update[s])
        /\ vm'.active = vm.active /\ vm'.joining = vm.joining /\ vm'.leaving = vm.leaving
    BY <1>1, <2>1 DEF ViewModel
  <2>3. \A t \in Slot : update'[t] = IF t = s THEN NoUpdate ELSE update[t]
    BY <1>1, <2>1 DEF CallsTypeOK
  <2>4. CallsPaired' /\ PatientJoin' /\ RowFollowed'
    BY <1>2, <2>1, <2>2, <2>3 DEF CallsInv, CallsPaired, PatientJoin, Patient, RowFollowed, InTime
  <2>5. FlagsFollowed'
    <3>1. SUFFICES ASSUME NoOverlap
                   PROVE  FlagsFollowed'
      BY <2>1 DEF FlagsFollowed, NoOverlap
    <3>2. /\ join = NoJoin /\ leave = NoLeave /\ AsShown(update[s])
          /\ \A t \in Slot \ {s} : update[t] = NoUpdate
      BY <2>1, <3>1 DEF CallsInv, FlagsFollowed, NoUpdates, NoUpdate
    <3>3. \A t \in Slot : update'[t] = NoUpdate
      BY <2>3, <3>2
    <3>4. CASE update[s].pc = "ok"
      <4>1. Shown(update[s]) = update[s].flags
        BY <3>2, <3>4 DEF Shown, AsShown
      <4>2. row # NoRow => row.flags = vm'.flags
        BY <2>2, <3>1, <3>4, <4>1 DEF CallsInv, FlagsFollowed
      <4>3. QED
        BY <1>2, <2>1, <3>2, <3>3, <4>2 DEF FlagsFollowed
    <3>5. CASE update[s].pc # "ok"
      <4>1. \A t \in Slot : update[t].pc # "ok"
        BY <1>2, <3>2, <3>5
      <4>2. row # NoRow => row.flags = vm'.flags
        BY <2>2, <3>1, <3>5, <4>1 DEF CallsInv, FlagsFollowed, Shown
      <4>3. QED
        BY <1>2, <2>1, <3>2, <3>3, <4>2 DEF FlagsFollowed
    <3>6. QED
      BY <3>4, <3>5
  <2>6. QED
    BY <2>4, <2>5 DEF CallsInv
<1>9. CASE SelfLeaveEvent
  <2>1. /\ events # <<>> /\ GoOut(vm) /\ events' = Tail(events)
        /\ UNCHANGED <<env, join, leave, abandon, update, row>>
    BY <1>9 DEF SelfLeaveEvent
  <2>2. vm'.active = NoChannel /\ vm'.flags = vm.flags /\ vm'.joining = vm.joining /\ vm'.leaving = vm.leaving
    BY <1>1, <2>1, OutView
  <2>3. CallsPaired' /\ PatientJoin' /\ FlagsFollowed'
    BY <2>1, <2>2 DEF CallsInv, CallsPaired, PatientJoin, Patient, FlagsFollowed, NoOverlap, NoUpdates, AsShown
  <2>4. RowFollowed'
    BY <2>1, <2>2 DEF CallsInv, CallsPaired, RowFollowed, InTime
  <2>5. QED
    BY <2>3, <2>4 DEF CallsInv
<1>10. CASE Deliver
  <2>1. ViewKept
    BY <1>1, <1>10 DEF Deliver, Notify, Connected, ReleasePtt, ViewModel, ViewKept
  <2>2. QED
    BY <1>10, <2>1, CallsFrame DEF Deliver
<1>11. QED
  BY <1>3, <1>4, <1>5, <1>6, <1>7, <1>8, <1>9, <1>10 DEF Callbacks

-----------------------------------------------------------------------------
(* The room. *)

\* LiveKit neither reconnects nor closes the room early.
Steady == env \cap {"reconnect", "down"} = {}

\* A closure of one of these kinds waits that is of this generation.
Waits(kinds) == \E i \in DOMAIN posted : posted[i].fresh /\ posted[i].kind \in kinds

\* The room is that of the channel shown, in the engine, in the thread that connects
\* and in the closure that brings it from the one to the other.
RoomShown ==
    Patient \/ InTime =>
        /\ engine.room # NoChannel => engine.room = vm.active
        /\ thread.pc # "none" => thread.room = vm.active
        /\ \A i \in DOMAIN posted :
              posted[i].fresh /\ posted[i].kind = "room" => posted[i].arg = vm.active

\* A connection is announced before its room is handed over, and is handed over or
\* fails once.
QueueOrdered ==
    \A i, j \in DOMAIN posted :
        posted[i].fresh /\ posted[j].fresh =>
            /\ posted[i].kind = "room" /\ posted[j].kind = "connected" => j < i
            /\ posted[i].kind \in {"room", "error"} /\ posted[j].kind \in {"room", "error"}
                  => i = j

\* While LiveKit neither reconnects nor closes the room, a microphone that is open has
\* a room, and with a room nothing is under way that opens it a second time.
OpensOnce ==
    Steady =>
        /\ ~engine.leaked /\ sdk # "reconnecting"
        /\ QueueOrdered
        /\ ~Waits({"reconnecting", "disconnected"})
        /\ thread.pc # "none" \/ engine.room # NoChannel =>
              engine.started /\ ~Waits({"room", "error"})
        /\ engine.room # NoChannel => thread.pc = "none"
        /\ engine.room # NoChannel \/ thread.pc = "connecting" => ~Waits({"connected"})
        /\ Waits({"room"}) => engine.started

\* What is shown is so, with what is on its way to be shown.
ViewInv == CallsInv /\ RoomShown /\ OpensOnce

\* What the view reads of the engine, and dispatchAudioSettingsToBridge leaves alone.
LEMMA DispatchRoom ==
  ASSUME NEW v \in ViewModel, NEW e \in Engine, NEW d, d = Dispatch(v, e)
  PROVE  /\ d \in Engine /\ d.room = e.room /\ d.started = e.started
         /\ d.leaked = e.leaked /\ d.sfu = e.sfu
<1> DEFINE want == TransmitWanted(v)
           told == [e EXCEPT !.flags = v.flags, !.transmit = want]
           b == told.started /\ told.connected /\ told.transmit /\ told.flags = {}
<1>1. want \in BOOLEAN /\ v.flags \in SUBSET Flag /\ b \in BOOLEAN
  BY DEF TransmitWanted, ViewModel
<1>2. d = told \/ d = [told EXCEPT !.transmitting = b]
  BY DEF Dispatch, UpdateTrackMuteState
<1> HIDE DEF want, b
<1>3. /\ told \in Engine /\ told.room = e.room /\ told.started = e.started
      /\ told.leaked = e.leaked /\ told.sfu = e.sfu
  BY <1>1 DEF Engine
<1> HIDE DEF told
<1>4. QED
  BY <1>1, <1>2, <1>3 DEF Engine

\* stop() and a lost connection leave no room, and lose no capture.
LEMMA DisconnectedRoom ==
  ASSUME NEW e \in Engine, NEW d, d = HandleDisconnected(e)
  PROVE  d \in Engine /\ d.room = NoChannel /\ ~d.started /\ d.leaked = e.leaked
BY DEF HandleDisconnected, StopRoom, StopAllRemotePlaybacks, StopInputCapture, Engine, Room

\* A capture is lost only when one is started over another.
LEMMA CaptureRoom ==
  ASSUME NEW e \in Engine, NEW mic, NEW s, s = StartInputCapture(e, mic)
  PROVE  /\ s \in Engine /\ s.room = e.room /\ s.started = e.started
         /\ ~e.capture => s.leaked = e.leaked
<1> DEFINE opened == mic = "ok"
           left == e.leaked \/ e.capture
<1>1. opened \in BOOLEAN /\ left \in BOOLEAN
  OBVIOUS
<1>2. s = e \/ s = [e EXCEPT !.capture = opened, !.leaked = left]
  BY DEF StartInputCapture
<1>3. ~e.capture => left = e.leaked
  BY DEF Engine
<1> HIDE DEF opened, left
<1>4. QED
  BY <1>1, <1>2, <1>3 DEF Engine

\* What a closure does to the room.
LEMMA RunRoom ==
  ASSUME NEW e \in Engine, NEW c \in Closure, NEW mic, NEW works, EngineSound(e), Fits(c),
         NEW after, after = Run(e, c, mic, works)
  PROVE  /\ after.started = (e.started /\ c.kind \notin {"error", "disconnected"})
         /\ c.kind = "room" => after.room = c.arg
         /\ c.kind \in {"error", "disconnected"} => after.room = NoChannel
         /\ c.kind \notin {"room", "error", "disconnected"} => after.room = e.room
         /\ ~e.capture \/ c.kind \notin {"room", "connected"} => after.leaked = e.leaked
<1>1. ASSUME NEW x \in Engine, NEW h, h = HandleConnected(x, mic)
      PROVE  /\ h.started = x.started /\ h.room = x.room
             /\ ~x.capture => h.leaked = x.leaked
  <2> DEFINE on == [x EXCEPT !.connected = TRUE]
             s == StartInputCapture(on, mic)
             b == s.started /\ s.connected /\ s.transmit /\ s.flags = {}
  <2>1. h = x \/ h = [s EXCEPT !.transmitting = b]
    BY <1>1 DEF HandleConnected, UpdateTrackMuteState
  <2>2. /\ on \in Engine /\ on.started = x.started /\ on.room = x.room
        /\ on.leaked = x.leaked /\ on.capture = x.capture
    BY DEF Engine
  <2> HIDE DEF on
  <2>3. /\ s \in Engine /\ s.room = on.room /\ s.started = on.started
        /\ ~on.capture => s.leaked = on.leaked
    BY <2>2, CaptureRoom
  <2> HIDE DEF s, b
  <2>4. QED
    BY <2>1, <2>2, <2>3 DEF Engine
<1>2. CASE c.kind = "room"
  <2> DEFINE in == [e EXCEPT !.room = c.arg]
  <2>1. /\ in \in Engine /\ in.started = e.started /\ in.room = c.arg
        /\ in.leaked = e.leaked /\ in.capture = e.capture
    BY <1>2 DEF Engine, Room, Fits
  <2>2. after = HandleConnected(in, mic)
    BY <1>2 DEF Run
  <2> HIDE DEF in
  <2>3. QED
    BY <1>1, <1>2, <2>1, <2>2 DEF Engine
<1>3. CASE c.kind = "connected"
  BY <1>1, <1>3 DEF Run, Engine
<1>4. CASE c.kind \in {"error", "disconnected"}
  <2>1. after = HandleDisconnected(e)
    BY <1>4 DEF Run
  <2>2. QED
    BY <1>4, <2>1, DisconnectedRoom DEF Engine
<1>5. CASE c.kind = "reconnecting"
  BY <1>5 DEF Run, Engine
<1>6. CASE c.kind = "subscribed"
  <2> DEFINE heard == IF c.arg \in works THEN e.playbacks \cup {c.arg} ELSE e.playbacks \ {c.arg}
  <2>1. after = [e EXCEPT !.tracks = @ \cup {c.arg}, !.playbacks = heard]
    BY <1>6 DEF Run, HandleTrackSubscribed
  <2> HIDE DEF heard
  <2>2. QED
    BY <1>6, <2>1 DEF Engine
<1>7. CASE c.kind = "unsubscribed"
  <2>1. after = HandleTrackUnsubscribed(e, c.arg)
    BY <1>7 DEF Run
  <2>2. QED
    BY <1>7, <2>1 DEF HandleTrackUnsubscribed, Engine
<1>8. QED
  BY <1>2, <1>3, <1>4, <1>5, <1>6, <1>7 DEF Closure, Kind

\* A step that leaves the room, the thread and the queue alone.
LEMMA RoomFrame ==
  ASSUME RoomShown, OpensOnce, UNCHANGED <<env, thread, sdk, posted>>,
         vm'.active = vm.active, engine'.room = engine.room,
         engine'.started = engine.started, engine'.leaked = engine.leaked
  PROVE  RoomShown' /\ OpensOnce'
BY DEF RoomShown, OpensOnce, QueueOrdered, Waits, Patient, InTime, Steady

\* A step after which nothing is under way.
LEMMA RoomLeft ==
  ASSUME OpensOnce, env' = env, engine'.room = NoChannel, engine'.leaked = engine.leaked,
         thread'.pc = "none", sdk' = "none", \A i \in DOMAIN posted' : ~posted'[i].fresh
  PROVE  RoomShown' /\ OpensOnce'
BY DEF RoomShown, OpensOnce, QueueOrdered, Waits, Patient, InTime, Steady

\* Every way out of voice is one.
LEMMA OutRoom ==
  ASSUME VoiceInv, OpensOnce, NEW v \in ViewModel, v.connected = vm.connected, GoOut(v), env' = env
  PROVE  RoomShown' /\ OpensOnce'
<1> DEFINE off == Connected(v, FALSE)
           told == Dispatch(off, engine)
<1>1. off \in ViewModel /\ engine \in Engine
  BY PartsOfInv DEF Connected, ReleasePtt, ViewModel
<1>2. engine' = HandleDisconnected(told)
  BY DEF GoOut, Stop
<1> HIDE DEF off
<1>3. told \in Engine /\ told.leaked = engine.leaked
  BY <1>1, DispatchRoom
<1> HIDE DEF told
<1>4. engine'.room = NoChannel /\ engine'.leaked = engine.leaked
  BY <1>2, <1>3, DisconnectedRoom
<1>5. thread'.pc = "none" /\ sdk' = "none" /\ \A i \in DOMAIN posted' : ~posted'[i].fresh
  BY GoOutFacts
<1>6. QED
  BY <1>4, <1>5, RoomLeft

\* A closure queued is the last.
LEMMA PostRoom ==
  ASSUME posted \in Seq(Closure), NEW kind, NEW arg, posted' = Post(kind, arg)
  PROVE  /\ \A i \in DOMAIN posted' :
              \/ i \in DOMAIN posted /\ posted'[i] = posted[i]
              \/ i = Len(posted) + 1 /\ posted'[i].kind = kind /\ posted'[i].arg = arg
         /\ \A i \in DOMAIN posted : i \in Nat /\ i < Len(posted) + 1
<1> DEFINE c == [kind |-> kind, fresh |-> TRUE, arg |-> arg]
<1>1. posted' = Append(posted, c) /\ c.kind = kind /\ c.arg = arg
  BY DEF Post
<1> HIDE DEF c
<1>2. /\ DOMAIN posted = 1..Len(posted) /\ Len(posted) \in Nat
      /\ DOMAIN Append(posted, c) = 1..(Len(posted) + 1)
      /\ \A i \in 1..Len(posted) : Append(posted, c)[i] = posted[i]
      /\ Append(posted, c)[Len(posted) + 1] = c
  OBVIOUS
<1>3. QED
  BY <1>1, <1>2

\* A closure leaves the queue.
LEMMA TailRoom ==
  ASSUME posted \in Seq(Closure), posted # <<>>, posted' = Tail(posted)
  PROVE  /\ \A i \in DOMAIN posted' :
              i \in Nat /\ i >= 1 /\ i + 1 \in DOMAIN posted /\ posted'[i] = posted[i + 1]
         /\ 1 \in DOMAIN posted /\ posted[1] = Head(posted)
OBVIOUS

\* The user does nothing to the room, and restarts a capture that was stopped.
LEMMA UserRoom ==
  ASSUME VoiceInv, RoomShown, OpensOnce, UserStep
  PROVE  RoomShown' /\ OpensOnce'
<1>1. vm \in ViewModel /\ engine \in Engine
  BY PartsOfInv
<1>2. ASSUME NEW c \in Channel, JoinVoice(c) \/ SwitchVoice(c)
      PROVE  RoomShown' /\ OpensOnce'
  BY <1>1, <1>2, RoomFrame DEF JoinVoice, RequestJoin, SwitchVoice, engineVars, ViewModel
<1>3. CASE LeaveVoice
  BY <1>1, <1>3, RoomFrame DEF LeaveVoice, engineVars, ViewModel
<1>4. ASSUME NEW f \in Flag, Toggle(f)
      PROVE  RoomShown' /\ OpensOnce'
  BY <1>4, RoomFrame DEF Toggle, engineVars
<1>5. ASSUME NEW p \in {"off", "released", "held"}, SetPtt(p)
      PROVE  RoomShown' /\ OpensOnce'
  <2>1. /\ vm' \in ViewModel /\ vm'.active = vm.active /\ engine' = Dispatch(vm', engine)
        /\ UNCHANGED <<env, thread, sdk, posted>>
    BY <1>1, <1>5 DEF SetPtt, ViewModel
  <2>2. /\ engine'.room = engine.room /\ engine'.started = engine.started
        /\ engine'.leaked = engine.leaked
    BY <1>1, <2>1, DispatchRoom
  <2>3. QED
    BY <2>1, <2>2, RoomFrame
<1>6. CASE InputsChanged
  <2> DEFINE stopped == StopInputCapture(engine)
  <2>1. PICK mic \in Mic : engine' = StartInputCapture(stopped, mic)
    BY <1>6 DEF InputsChanged, RestartInputCapture
  <2>2. /\ stopped \in Engine /\ ~stopped.capture /\ stopped.room = engine.room
        /\ stopped.started = engine.started /\ stopped.leaked = engine.leaked
    BY <1>1 DEF StopInputCapture, Engine
  <2> HIDE DEF stopped
  <2>3. /\ engine'.room = engine.room /\ engine'.started = engine.started
        /\ engine'.leaked = engine.leaked
    BY <2>1, <2>2, CaptureRoom
  <2>4. QED
    BY <1>6, <2>3, RoomFrame DEF InputsChanged, clientVars
<1>7. CASE OutputsChanged
  <2>1. PICK works \in SUBSET Track : engine' = [engine EXCEPT !.playbacks = engine.tracks \cap works]
    BY <1>7 DEF OutputsChanged, RebuildRemotePlaybacks
  <2>2. QED
    BY <1>1, <1>7, <2>1, RoomFrame DEF OutputsChanged, clientVars, Engine
<1>8. QED
  BY <1>2, <1>3, <1>4, <1>5, <1>6, <1>7 DEF UserStep

\* Connecting announces the connection, then hands the room over; without lost
\* connections nothing else does.
LEMMA LiveKitRoom ==
  ASSUME VoiceInv, RoomShown, OpensOnce, LiveKitStep, UNCHANGED clientVars
  PROVE  RoomShown' /\ OpensOnce'
<1>1. posted \in Seq(Closure) /\ vm' = vm
  BY PartsOfInv DEF clientVars
<1>2. ASSUME UNCHANGED <<env, engine>>, NEW kind, NEW arg, posted' = Post(kind, arg),
             \/ thread' = thread \/ thread'.pc = "none"
             \/ thread.pc # "none" /\ thread'.room = thread.room,
             kind = "room" => thread.pc # "none" /\ arg = thread.room
      PROVE  RoomShown'
  <2>1. \A i \in DOMAIN posted' :
           \/ i \in DOMAIN posted /\ posted'[i] = posted[i]
           \/ posted'[i].kind = kind /\ posted'[i].arg = arg
    BY <1>1, <1>2, PostRoom
  <2>2. thread'.pc # "none" => thread.pc # "none" /\ thread'.room = thread.room
    BY <1>2
  <2>3. QED
    BY <1>1, <1>2, <2>1, <2>2 DEF RoomShown, Patient, InTime
<1>3. ASSUME Steady, UNCHANGED <<env, engine>>, NEW kind, NEW arg, posted' = Post(kind, arg),
             sdk' \in {sdk, "up"},
             \/ kind \in {"subscribed", "unsubscribed"} /\ thread' = thread
             \/ kind = "connected" /\ thread.pc = "connecting" /\ thread'.pc = "publishing"
             \/ kind = "error" /\ thread.pc # "none" /\ thread'.pc = "none"
             \/ kind = "room" /\ thread.pc = "publishing" /\ thread'.pc = "none"
      PROVE  OpensOnce'
  <2>1. \A i \in DOMAIN posted' :
           \/ i \in DOMAIN posted /\ posted'[i] = posted[i] /\ i \in Nat /\ i < Len(posted) + 1
           \/ i = Len(posted) + 1 /\ posted'[i].kind = kind
    BY <1>1, <1>3, PostRoom
  <2>2. /\ ~engine.leaked /\ sdk # "reconnecting"
        /\ QueueOrdered
        /\ ~Waits({"reconnecting", "disconnected"})
        /\ thread.pc # "none" => engine.started /\ ~Waits({"room", "error"})
        /\ engine.room # NoChannel => engine.started /\ ~Waits({"room", "error"})
        /\ engine.room # NoChannel => thread.pc = "none"
        /\ engine.room # NoChannel => ~Waits({"connected"})
        /\ thread.pc = "connecting" => ~Waits({"connected"})
        /\ Waits({"room"}) => engine.started
    BY <1>3 DEF OpensOnce
  <2>3. \A kinds : kind \notin kinds /\ ~Waits(kinds) => ~Waits(kinds)'
    BY <2>1 DEF Waits
  <2>4. QueueOrdered'
    <3>1. CASE kind \in {"room", "error"}
      <4>1. ~Waits({"room", "error"})
        BY <1>3, <2>2, <3>1
      <4>2. \A i \in DOMAIN posted' :
              posted'[i].fresh /\ posted'[i].kind \in {"room", "error"} => i = Len(posted) + 1
        BY <2>1, <4>1 DEF Waits
      <4>3. \A i \in DOMAIN posted' : posted'[i].kind = "connected" => i < Len(posted) + 1
        BY <2>1, <3>1
      <4>4. QED
        BY <4>2, <4>3 DEF QueueOrdered
    <3>2. CASE kind = "connected"
      <4>1. ~Waits({"room", "error"})
        BY <1>3, <2>2, <3>2
      <4>2. \A i \in DOMAIN posted' : posted'[i].fresh => posted'[i].kind \notin {"room", "error"}
        BY <2>1, <3>2, <4>1 DEF Waits
      <4>3. QED
        BY <4>2 DEF QueueOrdered
    <3>3. CASE kind \notin {"room", "error", "connected"}
      BY <2>1, <2>2, <3>3 DEF QueueOrdered
    <3>4. QED
      BY <3>1, <3>2, <3>3
  <2>5. ~Waits({"reconnecting", "disconnected"})'
    BY <1>3, <2>2, <2>3
  <2>6. thread'.pc # "none" \/ engine.room # NoChannel => engine.started /\ ~Waits({"room", "error"})'
    BY <1>3, <2>2, <2>3
  <2>7. engine.room # NoChannel => thread'.pc = "none"
    BY <1>3, <2>2
  <2>8. engine.room # NoChannel \/ thread'.pc = "connecting" => ~Waits({"connected"})'
    BY <1>3, <2>2, <2>3
  <2>9. Waits({"room"})' => engine.started
    BY <1>3, <2>2, <2>3
  <2>10. QED
    BY <1>3, <2>2, <2>4, <2>5, <2>6, <2>7, <2>8, <2>9 DEF OpensOnce
<1>4. ~Steady /\ env' = env => OpensOnce'
  BY DEF OpensOnce, Steady
<1>5. CASE Connect
  <2>1. /\ UNCHANGED <<env, engine>> /\ thread.pc = "connecting"
        /\ \/ /\ thread' = [thread EXCEPT !.pc = "publishing"] /\ sdk' = "up"
              /\ posted' = posted \/ posted' = Post("connected", NoChannel)
           \/ /\ thread' = [pc |-> "none", room |-> NoChannel] /\ sdk' = sdk
              /\ posted' = Post("error", NoChannel)
    BY <1>5 DEF Connect
  <2>2. thread' = [thread EXCEPT !.pc = "publishing"] =>
           thread'.pc = "publishing" /\ thread'.room = thread.room
    BY PartsOfInv
  <2>3. CASE posted' = posted
    <3>1. thread'.pc # "connecting" /\ (thread'.pc # "none" => thread'.room = thread.room)
          /\ sdk' \in {sdk, "up"}
      BY <2>1, <2>2
    <3>2. RoomShown'
      BY <1>1, <2>1, <2>3, <3>1 DEF RoomShown, Patient, InTime
    <3>3. OpensOnce'
      BY <2>1, <2>3, <3>1 DEF OpensOnce, Steady, QueueOrdered, Waits
    <3>4. QED
      BY <3>2, <3>3
  <2>4. CASE posted' # posted
    <3>1. RoomShown'
      BY <1>2, <2>1, <2>2, <2>4
    <3>2. Steady => OpensOnce'
      BY <1>3, <2>1, <2>2, <2>4
    <3>3. QED
      BY <1>4, <2>1, <3>1, <3>2
  <2>5. QED
    BY <2>3, <2>4
<1>6. CASE Publish
  <2>1. /\ UNCHANGED <<env, engine, sdk>> /\ thread.pc = "publishing"
        /\ thread' = [pc |-> "none", room |-> NoChannel] /\ thread'.pc = "none"
        /\ posted' = Post("room", thread.room) \/ posted' = Post("error", NoChannel)
    BY <1>6 DEF Publish
  <2>2. RoomShown'
    BY <1>2, <2>1
  <2>3. Steady => OpensOnce'
    BY <1>3, <2>1
  <2>4. QED
    BY <1>4, <2>1, <2>2, <2>3
<1>7. ASSUME NEW kind \in {"reconnecting", "connected", "disconnected", "subscribed", "unsubscribed"},
             NEW arg, NEW state, Callback(kind, arg, state),
             \/ ~Steady
             \/ sdk = "reconnecting"
             \/ kind \in {"subscribed", "unsubscribed"} /\ state = sdk
      PROVE  RoomShown' /\ OpensOnce'
  <2>1. UNCHANGED <<env, engine, thread>> /\ posted' = Post(kind, arg) /\ sdk' = state
    BY <1>7 DEF Callback
  <2>2. RoomShown'
    BY <1>2, <1>7, <2>1
  <2>3. Steady => kind \in {"subscribed", "unsubscribed"} /\ state = sdk
    BY <1>7 DEF OpensOnce
  <2>4. Steady => OpensOnce'
    BY <1>3, <2>1, <2>3
  <2>5. QED
    BY <1>4, <2>1, <2>2, <2>4
<1>8. CASE LoseRoom \/ RegainRoom \/ EndRoom
  BY <1>7, <1>8 DEF LoseRoom, RegainRoom, EndRoom, Steady
<1>9. ASSUME NEW t \in Track, Subscribe(t) \/ Unsubscribe(t)
      PROVE  RoomShown' /\ OpensOnce'
  BY <1>7, <1>9 DEF Subscribe, Unsubscribe
<1>10. QED
  BY <1>5, <1>6, <1>8, <1>9 DEF LiveKitStep

\* The answer with the token finds the engine in the room of that channel or out of
\* voice: a patient user asked for no other, and a switch or a leave that is answered
\* in time has stopped it before.
LEMMA EnterRoom ==
  ASSUME VoiceInv, CallsInv, RoomShown, OpensOnce, TokenIssued
  PROVE  RoomShown' /\ OpensOnce'
<1> DEFINE had == [engine EXCEPT !.sfu = join.channel]
           told == Dispatch(vm', had)
<1>1. /\ vm \in ViewModel /\ engine \in Engine /\ CallsTypeOK /\ NothingComes(vm)
  BY PartsOfInv
<1>2. /\ env' = env /\ join.pc = "token" /\ InOrder /\ Start(told)
      /\ vm' = [vm EXCEPT !.active = join.channel, !.joining = NoChannel]
  BY DEF TokenIssued
<1>3. vm' \in ViewModel /\ vm'.active = join.channel
  BY <1>1, <1>2 DEF ViewModel, CallsTypeOK, Room
<1>4. /\ had \in Engine /\ had.room = engine.room /\ had.started = engine.started
      /\ had.leaked = engine.leaked /\ had.sfu = join.channel
  BY <1>1 DEF Engine, CallsTypeOK
<1> HIDE DEF had
<1>5. /\ told \in Engine /\ told.room = engine.room /\ told.started = engine.started
      /\ told.leaked = engine.leaked /\ told.sfu = join.channel
  BY <1>3, <1>4, DispatchRoom
<1> HIDE DEF told
<1>6. Patient \/ InTime => vm.active \in {join.channel, NoChannel}
  BY <1>2 DEF CallsInv, PatientJoin, RowFollowed, InTime, InOrder
<1>7. /\ \/ told.started /\ UNCHANGED <<thread, sdk, posted>>
         \/ /\ ~told.started /\ posted' = NextGeneration(posted) /\ sdk' = "none"
            /\ thread' = [pc |-> "connecting", room |-> told.sfu]
      /\ engine' = UpdateTrackMuteState(told) \/ engine' = [told EXCEPT !.started = TRUE]
      /\ told.started => engine' = UpdateTrackMuteState(told)
      /\ ~told.started => engine' = [told EXCEPT !.started = TRUE]
  BY <1>2 DEF Start
<1>8. CASE engine.started
  <2>1. engine' = UpdateTrackMuteState(told) /\ UNCHANGED <<thread, sdk, posted>>
    BY <1>5, <1>7, <1>8
  <2>2. /\ engine'.room = engine.room /\ engine'.started = engine.started
        /\ engine'.leaked = engine.leaked
    BY <1>5, <2>1 DEF UpdateTrackMuteState, Engine
  <2>3. vm.active # NoChannel
    BY <1>1, <1>8 DEF NothingComes, Silent
  <2>4. RoomShown'
    BY <1>2, <1>3, <1>6, <2>1, <2>2, <2>3 DEF RoomShown, Patient, InTime
  <2>5. OpensOnce'
    BY <1>2, <2>1, <2>2 DEF OpensOnce, QueueOrdered, Waits, Steady
  <2>6. QED
    BY <2>4, <2>5
<1>9. CASE ~engine.started
  <2>1. /\ engine' = [told EXCEPT !.started = TRUE] /\ posted' = NextGeneration(posted)
        /\ sdk' = "none" /\ thread' = [pc |-> "connecting", room |-> told.sfu]
    BY <1>5, <1>7, <1>9
  <2>2. engine'.room = engine.room /\ engine'.started /\ engine'.leaked = engine.leaked
    BY <1>5, <2>1 DEF Engine
  <2>3. VoiceEngineTypeOK /\ PostedFits /\ CallsNamed
    BY DEF VoiceInv, VoiceClientTypeOK
  <2>4. \A i \in DOMAIN posted' : ~posted'[i].fresh
    BY <2>1, <2>3, GenerationFacts
  <2>5. thread'.pc = "connecting" /\ thread'.room = join.channel
    BY <1>5, <2>1
  <2>6. RoomShown'
    BY <1>2, <1>3, <1>6, <2>2, <2>4, <2>5 DEF RoomShown, Patient, InTime
  <2>7. Steady => engine.room = NoChannel /\ ~engine.leaked
    BY <1>9 DEF OpensOnce
  <2>8. OpensOnce'
    BY <1>2, <2>1, <2>2, <2>4, <2>5, <2>7 DEF OpensOnce, QueueOrdered, Waits, Steady
  <2>9. QED
    BY <2>6, <2>8
<1>10. QED
  BY <1>8, <1>9

\* A closure hands over the room it was posted for; what it leaves in the queue
\* follows it.
LEMMA DeliverRoom ==
  ASSUME VoiceInv, RoomShown, OpensOnce, Deliver
  PROVE  RoomShown' /\ OpensOnce'
<1> DEFINE c == Head(posted)
<1>1. /\ vm \in ViewModel /\ engine \in Engine /\ posted \in Seq(Closure) /\ PostedFits
      /\ EngineSound(engine)
  BY PartsOfInv
<1>2. posted # <<>> /\ posted' = Tail(posted) /\ UNCHANGED <<env, thread>>
      /\ sdk' \in {"none", sdk}
  BY DEF Deliver
<1>3. /\ \A i \in DOMAIN posted' :
           i \in Nat /\ i >= 1 /\ i + 1 \in DOMAIN posted /\ posted'[i] = posted[i + 1]
      /\ 1 \in DOMAIN posted /\ posted[1] = c
  BY <1>1, <1>2, TailRoom
<1>4. c \in Closure /\ Fits(c)
  BY <1>1, <1>3 DEF PostedFits
<1>5. \A kinds : ~Waits(kinds) => ~Waits(kinds)'
  BY <1>3 DEF Waits
<1>6. QueueOrdered => QueueOrdered'
  <2>1. ASSUME QueueOrdered, NEW i \in DOMAIN posted', NEW j \in DOMAIN posted',
               posted'[i].fresh, posted'[j].fresh
        PROVE  /\ posted'[i].kind = "room" /\ posted'[j].kind = "connected" => j < i
               /\ posted'[i].kind \in {"room", "error"} /\ posted'[j].kind \in {"room", "error"}
                     => i = j
    <3>1. /\ posted[i + 1].kind = "room" /\ posted[j + 1].kind = "connected" => j + 1 < i + 1
          /\ posted[i + 1].kind \in {"room", "error"} /\ posted[j + 1].kind \in {"room", "error"}
                => i + 1 = j + 1
      BY <1>3, <2>1 DEF QueueOrdered
    <3>2. QED
      BY <1>3, <2>1, <3>1
  <2>2. QED
    BY <2>1 DEF QueueOrdered
<1>7. ASSUME vm'.active = vm.active,
             \/ engine'.room \in {engine.room, NoChannel}
             \/ c.fresh /\ c.kind = "room" /\ engine'.room = c.arg
      PROVE  RoomShown'
  BY <1>2, <1>3, <1>7 DEF RoomShown, Patient, InTime
<1>8. CASE ~c.fresh
  <2>1. UNCHANGED <<vm, engine, sdk>>
    BY <1>8 DEF Deliver
  <2>2. RoomShown'
    BY <1>7, <2>1
  <2>3. OpensOnce'
    BY <1>2, <1>5, <1>6, <2>1 DEF OpensOnce, Steady
  <2>4. QED
    BY <2>2, <2>3
<1>9. CASE c.fresh
  <2>1. PICK mic \in Mic, works \in SUBSET Track : Notify(vm, engine, Run(engine, c, mic, works))
    BY <1>9 DEF Deliver
  <2> DEFINE a == Run(engine, c, mic, works)
  <2>2. /\ a \in Engine
        /\ a.started = (engine.started /\ c.kind \notin {"error", "disconnected"})
        /\ c.kind = "room" => a.room = c.arg
        /\ c.kind \in {"error", "disconnected"} => a.room = NoChannel
        /\ c.kind \notin {"room", "error", "disconnected"} => a.room = engine.room
        /\ ~engine.capture \/ c.kind \notin {"room", "connected"} => a.leaked = engine.leaked
    BY <1>1, <1>4, RunFacts, RunRoom
  <2>3. \/ vm' = vm /\ engine' = a
        \/ vm' = Connected(vm, a.connected) /\ engine' = Dispatch(vm', a)
    BY <2>1 DEF Notify
  <2> HIDE DEF a
  <2>4. vm' \in ViewModel /\ vm'.active = vm.active
    BY <1>1, <2>2, <2>3 DEF Connected, ReleasePtt, ViewModel, Engine
  <2>5. engine'.room = a.room /\ engine'.started = a.started /\ engine'.leaked = a.leaked
    BY <2>2, <2>3, <2>4, DispatchRoom
  <2>6. RoomShown'
    BY <1>7, <1>9, <2>2, <2>4, <2>5
  <2>7. OpensOnce'
    <3>1. SUFFICES ASSUME Steady PROVE OpensOnce'
      BY <1>2 DEF OpensOnce, Steady
    <3>2. /\ ~engine.leaked /\ sdk # "reconnecting"
          /\ QueueOrdered
          /\ ~Waits({"reconnecting", "disconnected"})
          /\ thread.pc # "none" \/ engine.room # NoChannel =>
                engine.started /\ ~Waits({"room", "error"})
          /\ engine.room # NoChannel => thread.pc = "none"
          /\ engine.room # NoChannel \/ thread.pc = "connecting" => ~Waits({"connected"})
          /\ Waits({"room"}) => engine.started
      BY <3>1 DEF OpensOnce
    <3>3. \A kinds : c.kind \in kinds => Waits(kinds)
      BY <1>3, <1>9 DEF Waits
    <3>4. c.kind \notin {"reconnecting", "disconnected"}
      BY <3>2, <3>3
    <3>5. engine'.leaked = engine.leaked
      BY <1>1, <2>2, <2>5, <3>2, <3>3 DEF EngineSound, Engine
    <3>6. CASE c.kind \in {"room", "error"}
      <4>1. thread.pc = "none" /\ engine.room = NoChannel /\ (c.kind = "room" => engine.started)
        BY <3>2, <3>3, <3>6
      <4>2. ~Waits({"room", "error"})' /\ ~Waits({"room"})'
        <5>1. ASSUME NEW i \in DOMAIN posted', posted'[i].fresh, posted'[i].kind \in {"room", "error"}
              PROVE  FALSE
          <6>1. 1 = i + 1
            BY <1>3, <1>9, <3>2, <3>6, <5>1 DEF QueueOrdered
          <6>2. QED
            BY <1>3, <6>1
        <5>2. QED
          BY <5>1 DEF Waits
      <4>3. c.kind = "room" => ~Waits({"connected"})'
        <5>1. ASSUME c.kind = "room", NEW i \in DOMAIN posted', posted'[i].fresh,
                     posted'[i].kind = "connected"
              PROVE  FALSE
          <6>1. i + 1 < 1
            BY <1>3, <1>9, <3>2, <5>1 DEF QueueOrdered
          <6>2. QED
            BY <1>3, <6>1
        <5>2. QED
          BY <5>1 DEF Waits
      <4>4. CASE c.kind = "room"
        BY <1>2, <1>5, <1>6, <2>2, <2>5, <3>2, <3>5, <4>1, <4>2, <4>3, <4>4 DEF OpensOnce
      <4>5. CASE c.kind = "error"
        BY <1>2, <1>5, <1>6, <2>2, <2>5, <3>2, <3>5, <4>1, <4>2, <4>5 DEF OpensOnce
      <4>6. QED
        BY <3>6, <4>4, <4>5
    <3>7. CASE c.kind \notin {"room", "error"}
      <4>1. engine'.room = engine.room /\ engine'.started = engine.started
        BY <1>1, <2>2, <2>5, <3>4, <3>7 DEF Engine
      <4>2. QED
        BY <1>2, <1>5, <1>6, <3>2, <3>5, <4>1 DEF OpensOnce
    <3>8. QED
      BY <3>6, <3>7
  <2>8. QED
    BY <2>6, <2>7
<1>10. QED
  BY <1>8, <1>9

\* The other answers do not reach the engine, or stop it.
LEMMA CallbackRoom ==
  ASSUME VoiceInv, CallsInv, RoomShown, OpensOnce, Callbacks
  PROVE  RoomShown' /\ OpensOnce'
<1>1. vm \in ViewModel /\ engine \in Engine /\ CallsTypeOK /\ CallsPaired
  BY PartsOfInv DEF CallsInv
<1>2. CASE JoinAnswered \/ TokenRefused
  BY <1>1, <1>2, RoomFrame DEF JoinAnswered, TokenRefused, engineVars, ViewModel
<1>3. CASE LeaveAnswered /\ leave.pc = "failed"
  BY <1>1, <1>3, RoomFrame DEF LeaveAnswered, ViewModel
<1>4. CASE LeaveAnswered /\ leave.pc # "failed"
  <2> DEFINE v == [vm EXCEPT !.leaving = FALSE, !.joining = leave.next]
  <2>1. GoOut(v) /\ env' = env
    BY <1>4 DEF LeaveAnswered
  <2>2. v \in ViewModel /\ v.connected = vm.connected
    BY <1>1 DEF ViewModel, CallsTypeOK
  <2> HIDE DEF v
  <2>3. QED
    BY <2>1, <2>2, OutRoom
<1>5. ASSUME NEW s \in Slot, UpdateAnswered(s)
      PROVE  RoomShown' /\ OpensOnce'
  <2>1. /\ vm' = [vm EXCEPT !.flags = Shown(update[s])]
        /\ engine' = Dispatch(vm', engine) /\ UNCHANGED <<env, thread, sdk, posted>>
    BY <1>5 DEF UpdateAnswered
  <2>2. vm' \in ViewModel /\ vm'.active = vm.active
    BY <1>1, <2>1, ShownTyped DEF ViewModel
  <2>3. /\ engine'.room = engine.room /\ engine'.started = engine.started
        /\ engine'.leaked = engine.leaked
    BY <1>1, <2>1, <2>2, DispatchRoom
  <2>4. QED
    BY <2>1, <2>2, <2>3, RoomFrame
<1>6. CASE SelfLeaveEvent
  BY <1>1, <1>6, OutRoom DEF SelfLeaveEvent
<1>7. QED
  BY <1>2, <1>3, <1>4, <1>5, <1>6, EnterRoom, DeliverRoom DEF Callbacks

-----------------------------------------------------------------------------
(* The theorems. *)

\* The first state.
LEMMA ViewInit ==
  ASSUME VoiceClientInit
  PROVE  ViewInv
<1>1. /\ vm.active = NoChannel /\ vm.joining = NoChannel /\ ~vm.leaving /\ vm.flags = {}
      /\ join = NoJoin /\ leave = NoLeave /\ abandon = FALSE
      /\ update = [s \in Slot |-> NoUpdate]
      /\ row = NoRow /\ events = <<>>
  BY DEF VoiceClientInit
<1>2. /\ engine.room = NoChannel /\ ~engine.leaked /\ posted = <<>> /\ sdk = "none"
      /\ thread = [pc |-> "none", room |-> NoChannel]
  BY DEF VoiceClientInit, EngineInit
<1>3. CallsInv
  BY <1>1 DEF CallsInv, CallsPaired, PatientJoin, RowFollowed, FlagsFollowed, NoJoin, NoLeave,
              NoUpdates, NoUpdate, NoRow
<1>4. RoomShown /\ OpensOnce
  BY <1>2 DEF RoomShown, OpensOnce, QueueOrdered, Waits
<1>5. QED
  BY <1>3, <1>4 DEF ViewInv

\* Every step.
LEMMA ViewStep ==
  ASSUME VoiceInv, ViewInv, [VoiceClientNext]_vars
  PROVE  ViewInv'
<1>1. CallsInv /\ RoomShown /\ OpensOnce
  BY DEF ViewInv
<1>2. CASE UNCHANGED vars
  BY <1>1, <1>2, CallsFrame, RoomFrame DEF vars, engineVars, clientVars, ViewKept, ViewInv
<1>3. CASE UserStep
  BY <1>1, <1>3, UserCalls, UserRoom DEF ViewInv
<1>4. CASE LiveKitStep /\ UNCHANGED clientVars
  <2>1. env' = env
    BY <1>4 DEF LiveKitStep, Connect, Publish, LoseRoom, RegainRoom, EndRoom, Subscribe,
                Unsubscribe, Callback
  <2>2. QED
    BY <1>1, <1>4, <2>1, CallsFrame, LiveKitRoom DEF clientVars, ViewKept, ViewInv
<1>5. CASE ServerStep \/ Elsewhere \/ LoseEvent
  <2>1. UNCHANGED <<engineVars, vm>>
    BY <1>5 DEF ServerStep, ServerJoin, ServerLeave, ServerAbandon, ServerUpdate, Elsewhere, LoseEvent
  <2>2. QED
    BY <1>1, <1>5, <2>1, ServerCalls, RoomFrame DEF engineVars, ViewInv
<1>6. CASE Callbacks
  BY <1>1, <1>6, CallbackCalls, CallbackRoom DEF ViewInv
<1>7. QED
  BY <1>2, <1>3, <1>4, <1>5, <1>6 DEF VoiceClientNext

\* The invariant of what is shown, of every behaviour.
THEOREM ViewInvariant == VoiceClientSpec => []ViewInv
<1>1. VoiceClientInit => ViewInv
  BY ViewInit
<1>2. VoiceInv /\ ViewInv /\ [VoiceClientNext]_vars => ViewInv'
  BY ViewStep
<1>3. QED
  BY <1>1, <1>2, VoiceInvariant, PTL DEF VoiceClientSpec

\* The buttons show the state of the engine, and the engine is, or is getting, in the
\* room of the channel shown as joined, for a user who waits or answers that come in
\* time.
THEOREM ViewAgreesTheorem == VoiceClientSpec => []ViewAgrees
<1>1. VoiceInv /\ ViewInv => ViewAgrees
  BY DEF VoiceInv, Told, ViewInv, RoomShown, Patient, InTime, ViewAgrees, ConnectedAgrees,
         RoomFollowsChannel
<1>2. QED
  BY <1>1, VoiceInvariant, ViewInvariant, PTL

\* As long as LiveKit neither reconnects nor closes the room early, every microphone
\* opened is released: none is replaced while it runs.
THEOREM CapturesReleasedTheorem == VoiceClientSpec => []CapturesReleased
<1>1. ViewInv => CapturesReleased
  BY DEF ViewInv, OpensOnce, Steady, CapturesReleased
<1>2. QED
  BY <1>1, ViewInvariant, PTL

\* Once every call is answered and every event handled, the client shows the channel
\* and the flags of the server's row.
THEOREM ServerAgreesTheorem == VoiceClientSpec => []ServerAgrees
<1>1. ASSUME ViewInv
      PROVE  ServerAgrees
  <2>1. RowAgrees
    BY <1>1 DEF ViewInv, CallsInv, RowFollowed, InTime, RowAgrees, Idle, NoJoin
  <2>2. FlagsAgree
    BY <1>1 DEF ViewInv, CallsInv, FlagsFollowed, NoOverlap, FlagsAgree, Idle, NoUpdates, NoUpdate
  <2>3. QED
    BY <2>1, <2>2 DEF ServerAgrees
<1>2. QED
  BY <1>1, ViewInvariant, PTL
=============================================================================
