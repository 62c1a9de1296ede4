----------------------------- MODULE AudioSettings -----------------------------
(***************************************************************************)
(* Audio devices and settings, kept three times: by the native engine      *)
(* (client/src/services/NativeVoiceEngine.cpp), by the voice view model    *)
(* (client/src/viewmodels/VoiceViewModel.cpp) and in the settings file.    *)
(* Devices come and go; the engine is told later.  All of it runs on the   *)
(* GUI thread: a signal runs the handlers of the view model in the middle  *)
(* of the engine's own.                                                    *)
(***************************************************************************)
EXTENDS Integers

CONSTANTS
    Device,         \* audio devices
    SystemDefault,  \* the empty id
    NoDevice,
    Volume,         \* numbers a volume is set to, in range or not
    AudioScenarios  \* what the environment may do: sets of
                    \* "stale", "file", "settings", "fail"

ASSUME AudioAssumption ==
    SystemDefault \notin Device /\ NoDevice \notin Device /\ Volume \subseteq Int

Kind == {"input", "output"}

VARIABLES
    audioEnv,       \* never changes
    os,             \* the devices there are, the default one, whether one can be opened
    signals,        \* QMediaDevices::audioInputsChanged, audioOutputsChanged under way
    audio,          \* the engine: lists, selection, gain, started, what there is a
                    \* device to open for, devices in use
    panel,          \* the view model: lists, and the settings
    stored          \* the settings file

audioVars == <<audioEnv, os, signals, audio, panel, stored>>

Id == Device \cup {SystemDefault}
Mode == {"VOICE_ACTIVITY", "PUSH_TO_TALK"}
Hotkey == {"V", "SPACE"}

Settings(volumes, modes, hotkeys) ==
    [selected : [Kind -> Id], volume : volumes, mode : modes, hotkey : hotkeys, enabled : BOOLEAN]
FreshSettings == [selected |-> [k \in Kind |-> SystemDefault], volume |-> 100,
                  mode |-> "VOICE_ACTIVITY", hotkey |-> "V", enabled |-> TRUE]

\* "fail": a device cannot be opened, its format is refused or it does not start.
Opens == IF "fail" \in audioEnv THEN BOOLEAN ELSE {TRUE}

AudioTypeOK ==
    /\ audioEnv \in AudioScenarios
    /\ os \in [Kind -> [there : SUBSET Device, default : Device \cup {NoDevice}, opens : Opens]]
    /\ signals \subseteq Kind
    /\ audio \in [lists : [Kind -> SUBSET Device], selected : [Kind -> Id], volume : 0..200,
                  started : BOOLEAN, live : SUBSET Kind, uses : [Kind -> Device \cup {NoDevice}]]
    /\ panel.lists \in [Kind -> SUBSET Device]
    /\ panel.settings \in Settings(0..200, Mode, Hotkey)
    /\ stored \in Settings(Volume \cup 0..200, Mode \cup {"other"}, Hotkey \cup {"other"})

-----------------------------------------------------------------------------
(* Normalisation. *)

NormalVolume(v) == IF v < 0 THEN 0 ELSE IF v > 200 THEN 200 ELSE v
NormalMode(m) == IF m = "PUSH_TO_TALK" THEN m ELSE "VOICE_ACTIVITY"
NormalHotkey(h) == IF h \in Hotkey THEN h ELSE "V"

Normal(s) == [s EXCEPT !.volume = NormalVolume(@), !.mode = NormalMode(@), !.hotkey = NormalHotkey(@)]

-----------------------------------------------------------------------------
(* The engine and the view model.  A state s has the parts audio, panel and *)
(* stored; the operators say what a call makes of it.                       *)

Now == [audio |-> audio, panel |-> panel, stored |-> stored]
Becomes3(s) == audio' = s.audio /\ panel' = s.panel /\ stored' = s.stored

\* resolveInputDevice, resolveOutputDevice.
Resolve(id, o) == IF id \in o.there THEN id ELSE o.default

\* What is opened: nothing for a microphone before the room is connected and its
\* source is there, and for a loudspeaker without a remote track.
Opened(s, k) ==
    IF k \in s.audio.live /\ os[k].opens THEN Resolve(s.audio.selected[k], os[k]) ELSE NoDevice

\* restartInputCapture, rebuildRemotePlaybacks: what is in use is stopped first.
Reopen(s, kinds) ==
    IF s.audio.started
    THEN [s EXCEPT !.audio.uses =
             [k \in Kind |-> IF k \in kinds THEN Opened(s, k) ELSE @[k]]]
    ELSE s

Kept(selected, list) == IF selected \in list THEN selected ELSE SystemDefault

\* recomputeAudioDeviceLists: what is no longer there is not selected any more.
Recompute(s) ==
    LET selected == [k \in Kind |-> Kept(s.panel.settings.selected[k], s.audio.lists[k])]
        t == [s EXCEPT !.panel.lists = s.audio.lists, !.panel.settings.selected = selected]
    IN IF selected = s.panel.settings.selected THEN t ELSE [t EXCEPT !.stored = t.panel.settings]

\* A list that has changed is announced: the view model recomputes.
TakeList(s, k) ==
    IF s.audio.lists[k] = os[k].there THEN s
    ELSE Recompute([s EXCEPT !.audio.lists[k] = os[k].there])

\* refreshDeviceLists.
Refresh(s) ==
    LET selected == [k \in Kind |-> Kept(s.audio.selected[k], os[k].there)]
        t == TakeList(TakeList([s EXCEPT !.audio.selected = selected], "input"), "output")
    IN IF selected = s.audio.selected THEN t ELSE Reopen(t, Kind)

\* setSelectedInputDeviceId, setSelectedOutputDeviceId.
Select(s, k, id) ==
    IF s.audio.selected[k] = id THEN s ELSE Reopen([s EXCEPT !.audio.selected[k] = id], {k})

\* dispatchAudioSettingsToBridge, as far as devices and volume.
DispatchDevices(s) ==
    LET p == s.panel.settings
        t == Select(Select(s, "input", p.selected["input"]), "output", p.selected["output"])
    IN [t EXCEPT !.audio.volume = p.volume]

Persist(s) == [s EXCEPT !.stored = s.panel.settings]

\* restoreAudioSettings, then requestAudioDevices and the dispatch, by setup.
Setup(file) ==
    LET fresh == [audio |-> [lists |-> [k \in Kind |-> os[k].there],
                             selected |-> [k \in Kind |-> SystemDefault], volume |-> 100,
                             started |-> FALSE, live |-> {}, uses |-> [k \in Kind |-> NoDevice]],
                  panel |-> [lists |-> [k \in Kind |-> os[k].there], settings |-> Normal(file)],
                  stored |-> file]
    IN DispatchDevices(Recompute(Refresh(fresh)))

\* A settings file that nobody has touched, or ("file") any.
AudioInit ==
    /\ audioEnv \in AudioScenarios
    /\ os = [k \in Kind |-> [there |-> {}, default |-> NoDevice, opens |-> TRUE]]
    /\ signals = {}
    /\ \E file \in IF "file" \in audioEnv
                   THEN [selected : [Kind -> Id], volume : Volume, mode : {"PUSH_TO_TALK", "other"},
                         hotkey : {"SPACE", "other"}, enabled : {FALSE}]
                   ELSE {FreshSettings} :
          LET s == Setup(file) IN audio = s.audio /\ panel = s.panel /\ stored = s.stored

-----------------------------------------------------------------------------
\* Devices are plugged and unplugged.
DevicesChange(k) ==
    /\ \E there \in SUBSET Device :
          \E default \in IF there = {} THEN {NoDevice} ELSE there :
             /\ os' = [os EXCEPT ![k].there = there, ![k].default = default]
             /\ os' # os
    /\ signals' = signals \cup {k}
    /\ UNCHANGED <<audioEnv, audio, panel, stored>>

\* The devices of a kind cannot be opened, or can again; nobody is told.
OpeningChanges(k) ==
    /\ "fail" \in audioEnv
    /\ os' = [os EXCEPT ![k].opens = ~@]
    /\ UNCHANGED <<audioEnv, signals, audio, panel, stored>>

\* Mutant: the lists are refreshed, what is in use is not.
ListsOnly(k) ==
    /\ k \in signals
    /\ signals' = signals \ {k}
    /\ Becomes3(Refresh(Now))
    /\ UNCHANGED <<audioEnv, os>>

\* The engine is told: refreshDeviceLists, and what is in use is opened again.
DevicesChanged(k) ==
    /\ k \in signals
    /\ signals' = signals \ {k}
    /\ Becomes3(Reopen(Refresh(Now), {k}))
    /\ UNCHANGED <<audioEnv, os>>

\* requestAudioDevices, when the settings are opened.
RequestDevices ==
    /\ Becomes3(Recompute(Refresh(Now)))
    /\ UNCHANGED <<audioEnv, os, signals>>

\* A device of the list is selected; "stale": of a list that was shown before.
SelectDevice(k, id) ==
    /\ id \in panel.lists[k] \cup {SystemDefault} \/ "stale" \in audioEnv
    /\ panel.settings.selected[k] # id
    /\ Becomes3(DispatchDevices(Persist([Now EXCEPT !.panel.settings.selected[k] = id])))
    /\ UNCHANGED <<audioEnv, os, signals>>

SetMicrophoneVolume(v) ==
    /\ "settings" \in audioEnv
    /\ panel.settings.volume # NormalVolume(v)
    /\ Becomes3(DispatchDevices(Persist([Now EXCEPT !.panel.settings.volume = NormalVolume(v)])))
    /\ UNCHANGED <<audioEnv, os, signals>>

\* setActivationMode (and its dispatch), setPttHotkey, setPttHotkeyEnabled.
SetMode(m) ==
    /\ "settings" \in audioEnv
    /\ panel.settings.mode # NormalMode(m)
    /\ Becomes3(DispatchDevices(Persist([Now EXCEPT !.panel.settings.mode = NormalMode(m)])))
    /\ UNCHANGED <<audioEnv, os, signals>>

SetHotkey(h) ==
    /\ "settings" \in audioEnv
    /\ panel.settings.hotkey # NormalHotkey(h)
    /\ Becomes3(Persist([Now EXCEPT !.panel.settings.hotkey = NormalHotkey(h)]))
    /\ UNCHANGED <<audioEnv, os, signals>>

SetHotkeyEnabled ==
    /\ "settings" \in audioEnv
    /\ Becomes3(Persist([Now EXCEPT !.panel.settings.enabled = ~@]))
    /\ UNCHANGED <<audioEnv, os, signals>>

\* Voice starts and ends (VoiceEngine).  start() opens nothing.
StartVoice ==
    /\ ~audio.started
    /\ Becomes3([DispatchDevices(Now) EXCEPT !.audio.started = TRUE])
    /\ UNCHANGED <<audioEnv, os, signals>>

StopVoice ==
    /\ audio.started
    /\ audio' = [audio EXCEPT !.started = FALSE, !.live = {}, !.uses = [k \in Kind |-> NoDevice]]
    /\ UNCHANGED <<audioEnv, os, signals, panel, stored>>

\* handleConnected with the source of the room (startInputCapture: a capture that runs
\* is left alone if the format is refused, and forgotten if another one is started or
\* fails to); handleTrackSubscribed of a first track.
GoLive(k) ==
    /\ audio.started /\ k \notin audio.live
    /\ \E d \in IF os[k].opens THEN {Resolve(audio.selected[k], os[k])}
                ELSE {NoDevice, audio.uses[k]} :
          audio' = [audio EXCEPT !.live = @ \cup {k}, !.uses[k] = d]
    /\ UNCHANGED <<audioEnv, os, signals, panel, stored>>

\* The room is reconnecting, and the capture goes on; the last track is gone.
GoQuiet(k) ==
    /\ k \in audio.live
    /\ audio' = [audio EXCEPT !.live = @ \ {k}, !.uses[k] = IF k = "input" THEN @ ELSE NoDevice]
    /\ UNCHANGED <<audioEnv, os, signals, panel, stored>>

\* The application ends and is started again.
Restart ==
    /\ signals' = {}
    /\ Becomes3(Setup(stored))
    /\ UNCHANGED <<audioEnv, os>>

AudioNext ==
    \/ \E k \in Kind :
          \/ DevicesChange(k) \/ OpeningChanges(k) \/ DevicesChanged(k)
          \/ GoLive(k) \/ GoQuiet(k) \/ \E id \in Id : SelectDevice(k, id)
    \/ RequestDevices \/ SetHotkeyEnabled \/ StartVoice \/ StopVoice \/ Restart
    \/ \E v \in Volume : SetMicrophoneVolume(v)
    \/ \E m \in Mode \cup {"other"} : SetMode(m)
    \/ \E h \in Hotkey \cup {"other"} : SetHotkey(h)

AudioSpec == AudioInit /\ [][AudioNext]_audioVars

-----------------------------------------------------------------------------
(* Properties. *)

\* The view model shows what the engine has: the same devices selected, of the lists,
\* and the same volume, if only devices of the lists are selected.
SelectionAgrees ==
    /\ audio.volume = panel.settings.volume
    /\ panel.lists = audio.lists
    /\ "stale" \notin audioEnv =>
          /\ panel.settings.selected = audio.selected
          /\ \A k \in Kind : audio.selected[k] \in audio.lists[k] \cup {SystemDefault}

\* What would be restored after a restart is what is set, except that a device may
\* have gone meanwhile.
SettingsStored == Normal(stored) = panel.settings

\* Voice uses the device that is selected, or the default one where it is not there,
\* as soon as the engine has been told of what was plugged and unplugged; it uses none
\* while there is nothing to open it for, or where one could not be opened, and never
\* another one.
UsesSelected ==
    \A k \in Kind \ signals :
        \/ audio.uses[k] = Resolve(audio.selected[k], os[k])
        \/ audio.uses[k] = NoDevice /\ (k \notin audio.live \/ "fail" \in audioEnv)

\* The engine, the view model and the file agree, and voice uses what they say.
AudioSound == SelectionAgrees /\ SettingsStored /\ UsesSelected
=============================================================================
