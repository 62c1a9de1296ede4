---------------------------- MODULE VoiceSession -----------------------------
(***************************************************************************)
(* What the client promises about the microphone: it is used only while    *)
(* in a voice session, and released on leave (docs/SESSION_STATE.md).      *)
(***************************************************************************)
CONSTANTS Channel, NoChannel

VARIABLES
    session,    \* the channel of the voice session
    mic,        \* the microphone is captured
    sending     \* what it captures goes out

vars == <<session, mic, sending>>

Init == session = NoChannel /\ ~mic /\ ~sending

\* A session begins, or moves to another channel.
Enter(c) == session' = c /\ UNCHANGED <<mic, sending>>

\* The engine, the devices and the mute button, during a session.
Use ==
    /\ session # NoChannel
    /\ mic' \in BOOLEAN
    /\ sending' \in {FALSE, mic'}
    /\ UNCHANGED session

Leave == session' = NoChannel /\ ~mic' /\ ~sending'

Next == (\E c \in Channel : Enter(c)) \/ Use \/ Leave

Spec == Init /\ [][Next]_vars
=============================================================================
