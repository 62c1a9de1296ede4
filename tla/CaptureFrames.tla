----------------------------- MODULE CaptureFrames -----------------------------
(***************************************************************************)
(* The microphone, from the device to the room                             *)
(* (client/src/services/NativeVoiceEngine.cpp, onInputReadyRead): samples  *)
(* are read when the event loop comes to it, cut into frames, scaled and   *)
(* sent, or thrown away while the user does not transmit.  VoiceEngine     *)
(* decides when there is a capture and whether it transmits; the audio     *)
(* source of the room is there as long as the capture is.                  *)
(***************************************************************************)
EXTENDS Integers, SequencesExt

CONSTANTS
    FrameSize,          \* samples of a frame
    MaxSpoken,          \* bound: samples spoken in one behaviour
    Gain,               \* gains that are set, as multiples of GainUnit
    GainUnit,           \* what a gain of 1 is
    CaptureScenarios    \* what the environment may do: sets of "fail", "timeout"

ASSUME CaptureAssumption ==
    /\ FrameSize \in Nat \ {0} /\ MaxSpoken \in Nat
    /\ GainUnit \in Nat \ {0} /\ Gain \subseteq Int

MinSample == -32768
MaxSample == 32767

VARIABLES
    captureEnv,     \* never changes
    spoken,         \* samples there have been; a sample is its number
    waiting,        \* samples in the device
    mic,            \* m_inputDevice (open), m_transmittingNow, m_microphoneGain, m_inputBuffer
    unheard,        \* samples that were read while the user did not transmit
    sent            \* frames given to the audio source, as pairs of sample and value

captureVars == <<captureEnv, spoken, waiting, mic, unheard, sent>>

Sample == 1..MaxSpoken

\* How loud a sample is.
Level(n) == CASE n % 3 = 0 -> MinSample
              []   n % 3 = 1 -> MaxSample
              []   OTHER     -> -1

CaptureTypeOK ==
    /\ captureEnv \in CaptureScenarios
    /\ spoken \in 0..MaxSpoken
    /\ waiting \in Seq(Sample)
    /\ mic \in [open : BOOLEAN, transmit : BOOLEAN, gain : 0..(3 * GainUnit), buffer : Seq(Sample)]
    /\ unheard \subseteq Sample
    /\ sent \in Seq(Seq(Sample \X (MinSample..MaxSample)))

CaptureInit ==
    /\ captureEnv \in CaptureScenarios
    /\ spoken = 0 /\ waiting = <<>>
    /\ mic = [open |-> FALSE, transmit |-> FALSE, gain |-> GainUnit, buffer |-> <<>>]
    /\ unheard = {} /\ sent = <<>>

-----------------------------------------------------------------------------
\* Mutant: the gain is taken as it is.
GainAsSet(g) == g

\* normalizeMicrophoneGain.
NormalGain(g) == IF g < 0 THEN 0 ELSE IF g > 3 * GainUnit THEN 3 * GainUnit ELSE g

\* A value that does not fit is clamped; the conversion rounds towards 0.
Scaled(n, g) ==
    LET v == Level(n) * g
        t == IF v < 0 THEN -((-v) \div GainUnit) ELSE v \div GainUnit
    IN IF t > MaxSample THEN MaxSample ELSE IF t < MinSample THEN MinSample ELSE t

Frames(s) == Len(s) \div FrameSize
Frame(s, i) == SubSeq(s, (i - 1) * FrameSize + 1, i * FrameSize)

\* What is left when the frames are removed.
Rest(s) == SubSeq(s, Frames(s) * FrameSize + 1, Len(s))

-----------------------------------------------------------------------------
Speak ==
    /\ mic.open /\ spoken < MaxSpoken
    /\ spoken' = spoken + 1
    /\ waiting' = Append(waiting, spoken')
    /\ UNCHANGED <<captureEnv, mic, unheard, sent>>

\* Mutant: the rest of the last capture is kept.
CaptureKept(open) == [mic EXCEPT !.open = open]

\* The microphone is opened or closed; what had not made a frame is lost.
Capture(open) == [mic EXCEPT !.open = open, !.buffer = <<>>]

\* startInputCapture.
OpenMic ==
    /\ ~mic.open
    /\ mic' = Capture(TRUE)
    /\ UNCHANGED <<captureEnv, spoken, waiting, unheard, sent>>

\* stopInputCapture: what is in the device is lost as well.
CloseMic ==
    /\ mic.open
    /\ mic' = Capture(FALSE)
    /\ waiting' = <<>>
    /\ UNCHANGED <<captureEnv, spoken, unheard, sent>>

\* updateTrackMuteState, setMicrophoneGain: at any time, on the same thread.
SetTransmit ==
    /\ mic' = [mic EXCEPT !.transmit = ~@]
    /\ UNCHANGED <<captureEnv, spoken, waiting, unheard, sent>>

SetGain(g) ==
    /\ mic.gain # NormalGain(g)
    /\ mic' = [mic EXCEPT !.gain = NormalGain(g)]
    /\ UNCHANGED <<captureEnv, spoken, waiting, unheard, sent>>

\* onInputReadyRead, while the user does not transmit: whole frames are thrown away.
ReadSilent(s) ==
    /\ mic' = [mic EXCEPT !.buffer = Rest(s)]
    /\ unheard' = unheard \cup ToSet(waiting)
    /\ sent' = sent

\* The ways to take n of the frames up to m, in their order.
Increasing(n, m) == {kept \in [1..n -> 1..m] : \A i \in 2..n : kept[i - 1] < kept[i]}

\* onInputReadyRead, while the user transmits: of the frames up to "upto" those in kept
\* are sent, the others time out; the next one fails, and then nothing is removed.
ReadAndSend(s, upto, kept) ==
    LET Sent(i) == [j \in 1..FrameSize |-> <<Frame(s, i)[j], Scaled(Frame(s, i)[j], mic.gain)>>]
    IN /\ sent' = sent \o [i \in 1..Len(kept) |-> Sent(kept[i])]
       /\ mic' = [mic EXCEPT !.buffer = IF upto = Frames(s) THEN Rest(s) ELSE s]
       /\ unheard' = unheard

InputReadyRead ==
    /\ mic.open /\ waiting # <<>>
    /\ waiting' = <<>>
    /\ LET s == mic.buffer \o waiting
       IN IF mic.transmit
          THEN \E upto \in IF "fail" \in captureEnv THEN 0..Frames(s) ELSE {Frames(s)} :
                  \E n \in IF "timeout" \in captureEnv THEN 0..upto ELSE {upto} :
                     \E kept \in Increasing(n, upto) : ReadAndSend(s, upto, kept)
          ELSE ReadSilent(s)
    /\ UNCHANGED <<captureEnv, spoken>>

CaptureNext ==
    \/ Speak \/ OpenMic \/ CloseMic \/ SetTransmit \/ InputReadyRead
    \/ \E g \in Gain : SetGain(g)

CaptureSpec == CaptureInit /\ [][CaptureNext]_captureVars

-----------------------------------------------------------------------------
(* Properties. *)

\* A frame holds samples that followed each other, also when the capture was
\* started again between two reads.
FramesWhole ==
    \A k \in 1..Len(sent) :
        /\ Len(sent[k]) = FrameSize
        /\ \A j \in 2..FrameSize : sent[k][j][1] = sent[k][j - 1][1] + 1

\* While the audio source takes every frame, no sample is sent twice, none out
\* of order, and less than a frame is kept.
SentInOrder ==
    "fail" \notin captureEnv =>
        /\ \A k \in 2..Len(sent) : sent[k - 1][FrameSize][1] < sent[k][1][1]
        /\ Len(mic.buffer) < FrameSize

\* Of what was read while the user did not transmit, at most the beginning of a
\* frame is sent: every frame has a sample that was read later.
SilenceUnsent ==
    \A k \in 1..Len(sent) : \E j \in 1..FrameSize : sent[k][j][1] \notin unheard

\* A gain makes no sample change its sign.
SignsKept ==
    \A k \in 1..Len(sent) : \A j \in 1..FrameSize :
        LET n == sent[k][j][1] v == sent[k][j][2]
        IN (Level(n) > 0 => v >= 0) /\ (Level(n) < 0 => v <= 0)

\* What is sent are whole frames of what was said, in order and without what was
\* said in silence.
CaptureSound == FramesWhole /\ SentInOrder /\ SilenceUnsent /\ SignsKept
=============================================================================
