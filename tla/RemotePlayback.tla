---------------------------- MODULE RemotePlayback ----------------------------
(***************************************************************************)
(* The playback threads of the native voice engine                         *)
(* (client/src/services/NativeVoiceEngine.cpp): one per subscribed track.  *)
(* A thread reads frames of the track's stream, keeps an audio sink of     *)
(* their format, and writes until the sink has taken all of a frame.  The  *)
(* GUI thread starts and stops them, and waits for them to end: while it   *)
(* waits the application does nothing else.                                *)
(* The flag `stop`, the flag of being deafened and the stream are shared.  *)
(***************************************************************************)
EXTENDS Naturals

CONSTANTS
    Sid,            \* tracks of other participants
    Format,         \* sample rate and number of channels of a frame
    NoFormat,
    Supported,      \* formats of the output device
    MaxBroken       \* bound: streams and sinks that fail in one behaviour

ASSUME PlaybackAssumption ==
    NoFormat \notin Format /\ Supported \subseteq Format /\ MaxBroken \in Nat

VARIABLES
    tracks,         \* m_remoteTracks
    playbacks,      \* the keys of m_remotePlaybacks
    thread,         \* for each track its thread: where it is, the stop flag, its stream,
                    \* its sink and the frame in hand
    gui,            \* the GUI thread: the threads it waits for, the tracks it starts then
    deafened,       \* m_deafenedNow
    broken

playbackVars == <<tracks, playbacks, thread, gui, deafened, broken>>

Idle == [joins |-> {}, starts |-> {}]
NoSink == [format |-> NoFormat, works |-> FALSE]
Ended == [pc |-> "ended", stop |-> FALSE, open |-> FALSE, sink |-> NoSink, frame |-> NoFormat]
Started == [Ended EXCEPT !.pc = "read", !.open = TRUE]

PlaybackTypeOK ==
    /\ tracks \subseteq Sid /\ playbacks \subseteq tracks
    /\ thread \in [Sid -> [pc : {"read", "check", "write", "leave", "ended"}, stop : BOOLEAN,
                           open : BOOLEAN, frame : Format \cup {NoFormat},
                           sink : [format : Format \cup {NoFormat}, works : BOOLEAN]]]
    /\ gui \in [joins : SUBSET Sid, starts : SUBSET Sid]
    /\ deafened \in BOOLEAN
    /\ broken \in 0..MaxBroken

PlaybackInit ==
    /\ tracks = {} /\ playbacks = {}
    /\ thread = [s \in Sid |-> Ended]
    /\ gui = Idle
    /\ deafened = FALSE
    /\ broken = 0

-----------------------------------------------------------------------------
(* The GUI thread. *)

Free == gui = Idle

\* stopRemotePlayback, stopAllRemotePlaybacks, as far as the join: the playbacks
\* leave the map, are told to stop and their streams are closed.  Then start them.
StopThen(stopped, starts) ==
    /\ playbacks' = playbacks \ stopped
    /\ thread' = [s \in Sid |-> IF s \in stopped \cap playbacks
                                THEN [thread[s] EXCEPT !.stop = TRUE, !.open = FALSE]
                                ELSE thread[s]]
    /\ gui' = [joins |-> stopped \cap playbacks, starts |-> starts]

\* handleTrackSubscribed, with the playback the track may have already.
Subscribed(s) ==
    /\ Free
    /\ tracks' = tracks \cup {s}
    /\ StopThen({s}, {s})
    /\ UNCHANGED <<deafened, broken>>

Unsubscribed(s) ==
    /\ Free /\ s \in tracks
    /\ tracks' = tracks \ {s}
    /\ StopThen({s}, {})
    /\ UNCHANGED <<deafened, broken>>

\* rebuildRemotePlaybacks, when the output device is another one.
Rebuild ==
    /\ Free
    /\ StopThen(playbacks, tracks)
    /\ UNCHANGED <<tracks, deafened, broken>>

\* stopRoom.
StopPlaybacks ==
    /\ Free
    /\ tracks' = {}
    /\ StopThen(playbacks, {})
    /\ UNCHANGED <<deafened, broken>>

SetDeafened ==
    /\ Free
    /\ deafened' = ~deafened
    /\ UNCHANGED <<tracks, playbacks, thread, gui, broken>>

\* Mutant: the GUI thread does not wait.
StartAtOnce ==
    /\ gui # Idle
    /\ playbacks' = playbacks \cup gui.starts
    /\ thread' = [s \in Sid |-> IF s \in gui.starts THEN Started ELSE thread[s]]
    /\ gui' = Idle
    /\ UNCHANGED <<tracks, deafened, broken>>

\* The joins return; then startRemotePlayback makes a thread where it gets a stream.
ThreadsEnded ==
    /\ gui # Idle
    /\ \A s \in gui.joins : thread[s].pc = "ended"
    /\ \E streams \in SUBSET gui.starts :
          /\ broken' = IF streams = gui.starts THEN broken ELSE broken + 1
          /\ broken' <= MaxBroken
          /\ playbacks' = playbacks \cup streams
          /\ thread' = [s \in Sid |-> IF s \in streams THEN Started ELSE thread[s]]
    /\ gui' = Idle
    /\ UNCHANGED <<tracks, deafened>>

-----------------------------------------------------------------------------
(* A playback thread. *)

Becomes(s, r) == /\ thread' = [thread EXCEPT ![s] = r]
                 /\ UNCHANGED <<tracks, playbacks, gui, deafened>>

\* read() waits for a frame.
Read(s) ==
    /\ thread[s].pc = "read" /\ thread[s].open
    /\ \E f \in Format : Becomes(s, [thread[s] EXCEPT !.pc = "check", !.frame = f])
    /\ UNCHANGED broken

\* The stop flag is seen, or the stream has ended or been closed.
ReadEnds(s) ==
    /\ thread[s].pc = "read"
    /\ IF thread[s].open /\ ~thread[s].stop
       THEN broken < MaxBroken /\ broken' = broken + 1 ELSE UNCHANGED broken
    /\ Becomes(s, [thread[s] EXCEPT !.pc = "leave"])

\* The sink is of the format of the frame.
Fits(t) == t.sink.format = t.frame

\* A frame in hand is dropped when deafened, or without a sink that works; a sink
\* of another format is replaced.  A sink that could not be started stays.
Check(s) ==
    LET t == thread[s] IN
    /\ t.pc = "check"
    /\ \/ /\ t.stop
          /\ Becomes(s, [t EXCEPT !.pc = "leave"]) /\ UNCHANGED broken
       \/ /\ ~t.stop /\ deafened
          /\ Becomes(s, [t EXCEPT !.pc = "read"]) /\ UNCHANGED broken
       \/ /\ ~t.stop /\ ~deafened /\ Fits(t)
          /\ Becomes(s, [t EXCEPT !.pc = IF t.sink.works THEN "write" ELSE "read"])
          /\ UNCHANGED broken
       \/ /\ ~t.stop /\ ~deafened /\ ~Fits(t) /\ t.frame \notin Supported
          /\ Becomes(s, [t EXCEPT !.pc = "read", !.sink = NoSink]) /\ UNCHANGED broken
       \/ /\ ~t.stop /\ ~deafened /\ ~Fits(t) /\ t.frame \in Supported
          /\ Becomes(s, [t EXCEPT !.pc = "write", !.sink = [format |-> t.frame, works |-> TRUE]])
          /\ UNCHANGED broken
       \/ /\ ~t.stop /\ ~deafened /\ ~Fits(t) /\ t.frame \in Supported
          /\ broken < MaxBroken /\ broken' = broken + 1
          /\ Becomes(s, [t EXCEPT !.pc = "read", !.sink = [format |-> t.frame, works |-> FALSE]])

\* The sink takes the rest of the frame; it may take nothing for ever.
WriteFrame(s) ==
    /\ thread[s].pc = "write"
    /\ Becomes(s, [thread[s] EXCEPT !.pc = "read"])
    /\ UNCHANGED broken

\* Every millisecond the loop looks at the stop flag.
WriteStops(s) ==
    /\ thread[s].pc = "write" /\ thread[s].stop
    /\ Becomes(s, [thread[s] EXCEPT !.pc = "read"])
    /\ UNCHANGED broken

Leaves(s) ==
    /\ thread[s].pc = "leave"
    /\ Becomes(s, Ended)
    /\ UNCHANGED broken

PlaybackNext ==
    \/ Rebuild \/ StopPlaybacks \/ SetDeafened \/ ThreadsEnded
    \/ \E s \in Sid : \/ Subscribed(s) \/ Unsubscribed(s)
                      \/ Read(s) \/ ReadEnds(s) \/ Check(s) \/ WriteFrame(s) \/ WriteStops(s) \/ Leaves(s)

PlaybackSpec == PlaybackInit /\ [][PlaybackNext]_playbackVars

\* The threads run; a join returns when its thread has ended.  Neither a frame nor
\* room in the sink need ever come.
Stopping(s) == thread[s].stop /\ (ReadEnds(s) \/ Check(s) \/ WriteStops(s) \/ Leaves(s))
PlaybackFairness == (\A s \in Sid : WF_playbackVars(Stopping(s))) /\ WF_playbackVars(ThreadsEnded)
PlaybackFairSpec == PlaybackSpec /\ PlaybackFairness

-----------------------------------------------------------------------------
(* Properties. *)

\* While the application goes on every thread that runs is one of the map: a thread
\* that was told to stop has ended, none is forgotten that still plays.
NoStrayThread ==
    gui = Idle => \A s \in Sid : thread[s].pc # "ended" => s \in playbacks

\* Samples are only written to a sink of their format, on a device that supports it.
SinkMatchesFrame ==
    \A s \in Sid : thread[s].pc = "write" =>
        thread[s].sink = [format |-> thread[s].frame, works |-> TRUE] /\ thread[s].frame \in Supported

\* The application never hangs waiting for playback threads, also when the network
\* sends nothing and the audio device takes nothing.
StopReturns == (gui # Idle) ~> (gui = Idle)

\* The threads and their sinks are what the map and the frames say.
PlaybackSound == NoStrayThread /\ SinkMatchesFrame
=============================================================================
