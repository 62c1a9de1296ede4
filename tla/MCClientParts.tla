---------------------------- MODULE MCClientParts ----------------------------
(***************************************************************************)
(* Instances of the parts of the client for TLC.  The parts share no       *)
(* variable, so that one moves in each behaviour and the others rest: part *)
(* says which one.                                                         *)
(***************************************************************************)
EXTENDS GatewayLink, ChatTimeline, VoiceParticipants, GuildSelection,
        RemotePlayback, AudioSettings, CaptureFrames, RestCalls, LogFilter

CONSTANTS u1, u2    \* the user of the client, and another one

MCUser == {u1, u2}

\* What may happen in one behaviour: the bounds are too small for all of it at once.
MCLink == {{}, {"early"}, {"expire"}, {"again"}}
MCChat == {{"react"}, {"late"}, {"fail"}, {"more"}, {"overlap"}, {"overlap", "react"}}
MCParty == {{"mute", "others"}, {"late", "limit"}, {"late", "mute"}, {"fail", "same"},
            {"speak", "others"}, {"preview"}}
MCGuild == {{"friend"}, {"reconnect"}, {"late"}, {"create", "reconnect"}, {"fail", "logout"}}
MCAudio == {{}, {"stale"}, {"file"}, {"settings"}, {"fail"}}
MCCapture == {{}, {"fail"}, {"timeout"}}
MCRest == {{}, {"busy", "drop"}}
MCFilter == {{}, {"late", "broken"}}

\* Messages of a behaviour of the chat.
MCMaxWritten == [e \in MCChat |->
                    IF "overlap" \notin e THEN 3 ELSE IF "react" \in e THEN 1 ELSE 2]

\* Volumes and gains that are too small, right and too large.
MCVolume == {-1, 100, 250}
MCGain == {-1, 4, 7}

VARIABLE part

\* A part that rests has one initial state.
RestsWith(p, env, scenarios) == part # p => env = CHOOSE e \in scenarios : TRUE

ClientInit ==
    /\ part \in {"link", "chat", "party", "guild", "playback", "audio", "capture", "rest", "filter"}
    /\ LinkInit /\ RestsWith("link", linkEnv, MCLink)
    /\ ChatInit /\ RestsWith("chat", chatEnv, MCChat)
    /\ PartyInit /\ RestsWith("party", partyEnv, MCParty)
    /\ GuildInit /\ RestsWith("guild", guildEnv, MCGuild)
    /\ PlaybackInit
    /\ AudioInit /\ (part # "audio" => audioEnv = {})
    /\ CaptureInit /\ RestsWith("capture", captureEnv, MCCapture)
    /\ RestInit /\ RestsWith("rest", restEnv, MCRest) /\ (part # "rest" => \A c \in Call : calls[c].kind = "read")
    /\ FilterInit /\ RestsWith("filter", filterEnv, MCFilter)

\* Only part p moves.
Others(p) ==
    /\ part = p /\ part' = p
    /\ p # "link" => UNCHANGED linkVars
    /\ p # "chat" => UNCHANGED chatVars
    /\ p # "party" => UNCHANGED partyVars
    /\ p # "guild" => UNCHANGED guildVars
    /\ p # "playback" => UNCHANGED playbackVars
    /\ p # "audio" => UNCHANGED audioVars
    /\ p # "capture" => UNCHANGED captureVars
    /\ p # "rest" => UNCHANGED restVars
    /\ p # "filter" => UNCHANGED filterVars

LinkMoves == part = "link" /\ LinkNext /\ Others("link")
ChatMoves == part = "chat" /\ ChatNext /\ Others("chat")
PartyMoves == part = "party" /\ PartyNext /\ Others("party")
GuildMoves == part = "guild" /\ GuildNext /\ Others("guild")
PlaybackMoves == part = "playback" /\ PlaybackNext /\ Others("playback")
AudioMoves == part = "audio" /\ AudioNext /\ Others("audio")
CaptureMoves == part = "capture" /\ CaptureNext /\ Others("capture")
RestMoves == part = "rest" /\ RestNext /\ Others("rest")
FilterMoves == part = "filter" /\ FilterNext /\ Others("filter")

ClientNext ==
    \/ LinkMoves \/ ChatMoves \/ PartyMoves \/ GuildMoves \/ PlaybackMoves
    \/ AudioMoves \/ CaptureMoves \/ RestMoves \/ FilterMoves

clientVars == <<part, linkVars, chatVars, partyVars, guildVars, playbackVars, audioVars,
                captureVars, restVars, filterVars>>

ClientSpec ==
    /\ ClientInit /\ [][ClientNext]_clientVars
    /\ WF_clientVars(part = "link" /\ LinkStep /\ Others("link"))
    /\ WF_clientVars(part = "link" /\ Register /\ Others("link"))
    /\ WF_clientVars(part = "link" /\ Receive /\ Others("link"))
    /\ \A s \in Sid : WF_clientVars(part = "playback" /\ Stopping(s) /\ Others("playback"))
    /\ WF_clientVars(part = "playback" /\ ThreadsEnded /\ Others("playback"))
    /\ \A c \in Call : WF_clientVars(part = "rest" /\ CallStep(c) /\ Others("rest"))
    /\ WF_clientVars(part = "filter" /\ FilterStep /\ Others("filter"))

-----------------------------------------------------------------------------
\* Every variable of every part has its type.
ClientTypeOK ==
    /\ LinkTypeOK /\ ChatTypeOK /\ PartyTypeOK /\ GuildTypeOK /\ PlaybackTypeOK
    /\ AudioTypeOK /\ CaptureTypeOK /\ RestTypeOK /\ FilterTypeOK

\* What was begun ends: a session is reached, playback threads are joined, a call
\* is answered and the log filter stops.
ClientSettles == GetsSession /\ StopReturns /\ CallEnds /\ FilterStops
=============================================================================
