SPECIFICATION VoiceClientSpec
CONSTANTS
    Channel = {c1, c2}
    NoChannel = NoChannel
    Track = {t1}
    Flag = {"muted"}
    Mic = {"ok", "failed"}
    MaxPosted = 2
    MaxEvents = 2
    Slot = {s1, s2}
    Scenarios <- MCReconnect
INVARIANTS
    MicReleasedOnLeave
