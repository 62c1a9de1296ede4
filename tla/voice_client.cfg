SPECIFICATION FairSpec
CONSTANTS
    Channel = {c1, c2}
    NoChannel = NoChannel
    Track = {t1}
    Flag = {"muted", "deafened"}
    Mic = {"ok", "failed"}
    MaxPosted = 2
    MaxEvents = 2
    Slot = {s1, s2}
    Scenarios <- MCScenarios
INVARIANTS
    VoiceClientTypeOK
    MicContained
    TransmitsAsAsked
    ViewAgrees
    CapturesReleased
    ServerAgrees
PROPERTIES
    MicSession
    VoiceSettles
