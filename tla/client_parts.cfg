SPECIFICATION ClientSpec
CONSTANTS
    Token = {k1, k2}
    NoToken = NoToken
    Topic = {x}
    MaxFaults = 2
    MaxWire = 2
    LinkScenarios <- MCLink
    TextChannel = {p1}
    DmThread = {d1}
    NoPlace = NoPlace
    PageLimit = 2
    MaxMessages = 3
    MaxWritten <- MCMaxWritten
    MaxInbox = 2
    MaxServing = 2
    ChatScenarios <- MCChat
    u1 = u1
    u2 = u2
    User <- MCUser
    Self = u1
    VoiceChannel = {v1, v2}
    NoVoiceChannel = NoVoiceChannel
    MaxArriving = 3
    MaxRefused = 1
    PartyScenarios <- MCParty
    Guild = {g1, g2}
    NoGuild = NoGuild
    MaxRooms = 3
    MaxThreads = 1
    MaxAnswers = 2
    GuildScenarios <- MCGuild
    Sid = {t1, t2}
    Format = {f1, f2, f3}
    NoFormat = NoFormat
    Supported = {f1, f2}
    MaxBroken = 1
    Device = {a}
    SystemDefault = SystemDefault
    NoDevice = NoDevice
    Volume <- MCVolume
    AudioScenarios <- MCAudio
    FrameSize = 2
    MaxSpoken = 5
    Gain <- MCGain
    GainUnit = 2
    CaptureScenarios <- MCCapture
    Call = {c1, c2}
    MaxDropped = 3
    RestScenarios <- MCRest
    MaxLines = 3
    Capacity = 3
    FilterScenarios <- MCFilter
INVARIANTS
    ClientTypeOK
    LinkSound
    TimelineSound
    PartySound
    GuildSound
    PlaybackSound
    AudioSound
    CaptureSound
    RestSound
    FilterSound
PROPERTIES
    ClientSettles
CHECK_DEADLOCK FALSE
