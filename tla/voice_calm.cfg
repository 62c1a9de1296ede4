SPECIFICATION VoiceFairSpec
CONSTANTS
    g1 = g1
    g2 = g2
    v1 = v1
    v2 = v2
    v3 = v3
    User = {u1}
    NoUser = NoUser
    Socket = {s1, s2}
    Guild = {g1, g2}
    Channel = {v1, v2, v3}
    VoiceChannel = {v1, v2, v3}
    GuildOf <- MCGuildOf
    Thread = {}
    Asked <- MCAsked
    Chosen = {}
    Env = {}
    Flags = {TRUE, FALSE}
    Call = {k1}
    RowId = {r1, r2}
INVARIANTS
    OneVoiceChannel
    ToldAgrees
PROPERTIES
    EventuallyOutOfVoice
