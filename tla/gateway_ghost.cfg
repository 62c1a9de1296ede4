SPECIFICATION GatewaySpec
CONSTANTS
    g1 = g1
    User = {u1}
    NoUser = NoUser
    Socket = {s1, s2}
    Guild = {}
    Channel = {}
    GuildOf <- MCGuildOf
    Thread = {}
    Asked <- MCAsked
    Chosen = {"ONLINE"}
    Env = {"earlyClose"}
INVARIANTS
    GoneIsOffline
