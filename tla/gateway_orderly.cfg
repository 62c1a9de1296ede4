SPECIFICATION GatewayFairSpec
CONSTANTS
    g1 = g1
    User = {u1}
    NoUser = NoUser
    Socket = {s1, s2}
    Guild = {}
    Channel = {}
    GuildOf <- MCGuildOf
    Thread = {t1}
    Asked <- MCAsked
    Chosen = {"ONLINE", "IDLE"}
    Env = {"ttl"}
INVARIANTS
    ConnectedNotOffline
    GoneIsOffline
    StoresAgree
PROPERTIES
    EventuallyOffline
