SPECIFICATION GatewaySpec
CONSTANTS
    g1 = g1
    User = {u1, u2}
    NoUser = NoUser
    Socket = {s1, s2}
    Guild = {g1}
    Channel = {c1}
    GuildOf <- MCGuildOf
    Thread = {}
    Asked <- MCAsked
    Chosen = {}
    Env = {"overlap", "earlyClose", "ttl", "restart"}
SYMMETRY Symmetry
INVARIANTS
    GatewayTypeOK
    DeliveredToMembers
    RoutingSound
