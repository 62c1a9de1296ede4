SPECIFICATION Spec
CONSTANTS
    u1 = u1
    User = {u1}
    Device = {d1}
    UserOf <- MCUserOf
    Token = {t1, t2, t3, t4}
    Call = {c1, c2}
    NoUser = NoUser
    NoToken = NoToken
    NoCall = NoCall
    MaxRetries = 1
    LogoutCalls = TRUE
SYMMETRY Symmetry
INVARIANTS
    SessionsTypeOK
    RotationSound
    LogoutFinal
    SignedInTokenCurrent
    ForksOnlyByOverlap
