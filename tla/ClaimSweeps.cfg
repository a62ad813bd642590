SPECIFICATION ClaimsSpec
CONSTANTS
    Req = {r1, r2}
    Proc = {p1}
    Device = {d1}
    Serves <- MCSweeps
    WalkCap = 2
    MaxSession = 3
    MayExpire = {}
INVARIANT
    PasswordSweepsAreExact
CHECK_DEADLOCK FALSE
