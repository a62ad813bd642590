SPECIFICATION ClaimsSpec
CONSTANTS
    Req = {r1}
    Proc = {p1}
    Device = {d1}
    Serves <- MCOnlyRefreshes
    WalkCap = 2
    MaxSession = 4
    MayExpire = {}
INVARIANT
    ReuseKillsLineage
CHECK_DEADLOCK FALSE
