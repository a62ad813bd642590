SPECIFICATION FairSpec
CONSTANTS
    r1 = r1
    r2 = r2
    r3 = r3
    d1 = d1
    Req = {r1, r2, r3}
    Proc = {p1, p2}
    Device = {d1}
    Serves <- MCServesLive
    WalkCap = 2
    MaxSession = 2
    MayExpire = {}
PROPERTIES
    RequestsFinish
CHECK_DEADLOCK FALSE
