SPECIFICATION ClaimsSpec
CONSTANTS
    Req = {r1, r2}
    User = {u1, u2, u3}
    MaxHome = 1
    MaxInvite = 1
    MaxRow = 3
    Granted = {TRUE}
INVARIANT
    HouseholdsWorkAsDocumented
CHECK_DEADLOCK FALSE
