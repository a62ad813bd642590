SPECIFICATION Spec
CONSTANTS
    s1 = s1
    s2 = s2
    e1 = e1
    e2 = e2
    e3 = e3
    r1 = r1
    r2 = r2
    Req = {r1, r2}
    Email = {e1, e2, e3}
    FirstEmail = e1
    NoEmail = NoEmail
    Subject = {s1, s2}
    SubjectEmail <- MCSubjectEmail
    Invite = {1}
    MaxUser = 3
    MaxLink = 3
    MaxIdentity = 1
    Value = {0}
    Mixes <- MCClaimMixes
    Key = {login, reset}
    Limit = 2
    Window = 3
    SweepEvery = 2
    MaxTime = 5
SYMMETRY Symmetry
INVARIANT
    CredentialsWorkAsDocumented
CHECK_DEADLOCK FALSE
