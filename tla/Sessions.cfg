SPECIFICATION Spec
CONSTANTS
    r1 = r1
    r2 = r2
    r3 = r3
    d1 = d1
    Req = {r1, r2, r3}
    Proc = {p1, p2}
    Device = {d1}
    Serves <- MCServes
    WalkCap = 2
    MaxSession = 3
    MayExpire = {1}
SYMMETRY Symmetry
INVARIANTS
    TypeOK
    SingleLiveToken
    SweptLineagesStayDead
    GrantedTokensKeepTheirRow
    OneRotationPerProcess
PROPERTIES
    RevocationIsFinal
    ImplementsTokenFamilies
CHECK_DEADLOCK FALSE
