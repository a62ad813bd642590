SPECIFICATION FairSpec
CONSTANTS
    a1 = a1
    a2 = a2
    a3 = a3
    u1 = u1
    Req = {r1, r2}
    User = {u1}
    Account = {a1, a2, a3}
    Joint = Joint
    Owner <- MCOwner
    Currency <- MCCurrency
    Amount = {1, 2}
    Rate = {1, 3}
    Scale = 4
    MaxTransfer = 1
    MaxPlain = 1
    Creating = {r1}
    Pairs <- MCPairs
    Posted = {a2}
    MayArchive = {a1}
INVARIANTS
    TypeOK
    BundlesAreWhole
PROPERTIES
    DeletionsStick
    ImplementsMovements
    RequestsFinish
CHECK_DEADLOCK FALSE
