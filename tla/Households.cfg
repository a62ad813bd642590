SPECIFICATION Spec
CONSTANTS
    Req = {r1, r2}
    User = {u1, u2, u3}
    MaxHome = 2
    MaxInvite = 1
    MaxRow = 4
    Granted = {TRUE}
SYMMETRY Symmetry
INVARIANTS
    TypeOK
    AtMostOneOwner
    SerialHouseholdsAreSound
PROPERTIES
    OwnershipPassesToSenior
    FailedJoinKeepsInvite
    HandsOffOtherHouseholds
CHECK_DEADLOCK FALSE
