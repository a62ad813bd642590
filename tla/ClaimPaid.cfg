SPECIFICATION RecurSpec
CONSTANTS
    Payer = {r1, r2}
    Item = {rent}
    Amount = {1, 2}
    MaxPeriod = 2
    MaxTx = 2
INVARIANTS
    SettledIsMoney
CHECK_DEADLOCK FALSE
