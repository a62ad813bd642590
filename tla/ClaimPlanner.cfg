SPECIFICATION ClaimsSpec
CONSTANTS
    u1 = u1
    u2 = u2
    wallet = wallet
    KES = KES
    Joint = Joint
    food = food
    pay = pay
    Req = {r1, r2}
    Person = {u1}
    Account = {wallet}
    Shared = Joint
    Holder <- MCHolder
    Money = {KES}
    CurrencyOf <- MCCurrencyOf
    Opening <- MCOpening
    ThisMonth = 6
    Months = {6}
    Label = {food}
    Defaults <- MCDefaults
    Post <- MCPost
    Cents = {4}
    Principal = {7}
    Terms = {}
    Planner = {u1}
    Patch = {}
    Topics <- MCTopics
    MaxEntry = 2
    MaxTag = 3
    MaxDebt = 1
    MaxBudget = 1
    MaxSafe = 99999
    MaxSafeMinorUnits = 99999
    MaxExponent = 4
    MaxShown = 99999
    Sample <- MCSample
    RateUnit = 10
    MaxRate = 30
    MaxMonths = 3
    Bands <- MCBands
    TaxUnit = 100
    PersonalRelief = 1
    InsuranceCap = 4
    MonthlyCap = 2
INVARIANT
    PlannerWorksAsDocumented
CHECK_DEADLOCK FALSE
