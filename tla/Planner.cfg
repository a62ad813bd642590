SPECIFICATION Spec
CONSTANTS
    u1 = u1
    u2 = u2
    home = home
    wallet = wallet
    dollars = dollars
    other = other
    KES = KES
    USD = USD
    Joint = Joint
    food = food
    pay = pay
    rent = rent
    r1 = r1
    r2 = r2
    Req = {r1, r2}
    Person = {u1, u2}
    Account = {home, wallet, dollars, other}
    Shared = Joint
    Holder <- MCHolder
    Money = {KES, USD}
    CurrencyOf <- MCCurrencyOf
    Opening <- MCOpening
    ThisMonth = 6
    Months = {5, 6}
    Label = {food}
    Defaults <- MCDefaults
    Post <- MCPost
    Cents = {4}
    Principal = {7}
    Terms <- MCTerms
    Planner = {u1}
    Patch <- MCPatch
    Topics <- MCTopics
    MaxEntry = 2
    MaxTag = 3
    MaxDebt = 1
    MaxBudget = 1
    Payer = {r1, r2}
    Item = {rent}
    Amount = {1, 2}
    MaxPeriod = 2
    MaxTx = 2
    Text = {1, 2}
    Optional = {1}
    MaxIntent = 2
    MaxSent = 2
    MaxRows = 2
    Concern = {"post", "edit"}
    MaxSafe = 99999
    MaxSafeMinorUnits = 99999
    MaxExponent = 4
    MaxShown = 99999
    Sample <- MCSample
    RateUnit = 10
    MaxRate = 30
    MaxMonths = 3
    Bands <- MCBands
    TaxUnit = 100
    PersonalRelief = 1
    InsuranceCap = 4
    MonthlyCap = 2
SYMMETRY Symmetry
INVARIANTS
    PlanTypeOK
    ReadModelsAgree
    DebtsStayListable
    RecurTypeOK
    CountedOnce
    PairedRows
    AmountsRoundHalfUp
    WorksheetsAgree
    OneRowPerIntent
    SavesAreFaithful
PROPERTIES
    DefaultsOnlyForNewcomers
    SettlementsAreRecords
CHECK_DEADLOCK FALSE
