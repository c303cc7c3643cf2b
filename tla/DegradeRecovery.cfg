CONSTANTS
    spy = spy
    btc = btc
    Legs <- MCLegs
    Crypto <- MCCrypto
    SoftStreak = 2
    HardStreak = 3
    MaxCrashes = 1
    MaxClock = 1
    CpLegs = {"a", "b"}
    CpPower = 3
    CpMultiplier = 3
    CpEquities = {0, 1}
    CpMaxWant = 2
    CpMaxDay = 2
    CpMaxOrders = 3
    CpMaxFaults = 2
    RgLegs = {"a", "b"}
    RgPnls <- MCPnls
    RgEquities = {10, 20}
    RgLimit = 20
    RgMaxCycles = 3
    RgMaxFaults = 1
    LcRunners = {1, 2}
    LcConfigs = {"a", "b"}
    LcNone = "none"
    LcReturns <- MCReturns
    LcK = 1
    LcH = 2
    LcWindow = 2
    LcArmed = 2
    LcBreach = 2
    LcWatchWeeks = 2
    LcCostDays = 2
    LcMaxWeeks = 3
    LcMaxRefits = 2
SPECIFICATION MCSpec
CHECK_DEADLOCK FALSE
INVARIANTS RgHolds 
PROPERTIES EntriesAreEarned HardIsReEarned OneFlattenPerBreach HealthIsRestored CpBudgeted
