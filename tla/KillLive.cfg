CONSTANTS
    flatten = flatten
    liquidate = liquidate
    halt = halt
    legA = legA
    NoStrategy = NoStrategy
    Strategies = {legA}
    Commands = {flatten, liquidate}
    LevelOf <- MCLevelOf
    TargetOf <- MCTargetOf
    Watchdogs = {soak, mirror_sync}
    Acting = {soak}
    Guards = {"config_hash_mismatch"}
    Live = TRUE
    AutoRelease = TRUE
    Required = 1
    MarketOpens = TRUE
    LqSyms = {1, 2}
    LqStocks = {1}
    LqLegs = {1}
    LqStarts <- MCStarts
    LqMaxOrders = 2
    LqMaxCalls = 2
    LqMaxFaults = 1
    PlLegs = {1}
    PlMinDays = 2
    PlMinSamples = 1
    PlLockDays = 1
    PlMaxDay = 2
    PlStrata <- MCStrata
    PlLedgers <- MCLedgers
SPECIFICATION MCSpec
CHECK_DEADLOCK FALSE
INVARIANTS KillIsRemembered 
PROPERTIES LatchUntilHuman 
