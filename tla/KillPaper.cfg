CONSTANTS
    flatten = flatten
    liquidate = liquidate
    halt = halt
    legA = legA
    NoStrategy = NoStrategy
    Strategies = {legA}
    Commands = {halt}
    LevelOf <- MCLevelOf
    TargetOf <- MCTargetOf
    Watchdogs = {soak}
    Acting = {soak}
    Guards = {}
    Live = FALSE
    AutoRelease = TRUE
    Required = 2
    MarketOpens = TRUE
    CoLegs = {"qqq", "spy"}
    CoQqq = "qqq"
    CoSpy = "spy"
    CoSector <- MCSector
    CoBeta <- MCBeta
    CoSharpe <- MCSharpe
    CoSplits <- MCSplits
    CoSize = 40
    CoMultiday = 1
    CoMaxDays = 3
    CoDayCap = 60
    CoMaxDay = 3
    PgProcs = {"soak", "coll"}
    PgBackoff <- MCBackoff
    PgHour = 2
    PgDay = 3
    PgCap <- MCCap
    PgDayCap = 1
    PgMay <- MCMay
    PgMaxFaults = 1
SPECIFICATION MCSpec
CHECK_DEADLOCK FALSE
 
PROPERTIES HaltIsReleased PgReaches
