CONSTANTS
    Commands = {1, 2}
    Consumers = {listener, cycle}
    Listener = listener
    Emergency = {2}
    Probes = {1}
    Keys = {1, 2}
    KeyOf <- MCOwnKeys
    Configured = FALSE
    FaultPoints = {}
    LostPoints = {}
    Mirroring = FALSE
    Cap = 1
    MaxAttempts = 1
    MaxCrashes = 1
    CgMaxVersion = 3
    DmCycleTime = 1
    DmCooldown = 2
    DmMaxFaults = 2
    SeEquities = {1, 2}
    SeMaxSessions = 3
    SeMaxFaults = 2
    MrPnls = {0, 1}
    MrStale = 1
    MrMaxSteps = 3
    MrMaxFaults = 2
    TgMargins = {10, 84, 90}
    TgCeiling = 80
    TgAlert = 85
    TgWindow = 1
    TgStorm = 2
    TgKept = 3
    TgMaxNow = 3
    TgMaxRejects = 4
    BtPrices = {10, 20}
    BtSizes = {2}
    BtEquity = 40
    BtSlip = 10
    BtLimit = 20
    BtWarm = 2
    BtMaxBars = 5
SPECIFICATION MCSpec
CHECK_DEADLOCK FALSE
PROPERTIES StagedIsResolved CgInStep  SeMeasures MrTells TgBrakes BtAddsUp
