CONSTANTS
    Commands = {1}
    Consumers = {listener, cycle}
    Listener = listener
    Emergency = {1}
    Probes = {}
    Keys = {1}
    KeyOf <- MCOwnKeys
    Configured = TRUE
    FaultPoints = {"insert", "fetch", "cas", "mark", "sqlite"}
    LostPoints = {"insert", "cas"}
    Mirroring = FALSE
    Cap = 2
    MaxAttempts = 1
    MaxCrashes = 2
    TbThreads = {"bg", "main"}
    TbBg = "bg"
    TbLocked = 2
    TbActiveCap = 3
    TbWindowMax = 3
    TbMaxBars = 3
    TbMaxTicks = 1
    TbMaxRefreshes = 2
    FhTypes = {"stock", "crypto"}
    FhConfigured = {"stock", "crypto"}
    FhLegs = {"stock"}
    FhAlways = {"crypto"}
    FhDegraded = 2
    FhCeiling = 0
    FhStreak = 2
    FhStall = 1
    FhMaxNow = 3
    FhMaxStarts = 2
    MgStale = 1
    MgFresh = 1
    MgConfirm = 2
    MgMaxNow = 3
    MgMaxEvents = 3
    CsLegs = {1, 2}
    CsSafe = {1}
    CsWait = 2
    CsMaxNow = 5
    CsMaxStarts = 2
SPECIFICATION MCSpec
CHECK_DEADLOCK FALSE
INVARIANTS SingleOwner RefireBound FhShows 
  
