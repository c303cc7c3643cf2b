CONSTANTS
    Commands = {1, 2}
    Consumers = {listener, cycle}
    Listener = listener
    Emergency = {1}
    Probes = {2}
    Keys = {1}
    KeyOf <- MCSharedKey
    Configured = TRUE
    FaultPoints = {"insert", "select", "cas"}
    LostPoints = {}
    Mirroring = TRUE
    Cap = 2
    MaxAttempts = 1
    MaxCrashes = 0
    OvProcs = {1, 2}
    OvKeys = {"spy", "portfolio"}
    OvMaxOps = 3
    OvMaxFaults = 1
    SuThreads = {"t1", "t2"}
    SuIds = {"entry", "exit"}
    SuSide <- MCSide
    SuAction <- MCAction
    SuQty = 2
    SuLegs = {"spy"}
    SuAllowed = {"spy"}
    SuEngaged = {"recon_lock", "capital"}
    SuMaxFaults = 1
    PfQtys <- MCQtys
    PfPrices = {1}
    PfWindows <- MCWindows
    PfMaxBars = 2
    PfMaxFills = 3
    PfMaxNow = 2
    PcProcs = {1, 2}
    PcStrategies <- MCStrategies
    PcResearch <- MCResearch
    PcFirst <- MCFirst
    PcMaxFaults = 1
    PcMaxCommits = 2
SPECIFICATION MCSpec
CHECK_DEADLOCK FALSE
PROPERTIES LocalTerminalFinal  SuSubmitsSafely  
