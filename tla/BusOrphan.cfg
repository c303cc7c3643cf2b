CONSTANTS
    Commands = {1}
    Consumers = {listener, cycle}
    Listener = listener
    Emergency = {1}
    Probes = {}
    Keys = {1}
    KeyOf <- MCOwnKeys
    Configured = TRUE
    FaultPoints = {}
    LostPoints = {}
    Mirroring = FALSE
    Cap = 2
    MaxAttempts = 1
    MaxCrashes = 1
SPECIFICATION FairSpec
CHECK_DEADLOCK FALSE
PROPERTY OrphanIsRefired
