CONSTANTS
    N = 6
    GroupOf <- MCGroupOf
    Groups <- MCGroups
    Snapshot = {"risk"}
    Replicated = {"ledger"}
    Piecewise = {"metrics"}
    Poisoned = {"metrics"}
    Unreadable = {1}
    Restored = 1
    Writers = {w1}
    BatchSize = 3
    BaseBatches = 1
    BurstBatches = 2
    HighWater = 3
    MaxFaults = 1
SPECIFICATION FairSpec
CHECK_DEADLOCK FALSE
PROPERTIES QueueKeeps QueueServes
