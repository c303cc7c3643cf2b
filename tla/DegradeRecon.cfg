CONSTANTS
    Legs = {spy, btc}
    Crypto = {btc}
    SoftStreak = 3
    HardStreak = 6
    MaxCrashes = 0
    MaxClock = 1
SPECIFICATION Spec
CHECK_DEADLOCK FALSE
PROPERTY ReconNeedsReset
