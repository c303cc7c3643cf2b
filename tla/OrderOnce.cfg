CONSTANTS
    spy = spy
    btc = btc
    exit = exit
    Orders <- MCOrders
    Crypto = {btc}
    Liquidation = {exit}
    Calls = {c1, c2}
    Batches <- MCBatches
    Qty <- MCQty
    TwapSlices = 2
    MaxCrashes = 1
    FsMaxOrders = 2
    FsQty = 2
    FsThreshold = 3
    FsMaxBars = 3
SPECIFICATION MCSpec
CHECK_DEADLOCK FALSE
INVARIANTS OncePerProcess MarketOnce
PROPERTIES ReservedIsTried 
