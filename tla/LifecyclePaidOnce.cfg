SPECIFICATION LifecycleSpec
CONSTANTS
    Shops <- MCPaid
    Period = 1
    Grace = 1
    Cooldown = 2
    Lookback = 2
    MaxTime = 4
    MaxOrders = 1
    MaxCuts = 1
    MaxEvents = 2
    MaxFaults = 1
    CommitFails = TRUE
INVARIANTS
    NoFreeTime
CHECK_DEADLOCK FALSE
