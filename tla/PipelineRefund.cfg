SPECIFICATION Spec
CONSTANTS
    Payments = {s}
    Deposits = {}
    Pollable = {}
    Editable = {}
    Retryable = {}
    Invoice = 20
    Received = {20}
    NoAmount = NoAmount
    Workers = {w1}
    Sweeps = {sw}
    Checks = {}
    Admins = {ad}
    Nobody = Nobody
    NoJob = NoJob
    MaxAttempts = 2
    MaxRuns = 2
    MaxFaults = 1
    MayCrash = TRUE
INVARIANTS
    ProviderRefundFiresOnce
CHECK_DEADLOCK FALSE
