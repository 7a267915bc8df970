SPECIFICATION FairSpec
CONSTANTS
    Payments = {d, s}
    Deposits = {d}
    Pollable = {d}
    Editable = {d}
    Retryable = {}
    Invoice = 20
    Received = {22}
    NoAmount = NoAmount
    Workers = {w1}
    Sweeps = {sw}
    Checks = {}
    Admins = {}
    Nobody = Nobody
    NoJob = NoJob
    MaxAttempts = 1
    MaxRuns = 3
    MaxFaults = 2
    MayCrash = FALSE
INVARIANTS
    PaidIsNotForgotten
PROPERTIES
    PaidIsSettled
CHECK_DEADLOCK FALSE
