SPECIFICATION Spec
CONSTANTS
    Payments = {d, s}
    Deposits = {d}
    Pollable = {d}
    Editable = {d}
    Retryable = {}
    Invoice = 20
    Received = {18, 19, 22, 40, 41}
    NoAmount = NoAmount
    Workers = {w1, w2}
    Sweeps = {sw}
    Checks = {ck}
    Admins = {ad}
    Nobody = Nobody
    NoJob = NoJob
    MaxAttempts = 2
    MaxRuns = 2
    MaxFaults = 1
    MayCrash = TRUE
INVARIANTS
    EffectMatchesRow
    BuyerToldTheTruth
    RefundTargetsCharge
PROPERTIES
    StatusOnlyAdvances
    ImplementsSettlement
SYMMETRY WorkerSymmetry
CHECK_DEADLOCK FALSE
