SPECIFICATION MCSpec
CONSTANTS
    Sales = {1, 2}
    ReceiptRuns = {r1, r2}
    NoSale = NoSale
    MaxTroubles = 2
    MaxToggles = 3
    MaxDeaths = 1
    Stuck = {1, 2, 3}
    Latest = {3}
    PageSize = 2
    Sweeps = {w1, w2}
    NoSweep = NoSweep
    MaxTimeouts = 2
    Accounts = {1, 2, 3}
    WebAccount = 1
    Invoices = {i1, i2}
    PayerOf <- MCPayerOf
    InviterOf <- MCInviterOf
    Confirms = {c1, c2}
    Tapper <- MCTapper
    NoAccount = NoAccount
    NoWorker = NoWorker
    MaxBreaks = 1
    Rewards = {g1, g2, g3}
    NoReward = NoReward
    MaxRollbacks = 2
    InvoiceSum = 20
    OddSums = {18, 19, 22, 41}
    MaxBlips = 1
    LastRevision = 2
    MaxRequests = 1
    MaxBroken = 1
    MaxFlips = 1
    a = a
    b = b
    d1 = d1
    d2 = d2
    p1 = p1
    s1 = s1
    s2 = s2
    i1 = i1
    i2 = i2
    c1 = c1
    c2 = c2
    Nobody = Nobody
    NoJob = NoJob
INVARIANTS
    OnceOnly
    JobsKeepApart
    MergeKeepsBooks
    CreditIsTrue
    AckedIsUnderWay
PROPERTIES
    JobsGetThere
    MoneyArrives
CHECK_DEADLOCK FALSE
