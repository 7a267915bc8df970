SPECIFICATION MCSpec
CONSTANTS
    Hosted = {h2}
    Balance = {b1}
    Topups = {t1, t2}
    Autopays = {a1, a2}
    Plans = {basic, pro}
    NoPlan = NoPlan
    Plan <- MCPlan
    First = old
    FirstPlan = NoPlan
    MaxFaults = 1
    NoSub = NoSub
    None = None
    Intents = {1, 2}
    CartPrice <- MCCartPrice
    Deposits = {d1, d2}
    TopupSum <- MCTopupSum
    NoIntent = NoIntent
    MaxTaps = 3
    MaxMishaps = 1
    CardRuns = {k1, k2, k3}
    MaxUnlucky = 1
    MaxGaps = 1
    People = {1, 2}
    Redeems = {q1, q2, q3}
    Redeemer <- MCRedeemer
    Limits = {1, 2}
    NoRedeem = NoRedeem
    MaxEdits = 2
    MaxPanelErrors = 2
    Taps = {t1, t2, t3}
    Shapes <- MCShapes
    Charges = {x1, x2}
    ListPrice = 2
    Funds = 3
    TrialPrice = 4
    Offs = {50, 100}
    NoTap = NoTap
    MaxSlow = 1
    MaxUpsets = 1
    Imports = {m1, m2}
    Legacy = {1, 2}
    Tagged = {1}
    LegacySum = 2
    NoRow = NoRow
    MaxLive = 1
    MaxAccidents = 1
    Tariffs = {basic, pro, free}
    PriceOf <- MCPriceOf
    Quotes = {o1, o2}
    TrialDays = 1
    Scale = 8
    NoTariff = NoTariff
    MaxSales = 3
    MaxGifts = 1
    Own = {j1}
    Adopted = {j2}
    Clients = {app, worker}
    Calls = {n1, n2}
    ClientOf <- MCClientOf
    Attempts = 2
    NoKey = NoKey
    MaxCalls = 2
    MaxLost = 2
    Sites = {1, 2}
    Bugs = {1, 2}
    MaxPending = 1
    MaxCount = 2
    MaxIssues = 1
    MaxAlerts = 1
    MaxReports = 3
    MaxDrops = 1
    MaxPresses = 1
    d1 = d1
    d2 = d2
    q1 = q1
    q2 = q2
    q3 = q3
    t1 = t1
    t2 = t2
    t3 = t3
    h2 = h2
    b1 = b1
    basic = basic
    pro = pro
    free = free
    n1 = n1
    n2 = n2
    app = app
    worker = worker
INVARIANTS
    PaidTimeKept
    PanelNeverBehind
    PromiseKept
    AtMostOnce
    OneShotsSpentOnce
    TillIsHonest
    RowsMeetTheirUsers
    TroublesAreTold
    NothingFromNothing
PROPERTIES
    RenewedOncePerPeriod
    PacksKept
CHECK_DEADLOCK FALSE
