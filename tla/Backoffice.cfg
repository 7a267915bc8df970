SPECIFICATION MCSpec
CONSTANTS
    Users = {a, b}
    Payments = {d1, d2}
    Topups = {d1, d2}
    Purchases = {p1}
    Requests = {r1, r2}
    Sessions = {s1, s2, s3}
    Askers = {s1}
    Corrections <- MCDebit
    MaxCorrections = 1
    Referrer <- MCReferrer
    Rate <- MCRate
    Payer <- MCPayer
    Sum <- MCSum
    Buyer <- MCBuyer
    Price <- MCPrice
    MinWithdrawal = 10
    Nobody = Nobody
    NoJob = NoJob
    Tokens = {1, 2, 3}
    Browsers = {b1, b2}
    NoToken = 0
    MaxBlocks = 1
    UserRows = {1, 2}
    TelegramRows = {1}
    Mails = {e1}
    NoMail = NoMail
    Identities = {gi, vk}
    Vouched <- MCVouched
    Visits = {v1, v2}
    NoRowId = 0
    VerifyMail = TRUE
    MaxGuesses = 1
    BuiltIns <- MCBuiltIns
    SysButtons <- MCSysButtons
    Customs = {"c1"}
    Nodes = {n1, n2}
    Root = Root
    Editors = {m1, m2}
    MaxSaves = 2
    MaxTweaks = 1
    Readers = {1, 2}
    FirstEnd <- MCFirstEnd
    Steps = {0, 1, 4}
    Lookback = 2
    DayLength = 3
    SendAt = 1
    WinbackPct = 30
    PromoPct = 50
    NoticeRuns = {u1, u2}
    LongestRun = 2
    LastTick = 4
    MaxRuns = 2
    MaxOrders = 1
    MaxRunDeaths = 1
    Tickets = {1, 2, 3}
    NoTicket = 0
    Writings = {1, 2, 3}
    MaxTurns = 2
    MaxStaff = 1
    MaxHiccups = 1
    Chats = {u1, u2}
    Groups = {"all", "active"}
    Casts = {1, 2}
    SendTaps = {t1}
    BatchSize = 2
    MaxMoves = 1
    MaxSendFaults = 1
    BackupRuns = {1, 2, 3}
    Keep = 1
    MaxSeconds = 2
    MaxDays = 1
    MaxButtons = 2
    MaxBreakdowns = 1
    Contacts = {1, 2}
    Campaigns = {g1, g2}
    NoLink = NoLink
    MaxGateFlips = 2
    MaxLostUpdates = 1
    Processes = {app, worker}
    Handlers = {1, 2}
    Words = {"word"}
    Mask = "mask"
    Ttl = 2
    MaxChanges = 2
    MaxMoments = 3
    MaxMisfortunes = 1
    a = a
    b = b
    d1 = d1
    d2 = d2
    p1 = p1
    s1 = s1
    e1 = e1
    gi = gi
    vk = vk
SYMMETRY OtherSessions
INVARIANTS
    LedgerReconciles
    NeverOverdrawn
    RewardWithinPayment
    HoldsWithinEarnings
    SignInHolds
    ScreensAreAsSaved
    OfficeInOrder
PROPERTIES
    AnsweredOnce
CHECK_DEADLOCK FALSE
