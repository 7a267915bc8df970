SPECIFICATION FairSpec
CONSTANTS
    h1 = h1
    h2 = h2
    h3 = h3
    b1 = b1
    b2 = b2
    t1 = t1
    t2 = t2
    basic = basic
    pro = pro
    Hosted = {h1, h3}
    Balance = {}
    Topups = {t1}
    Autopays = {a1}
    Plans = {basic, pro}
    NoPlan = NoPlan
    Plan <- MCPlan
    First = None
    FirstPlan = NoPlan
    MaxFaults = 1
    NoSub = NoSub
    None = None
INVARIANTS
    OneAccountPerUser
PROPERTIES
    PaidIsFulfilled
CHECK_DEADLOCK FALSE
