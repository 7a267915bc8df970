SPECIFICATION Spec
CONSTANTS
    h1 = h1
    h2 = h2
    h3 = h3
    b1 = b1
    b2 = b2
    t1 = t1
    t2 = t2
    basic = basic
    pro = pro
    Hosted = {h1, h2}
    Balance = {}
    Topups = {}
    Autopays = {}
    Plans = {basic, pro}
    NoPlan = NoPlan
    Plan <- MCPlan
    First = None
    FirstPlan = NoPlan
    MaxFaults = 0
    NoSub = NoSub
    None = None
INVARIANTS
    OneAccountPerUser
CHECK_DEADLOCK FALSE
