SPECIFICATION Spec
CONSTANTS
    a = a
    b = b
    d1 = d1
    d2 = d2
    p1 = p1
    s1 = s1
    Users = {a, b}
    Payments = {d1, d2}
    Topups = {d1, d2}
    Purchases = {p1}
    Requests = {r1, r2}
    Sessions = {s1, s2}
    Askers = {s1, s2}
    Corrections <- MCDebit
    MaxCorrections = 0
    Referrer <- MCOneReferrer
    Rate <- MCRate
    Payer <- MCPayer
    Sum <- MCSum
    Buyer <- MCBuyer
    Price <- MCPrice
    MinWithdrawal = 10
    Nobody = Nobody
    NoJob = NoJob
INVARIANTS
    HoldsWithinEarnings
CHECK_DEADLOCK FALSE
