SPECIFICATION Spec
CONSTANTS
    k1 = k1  k2 = k2  k3 = k3  l1 = l1
    Tickers = {k1, k2, k3}
    Lists = {l1}
    Meta = Meta
    Plans <- MCPlans
    Executors = {sched, user}
    Origins <- MCOrigins
    Holdings <- MCHoldings
    MaxPlans = 2
    MaxEdits = 1
    None = None
INVARIANTS RoundTrip
PROPERTIES AppliedAsApproved
CHECK_DEADLOCK FALSE
