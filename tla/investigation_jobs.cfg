SPECIFICATION Spec
CONSTANTS
    Jobs = {j1, j2}
    Controllers = {c1, c2}
    Tickers = {k1}
    TickerOf <- MCTickerOf
    CallIds = {m1}
    MaxFaults = 1
    j1 = j1  j2 = j2  c1 = c1  c2 = c2  k1 = k1  m1 = m1  m2 = m2
    Nobody = Nobody   NoCall = NoCall
INVARIANTS NoLostCall CancelHonoured CancelledWasAsked OneJobPerTicker
PROPERTIES LedgerSpec
SYMMETRY Symmetry
CHECK_DEADLOCK FALSE
