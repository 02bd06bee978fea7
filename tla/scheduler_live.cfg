SPECIFICATION FairSpec
CONSTANTS
    Order <- OrderPair
    News = {news}
    Ibkr = {prices}
    Macro = {}
    Market = {news, prices}
    Enabled = {news, prices}
    Configured = {news, prices}
    Routes = {"normalized"}
    SidecarSlots = {worker1, worker2}
    CliSlots = {cli1}
    Interval = 1
    Prompt = TRUE
    MaxLives = 1
    MaxFaults = 1
    MaxManual = 1
    NoSource = NoSource
    Free = Free
    news = news  extra = extra  wire = wire  prices = prices  series = series  dates = dates
    worker1 = worker1  worker2 = worker2  cli1 = cli1
INVARIANTS SnapshotFresh
PROPERTIES DueIsAttempted
CHECK_DEADLOCK FALSE
