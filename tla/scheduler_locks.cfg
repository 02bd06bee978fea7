SPECIFICATION Spec
CONSTANTS
    Order <- OrderAll
    News = {wire}
    Ibkr = {wire, prices}
    Macro = {series, dates}
    Market = {wire, prices}
    Enabled = {prices, series}
    Configured = {wire, prices, series}
    Routes = {"normalized", "legacy", "blocked"}
    SidecarSlots = {worker1, worker2}
    CliSlots = {cli1}
    Interval = 1
    Prompt = FALSE
    MaxLives = 2
    MaxFaults = 1
    MaxManual = 1
    NoSource = NoSource
    Free = Free
    news = news  extra = extra  wire = wire  prices = prices  series = series  dates = dates
    worker1 = worker1  worker2 = worker2  cli1 = cli1
INVARIANTS SourceExclusive GatewayExclusive MacroExclusive LocksOwned RunningIsExplained
CHECK_DEADLOCK FALSE
SYMMETRY SlotSymmetry
