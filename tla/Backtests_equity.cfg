INIT StrategyInit
NEXT StrategyNext
CONSTANTS
    Components <- BacktestsOnly
    Flow = {f1, f2}
    MaxVersions = 2
    MaxApprovals = 2
    MaxSuggestions = 1
    MaxDays = 3
    Feed = {b1, b2}
    Fetcher = {g1, g2}
    MaxLakeDays = 2
    MinHistory = 1
    RepairDays = 0
    MinTrades = 1
    MinCalendarDays = 2
    MinCleanShadowDays = 2
    Lookback = 2
    Bars = 4
    Price = {10, 20}
    Capital = 40
    SlipPct = 10
    BuyPct = 5
    SellPct = 10
    Window = {2}
    Person = {p1, p2, p3}
    Change = {k1, k2}
    LimitRequest = {r1, r2}
    Reviewed = {s1, s2}
    FillKind <- FillKinds
    MaxReportDays = 2
    MaxReportFills = 2
    MAX_PERIOD_DAYS = 2
CHECK_DEADLOCK FALSE
INVARIANT EquityNetsOut
