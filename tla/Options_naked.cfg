INIT PaperInit
NEXT PaperNext
CONSTANTS
    Components <- OptionsOnly
    MaxCredentials = 2
    MaxDeskTicks = 1
    MaxDeskBusy = 2
    MaxDeskCrashes = 1
    MaxLots = 2
    MaxUnits = 2
    MaxOptionRestarts = 1
    Strike = {2, 3, 4}
    Premium = {1, 3}
    MaxSettlement = 6
    Expiry = {0, 2}
    MinDays = 1
    Lots = {1, 2}
    SpreadWidth = {1, 2}
    LotSize = {1, 2}
    MaxDepth = 2
    LossLimit = 3
    MarginPct = 50
    GatePrice = {6, 10, 11}
    BandWidth = 3
    GateCapital = {100, 200}
    SizePct = 10
    StopLossPct = 5
    PositionLimitPct = 10
    BandPct = 20
    ThinBook = 2
    BrokerCaller = {c1, c2, c3}
    Threshold = 2
    Cooldown = 2
    NeverOpened = NeverOpened
    MaxTime = 5
    BrokerAsker = {a1, a2}
    Contract = {"near", "far"}
    MaxLists = 3
    Listing <- ThreeListings
    MaxListTime = 3
    NfoTtl = 2
    IndexTtl = 2
    RetryAfter = 1
    MaxSavedKeys = 2
CHECK_DEADLOCK FALSE
INVARIANT NeverNaked
