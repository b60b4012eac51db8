SPECIFICATION WatchSpec
CONSTANTS
    Watching <- AllWatched
    HookReq = {r1, r2}
    MaxEpisodes = 2
    MaxAlertCrashes = 1
    Evaluator = {e1, e2}
    Resetter = {r1, r2}
    MaxEquity = 2
    LimitPct = 50
    MaxSwitchResets = 1
    Reaper = {r1}
    MayBeOff = {"backtesting"}
    MaxValidationAttempts = 2
    MaxRejections = 2
    RecursionLimit = 19
    MaxRedisFaults = 1
    MaxStoreFaults = 1
CHECK_DEADLOCK FALSE
INVARIANTS
    WatchTypeOK
    OneTripPerReset
PROPERTIES
    ClearedAfterOpened
    OperatorLearns
    DrawdownTrips
    RunEnds
