SPECIFICATION FairSpec
CONSTANTS
    Task = {"a", "b", "c"}
    Deps <- JoinDeps
    Typed <- NoDeps
    Produces = {}
    ConcurrencySafe = {"a", "b"}
    TransientProne = {}
    PermanentProne = {}
    Driver = {d1}
    Retrier = {}
    MaxPlanAttempts = 1
    MaxPauses = 0
    MaxRetries = 0
    MaxCrashes = 0
CHECK_DEADLOCK FALSE
PROPERTY WakesOnCompletion
