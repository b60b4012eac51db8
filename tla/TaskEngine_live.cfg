SPECIFICATION FairSpec
CONSTANTS
    Task = {"a", "b", "c"}
    Deps <- TriangleDeps
    Typed <- NoDeps
    Produces = {}
    ConcurrencySafe = {}
    TransientProne = {"c"}
    PermanentProne = {"a", "b", "c"}
    Driver = {d1, d2}
    Retrier = {r1, r2}
    MaxPlanAttempts = 1
    MaxPauses = 2
    MaxRetries = 2
    MaxCrashes = 0
CHECK_DEADLOCK FALSE
PROPERTIES RunLeavesRunning WakesOnCompletion FailureReachesDependents
