SPECIFICATION Spec
CONSTANTS
    Task = {"a", "b", "c"}
    Deps <- JoinDeps
    Typed <- TypedDeps
    Produces = {"a"}
    ConcurrencySafe = {"a", "b"}
    TransientProne = {"a", "b", "c"}
    PermanentProne = {"a", "b", "c"}
    Driver = {d1, d2}
    Retrier = {r1}
    MaxPlanAttempts = 2
    MaxPauses = 2
    MaxRetries = 2
    MaxCrashes = 2
SYMMETRY Symmetry
CHECK_DEADLOCK FALSE
INVARIANTS IInv DependencyOrder CancelStopsWork CompletedMeansAllSucceeded NoOrphans
PROPERTIES EndedTasksStay ContractSpec
