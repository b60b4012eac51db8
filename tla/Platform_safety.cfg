INIT PlatformInit
NEXT PlatformNext
CONSTANTS
    Components <- AllComponents
    User = {u1, u2}
    Admin = Admin
    OtherRole = OtherRole
    AccountReq = {a1, a2}
    MaxFailures = 2
    SessionUser = {u1}
    AuthReq = {q1, q2}
    MaxTokens = 3
    MaxKeys = 2
    Entity = {n1, n2}
    Writer = {w1, w2}
    MaxEntries = 3
    MaxRestores = 1
    Callback = {c1, c2}
    MaxApiKeys = 3
    Delivery = {d1, d2, d3}
    MaxClock = 4
    RateLimit = 1
    ConfigEditor = {e1, e2}
    OutsideChange = {h}
    MaxConfigVersions = 3
    MaxGatewayRestarts = 1
    MaxBackups = 3
    MaxDbChanges = 2
    MaxBackupDays = 3
    KeepCount = 0
    RetentionDays = 1
    MaxBackupFaults = 1
    Schedule = {s1, s2}
    ScheduleReq = {r1, r2}
    MaxRunsKept = 2
    MaxBoots = 2
    PromptReq = {r1, r2}
    MaxPrompts = 3
    Provider = {p1, p2}
    LlmCall = {c1}
    Kind = {k1}
    Lesson = {t1, t2}
    EmbeddingModel = {m1, m2}
    LargeModel = {m2}
    Rememberer = {w1, w2}
    RecallLimit = 1
    MaxQueryLimit = 2
    Tab = {t1, t2}
    MaxTurns = 3
    MaxChunks = 2
    Emitter = {e1, e2}
    Viewer = {v1, v2}
    Ticket = {k1, k2}
    BackfillRows = 1
    MaxRows = 3
    Caller = {c1, c2}
    PoolSize = 1
    MaxSandboxCalls = 2
    MaxWorkers = 3
    Reaper = {r1}
    MayBeOff = {"backtesting"}
    MaxValidationAttempts = 2
    MaxRejections = 1
    RecursionLimit = 13
    MaxRedisFaults = 0
    MaxStoreFaults = 0
    TaskKey <- PlanKeys
    Proposals <- SmallPlans
CHECK_DEADLOCK FALSE
INVARIANTS
    PlatformTypeOK
    AccessHolds
    AuditTrail
    OnceOnly
    WhatIsKeptStays
    AgentsAreHeld
    PromptsInUse
