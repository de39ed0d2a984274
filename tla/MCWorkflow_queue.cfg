SPECIFICATION MCSpec
CONSTANTS
    r1 = r1
    r2 = r2
    r3 = r3
    w1 = w1
    NoWorker = NoWorker
    Requests = {r1, r2, r3}
    Workers = {w1}
    Trigger <- Kinds
    MaxAttempts <- AttemptsOfEach
    Scheduled = {r2}
    StageKeys = {"sec_bootstrap_manifest", "sec_monitor_result"}
    AttemptLimit = 2
    LeaseTimes = {1}
    Delays = {1}
    Backoff <- BackoffTicks
    MaxStageAttempts = 1
    MaxRenewals = 1
INVARIANTS
    LeaseHasOneHolder
    NoOrphanedStage
    SuccessIsBacked
PROPERTIES
    LostLeaseStaysLost
    HistoryIsFinal
    ImplementsLifecycle
    EveryRequestEnds
CHECK_DEADLOCK FALSE
