SPECIFICATION MCSpec
CONSTANTS
    o1 = o1
    o2 = o2
    k1 = k1
    k2 = k2
    Times = {0, 8, 18, 24}
    MaxSetBacks = 1
    MaxSlot = 1
    Operators = {o1, o2}
    Anchor = 8
    Cadence = 10
    SeedCutoff = 0
    InventoryStart = 0
    InventoryEnd = 24
    MaxAttempts = 2
    Units = 1
    BudgetWindow = 15
    BackoffCap = 15
    Configs <- SomeConfigs
    RevisionKeys = {k1, k2}
    CreationKey = "create"
    Hash <- Spread
SYMMETRY Interchangeable
INVARIANTS
    ScheduleHistory
    HealthAgreesWithTick
PROPERTIES
    StepsAllowed
    RequestsFollowLifecycle
CHECK_DEADLOCK FALSE
