SPECIFICATION MCSpec
CONSTANTS
    w1 = w1
    w2 = w2
    w3 = w3
    Workers = {w1, w2, w3}
    Interval <- Rates
    Second = 2
    Grace = 1
    MaxStarts = 2
    Delays = {2, 3}
    Losses <- AnyLoss
    MaxCalls <- CallsOfEach
    MaxTime = 7
INVARIANTS
    SharedBudgetKept
PROPERTIES
    WaitsKept
CHECK_DEADLOCK FALSE
