SPECIFICATION LimiterSpec
CONSTANTS
    w1 = w1
    w2 = w2
    w3 = w3
    Workers = {w1, w2}
    Interval <- SameRate
    Second = 4
    Grace = 1
    MaxStarts = 2
    Delays = {1}
    Losses <- AnyLoss
    MaxCalls <- ThreeCalls
    MaxTime = 12
PROPERTIES
    QuietAfterLoss
SYMMETRY WorkerSymmetry
CHECK_DEADLOCK FALSE
