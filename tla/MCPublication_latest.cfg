CONSTANTS
  Manifests = {m1}
  Selector <- OneSelector
  Plans = {p1}
  Workers = {w1, w2}
  MaxRequests = 3
  MaxReviews = 2
  Outcomes = {"completed"}
  MaxDisturbed = 1
  MaxOrdinary = 1
  MaxAttempts = 2
SYMMETRY WorkerSymmetry
SPECIFICATION MCSpec
INVARIANTS
    LatestIsRight
    ResultsAreRight
PROPERTIES
    RemovedMembershipGetsNoResult
    LatestRowsImplementPointer
CHECK_DEADLOCK FALSE
