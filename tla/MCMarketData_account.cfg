CONSTANTS
  Policies = {p1}
  Requests = {r1, r2}
  Workers = {w1, w2}
  Dispatches = 2
  Quota = 3
  Hour = 1
  ReviewEnds = 1
  Horizon = 2
  MaxExecutions = 2
  MaxDisturbed = 1
SYMMETRY Interchangeable
SPECIFICATION Spec
INVARIANTS
    BudgetsKept
    FetchesAccounted
PROPERTIES
    SentUnderActivePolicy
CHECK_DEADLOCK FALSE
