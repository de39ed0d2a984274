CONSTANTS
  Requests = {r1, r2}
  Issuers = {i1, i2}
  Scenarios <- MCScenarios
  r1 = r1
  r2 = r2
  i1 = i1
  i2 = i2
  MaxExecutions = 2
  MaxDisturbed = 1
  SharedRows = 2
SPECIFICATION Spec
INVARIANTS
    NeverStuck
    BatchesWhole
CHECK_DEADLOCK FALSE
