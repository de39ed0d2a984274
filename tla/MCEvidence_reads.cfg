SPECIFICATION StoreSpec
CONSTANTS
  s1 = s1
  s2 = s2
  none = none
  Writers = {s1, s2}
  Rows <- MCRows
  CaptureOf <- MCCaptures
  FilingOf <- MCFilings
  ObservationOf <- MCObservations
  Issuer = "acme"
  Queries <- MCQueries
  Series <- MCSeries
  MaxStatements = 2
SYMMETRY Symmetry
INVARIANTS
    StoreIsWhole
    UsableIsUsable
PROPERTIES
    PinnedReadsRepeat
CHECK_DEADLOCK FALSE
