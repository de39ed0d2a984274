CONSTANTS
  Sessions = {s1, s2}
  Keys = {k1, k2, k3}
  Quotes = {q1, q2}
  Options = {o1}
  MaxRequests = 3
SYMMETRY SessionSymmetry
SPECIFICATION Spec
INVARIANTS
    OneOfEach
PROPERTIES
    CommitsAreCurrent
