SPECIFICATION Spec
CONSTANTS
  Items = {i1, i2}
  Revisions = {r1}
  Workers = {w1}
  Reviewers = {v1}
  NoRev = NoRev
  NoItem = NoItem
  MaxAttempts = 1
  AuthLimit = 2
SYMMETRY Symmetry
PROPERTIES
  ImplementsGate
CHECK_DEADLOCK FALSE
