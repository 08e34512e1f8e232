SPECIFICATION Spec
CONSTANTS
  Briefings = {b1, b2}
  Revisions = {r1, r2}
  Reviewers = {v1, v2}
  Publishers = {p1, p2}
  NoRev = NoRev
  NoOne = NoOne
SYMMETRY Interchangeable
INVARIANTS
  PublishedAsApproved
  TornPairIsMarked
PROPERTIES
  FrozenByClaim
CHECK_DEADLOCK FALSE
