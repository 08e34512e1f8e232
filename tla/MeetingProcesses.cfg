SPECIFICATION Spec
CONSTANTS
  Items = {i1}
  Revisions = {r1, r2}
  Workers = {w1, w2}
  Reviewers = {v1}
  NoRev = NoRev
  NoItem = NoItem
  MaxAttempts = 1
  AuthLimit = 2
SYMMETRY Symmetry
INVARIANTS
  OneClaimant
  OutstandingIsApproved
  ApprovalIsReviewed
PROPERTIES
  UncertaintyFreezes
  AbandonedStays
CHECK_DEADLOCK FALSE
