SPECIFICATION FairSpec
CONSTANTS
  Items = {i1}
  Revisions = {r1, r2}
  Workers = {w1}
  Reviewers = {v1}
  NoRev = NoRev
  NoItem = NoItem
  MaxAttempts = 2
  AuthLimit = 2
INVARIANTS
  TypeOK
  AtMostOneCopy
  PublishedIsDelivered
  CheckpointIsTrue
PROPERTIES
  OnlyApprovedText
  ClaimResolved
CHECK_DEADLOCK FALSE
