SPECIFICATION FairSpec
CONSTANTS
  Items = {i1}
  Revisions = {r1, r2}
  NoRev = NoRev
  AuthLimit = 2
  Providers <- OneProvider
  Kinds = {"auth", "down"}
  MaxAttempts = 2
  MaxEdits = 3
  MaxCrashes = 1
INVARIANTS
  AcknowledgedWasTold
  IncidentHeard
PROPERTIES
  NeedIsTold
CHECK_DEADLOCK FALSE
