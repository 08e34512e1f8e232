SPECIFICATION FairSpec
CONSTANTS
  Runs = {1, 2}
  Pauses = {1, 2, 3}
  Callers = {c1, c2, c3}
  Interruptible = {c1}
  NoRun = 0
  NoPause = 0
  OutcomeLimit = 1
  IdLimit = 2
INVARIANTS
  TypeOK
  Accounted
PROPERTIES
  MissingIsSettled
  ImplementsLedger
  EndReleasesAll
CHECK_DEADLOCK FALSE
