SPECIFICATION FairSpec
CONSTANTS
  MaxInstances = 2
  Old = {1}
  Clients = {c1}
  Main = Main
  MaxPis = 3
  MaxStarts = 2
INVARIANTS
  NoZombie
  NobodyAwaitsTheDead
  LeftoversExplained
  RecordsTruthful
  HeartbeatKept
PROPERTIES
  ShutdownEnds
CHECK_DEADLOCK FALSE
