SPECIFICATION FairSpec
CONSTANTS
  MaxMsgs = 3
  Callers = {c1, c2}
  NoCaller = NoCaller
  MaxCalls = 2
  MaxTurns = 1
  MaxThrows = 1
  MaxRetries = 1
INVARIANTS
  TypeOK
  DeliveredOnce
  ContextIsTranscript
  CallsAnswered
  NothingLeftQueued
PROPERTIES
  AbortEnds
CHECK_DEADLOCK FALSE
