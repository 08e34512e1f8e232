SPECIFICATION Spec
CONSTANTS
  MaxMsgs = 2
  Callers = {c1, c2}
  NoCaller = NoCaller
  MaxCalls = 1
  MaxTurns = 1
  MaxThrows = 0
  MaxRetries = 1
INVARIANTS
  AcceptedIsSeen
CHECK_DEADLOCK FALSE
