SPECIFICATION BrowserSpec
CONSTANTS
  Runs = {1}
  Pauses = {1, 2}
  Callers = {c1, c2}
  Humans = {h1}
  MaxDeferreds = 2
  Interruptible = {}
  NoRun = 0
  NoPause = 0
  OutcomeLimit = 1
  IdLimit = 2
INVARIANTS
  WakesEveryWaiter
CHECK_DEADLOCK FALSE
