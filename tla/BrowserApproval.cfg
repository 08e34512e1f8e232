SPECIFICATION BrowserSpec
CONSTANTS
  Runs = {1}
  Pauses = {1, 2, 3}
  Callers = {c1, c2, c3}
  Humans = {h1, h2}
  MaxDeferreds = 2
  Interruptible = {}
  NoRun = 0
  NoPause = 0
  OutcomeLimit = 1
  IdLimit = 2
SYMMETRY Symmetry
INVARIANTS
  OnlyHumanDecides
  DecisionKept
  PausesAreReachable
CHECK_DEADLOCK FALSE
