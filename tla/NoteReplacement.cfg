SPECIFICATION Spec
CONSTANTS
  Writers = {w1, w2}
  Texts = {t1, t2}
  NoWriter = NoWriter
  NoText = NoText
  MaxFiles = 4
  MaxEdits = 2
SYMMETRY Symmetry
INVARIANTS
  NothingLeft
PROPERTIES
  ImplementsReplace
CHECK_DEADLOCK FALSE
