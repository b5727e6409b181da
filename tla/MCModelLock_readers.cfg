SPECIFICATION StdSpec
CONSTANTS
  Unheld = Unheld
  StdThread = {t1, t2}
  StdLock = {a, b}
  StdRwLock = {a, b}
  Engines = {TRUE}
  UseTry = FALSE
SYMMETRY Symmetry
INVARIANTS
  NoFalseReaderCycle
CHECK_DEADLOCK FALSE
