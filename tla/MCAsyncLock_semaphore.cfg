SPECIFICATION Spec
CONSTANTS
  NoOne = NoOne
  Waiter = {w1, w2, w3}
  Adder = {a1}
  Permit = {p1, p2}
  Initial = {p1}
  Weights = {0, 2}
  IsSemaphore = TRUE
  MaxToggles = 2
SYMMETRY Symmetry
INVARIANTS
  TypeOK
  PermitsConserved
  ReportedHoldersHold
PROPERTIES
  ServedInOrder
CHECK_DEADLOCK FALSE
