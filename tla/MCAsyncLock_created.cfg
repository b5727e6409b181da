SPECIFICATION Spec
CONSTANTS
  NoOne = NoOne
  Waiter = {w1, w2}
  Adder = {}
  Permit = {p1, p2}
  Initial = {p1, p2}
  Weights = {1}
  IsSemaphore = TRUE
  MaxToggles = 0
INVARIANTS
  CreatedFirst
CHECK_DEADLOCK FALSE
