SPECIFICATION FairSpec
CONSTANTS
  NoOne = NoOne
  Waiter = {w1, w2, w3}
  Adder = {}
  Permit = {p1, p2}
  Initial = {p1, p2}
  Weights = {1, 2}
  IsSemaphore = FALSE
  MaxToggles = 0
INVARIANTS
  NoBarging
  ReportedExclusion
PROPERTIES
  TraceSpec
  WaitersServed
CHECK_DEADLOCK FALSE
