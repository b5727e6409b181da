SPECIFICATION EmitFairSpec
CONSTANTS
  Worker = {w1, w2}
  Helper = {u}
  EmitsEach = 1
  LegacyCap = 3
  QueueCap = 1
  MaxBatch = 2
  Free = Free
  Harnesses = {"byoc"}
PROPERTIES
  ByocCollects
CHECK_DEADLOCK FALSE
