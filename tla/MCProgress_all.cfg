SPECIFICATION ProgressSpec
CONSTANTS
  Timer = {t1}
  Span = {1, 2, 5}
  MaxNanos = 4
  MaxTicks = 3
  Harnesses = {"target", "byoc", "session"}
  Worker = {w1, w2}
  Helper = {u}
  EmitsEach = 1
  LegacyCap = 2
  QueueCap = 1
  MaxBatch = 2
  Free = Free
  ScopeInputs <- ScopeLists
  PathInputs <- Paths
  MaxVisits = 1
  MaxDecls = 2
  Metas <- MetaInputs
  Items <- ItemInputs
  MaxMetas = 2
  MaxTests = 1
  FieldInputs <- StructFields
  MaxFields = 3
INVARIANTS
  TimersSound
  
  ImportsTransparent
  VerdictsSound
  ResourcesDistinct
PROPERTIES
  Progress
CHECK_DEADLOCK FALSE
