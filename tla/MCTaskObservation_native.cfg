SPECIFICATION FairSpec
CONSTANTS
  None = None
  SetTask = {s1, s2}
  DynTask = {d1}
  MaxModelTasks = 2
  Workers = 1
  MaxToggles = 2
INVARIANTS
  ObservationSound
PROPERTIES
  JoinersServed
CHECK_DEADLOCK FALSE
