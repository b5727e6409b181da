SPECIFICATION Spec
CONSTANTS
  None = None
  SetTask = {s1}
  DynTask = {d1}
  MaxModelTasks = 1
  Workers = 1
  MaxToggles = 0
INVARIANTS
  TerminalReported
CHECK_DEADLOCK FALSE
