SPECIFICATION Spec
CONSTANTS
  NoOne = NoOne
  w1 = w1
  Harness = {h1}
  Child = {c1}
  Emitter = {c1, h1}
  ExplicitId <- ScenarioIds
  MayPanic = FALSE
  MaxSessions = 2
  MaxEvents = 2
  MaxLegacy = 0
  LegacyRoom = 0
INVARIANTS
  StableIds
CHECK_DEADLOCK FALSE
