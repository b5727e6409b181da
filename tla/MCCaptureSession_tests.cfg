SPECIFICATION FairSpec
CONSTANTS
  NoOne = NoOne
  w1 = w1
  Harness = {h1, h2}
  Child = {w1, c1}
  Emitter = {w1, c1}
  ExplicitId <- WorkerIds
  MayPanic = TRUE
  MaxSessions = 2
  MaxEvents = 1
  MaxLegacy = 1
  LegacyRoom = 1
INVARIANTS
  TypeOK
  SessionExclusive
  FinishReturnsAll
  WorkersDoNotPollute
PROPERTIES
  SessionEnds
CHECK_DEADLOCK FALSE
