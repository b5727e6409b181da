SPECIFICATION SeamsSpec
CONSTANTS
  None = None
  Thread = {t1, t2}
  Eager = {e1, e2}
  Lazy = {l1, l2}
  MaxId = 5
  MaxResets = 1
  FanKinds = {"watch", "broadcast"}
  Nobody = Nobody
  Tx = {h1, h2}
  Tx1 = h1
  Rx = {r1, r2}
  Rx1 = r1
  Ring = 1
  MaxSends = 2
  Waiter = {w1, w2}
  Notifier = {n1, n2}
  MaxNotifies = 3
  Client = {c1, c2}
  Value = {x, y}
  Nothing = Nothing
  MaxVersion = 2
  NoOne = NoOne
  Unheld = Unheld
  StdThread = {s1, s2}
  StdLock = {m1, m2, m3}
  StdRwLock = {m3}
  Engines = {TRUE, FALSE}
  UseTry = TRUE
  Locker = {k1, k2}
  Lock = {a, b, c}
  SharedLock = {b, c}
  MaxAcquires = 4
  Flavours = {"tokio", "std", "parking_lot"}
  PermitCall = {p1, p2, p3}
  Caller = {1, 2}
  Permits = 2
  OsThread = {o1, o2}
  SetTasks = 1
  DynBase = 2
  MaxDyn = 1
  MaxSlotSets = 1
  MaxReports = 2
  NoTask = NoTask
  Seeds = {7, 42}
  Tid32 = 4096
  ProbeIds = {0, 1, 4095, 4096, 5000}
  RingCap = 3
  Ctx = {k3, k4}
  Request = {q3, q4}
  Slot = {slot}
  NoSlot = NoSlot
  Absent = Absent
  Acts <- ActInputs
  Gates = {g}
  MaxThreads = 2
  MaxActions = 3
  ScenarioSteps <- StepInputs
  MaxSteps = 2
  ChaosEvents <- ChaosInputs
  Profiles <- ProfileInputs
  UserIds = {0, 1, 2}
  MaxChaos = 2
  MaxMillis = 2100
  Tick = 700
  Word = 256
  RoundedUp <- RoundedInputs
  NaN = NaN
  SimThread = {q1, q2}
  MaxStamp = 3
  MaxTraced = 4
  SimDelays = {0, 1}
  MaxScheduled = 4
SYMMETRY Symmetry
INVARIANTS
  IdsSound
  FanSound
  WakesExplained
  CellSound
  VerifierSound
  StdPictureSound
  PermitsSound
  HooksSound
  WireSound
  
  ProbesSound
  
  OrderSound
PROPERTIES
  CellOrder
  ContendedOnlyBehindTry
CHECK_DEADLOCK FALSE
