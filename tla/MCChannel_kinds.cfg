SPECIFICATION Spec
CONSTANTS
  None = None
  Handle = {h1, h2}
  First = h1
  SendOp = {s1, s2, s3}
  RecvOp = {r1, r2}
  RxOp = r1
  Kinds = {"bounded", "unbounded", "oneshot"}
  Capacity = 1
SYMMETRY Symmetry
INVARIANTS
  ChannelSound
PROPERTIES
  TraceSpec
CHECK_DEADLOCK FALSE
