CONSTANTS
  p1 = p1
  p2 = p2
  r1 = r1
  NoDir = NoDir
  Procs <- Two
  CanStall = {}
  MayFail = {}
  MaxFence = 3
  Readers = {}
  Retained = 2
SPECIFICATION Spec
INVARIANTS NeverAcknowledgedLoss
CHECK_DEADLOCK FALSE
