CONSTANTS
  p1 = p1
  p2 = p2
  r1 = r1
  NoDir = NoDir
  Procs <- Two
  CanStall <- One
  MayFail = {}
  MaxFence = 2
  Readers = {}
  Retained = 2
SPECIFICATION Spec
PROPERTIES LostMutationsHaveNoEffect
CHECK_DEADLOCK FALSE
