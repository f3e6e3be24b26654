CONSTANTS
  p1 = p1
  p2 = p2
  r1 = r1
  NoDir = NoDir
  Procs <- Two
  CanStall <- Two
  MayFail <- Two
  MaxFence = 3
  Readers <- OneReader
  Retained = 2
SPECIFICATION Spec
INVARIANT NoAcknowledgedLoss
PROPERTIES OnlySupersededRejected VersionsExtendEachOther LatestNeverRegresses ReadsSeeAcknowledged
CONSTRAINT OnlyStalls
CHECK_DEADLOCK FALSE
