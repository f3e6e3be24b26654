CONSTANTS
  p1 = p1
  p2 = p2
  NoDir = NoDir
  Procs <- Two
  CanStall <- Two
  MayFail <- Two
  MaxFence = 2
SPECIFICATION FairLeaseSpec
INVARIANTS ExclusiveWhenCalm TokensAreUnique OwnerIsNewestGrant
PROPERTIES GrantsIncrease ConfirmedByNewestGrant CallsEndUnlessLeasesChurn
\* No call starts once the counter has reached MaxFence.
CHECK_DEADLOCK FALSE
