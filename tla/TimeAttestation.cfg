\* Two versions, two providers, and three configurations of their keys.
SPECIFICATION Spec
CONSTANTS
  Archives = {"v1", "v2"}
  Attestations <- Signed
  Events <- Decisions
  Configurations <- Rotations
  MinimumProviders = 2
  Skew = 1
  MaxDelay = 1
  MaxRecords = 5
  MaxEvents = 2
  ArchiveLimit = 3
  ListLimit = 3
  MaxTime = 3
  NoTime = NoTime
INVARIANTS AcceptedStaysValid LayersNest DisposalHeedsJournal
PROPERTIES ExclusionIsFinal
CHECK_DEADLOCK FALSE
