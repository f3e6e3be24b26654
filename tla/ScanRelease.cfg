\* Two versions, of which the first is scanned twice.
SPECIFICATION Spec
CONSTANTS
  Absent = Absent
  MaxJob = 2
  MaxAttempts = 2
  Batch = 2
  CompletedRetention = 1
  DeadRetention = 1
  MaxQueues = 2
  MaxStops = 1
  Attestations <- Contradicting
  Required = TRUE
  MaxRecords = 2
INVARIANTS CompletedIsAttested
PROPERTIES ReleaseHeedsVerdicts
CHECK_DEADLOCK FALSE
