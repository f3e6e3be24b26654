\* A version is added while another is released.
SPECIFICATION Spec
CONSTANTS
  Absent = Absent
  MaxJob = 2
  MaxAttempts = 1
  Batch = 1
  CompletedRetention = 1
  DeadRetention = 1
  MaxQueues = 0
  MaxStops = 0
  Attestations <- OneClean
  Required = TRUE
  MaxRecords = 2
INVARIANTS ReleasedIsWhatWasChecked
CHECK_DEADLOCK FALSE
