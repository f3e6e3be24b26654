\* Two jobs, of which one is queued again.
SPECIFICATION JobsSpec
CONSTANTS
  Absent = Absent
  MaxJob = 2
  MaxAttempts = 2
  Batch = 2
  CompletedRetention = 1
  DeadRetention = 1
  MaxQueues = 3
  MaxStops = 1
INVARIANTS BudgetKept
PROPERTIES JobsMoveForward JobsSettle
CHECK_DEADLOCK FALSE
