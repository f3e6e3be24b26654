\* Two workers and alerts, within the retention of both directories.
SPECIFICATION FairSpec
CONSTANTS
  w1 = w1
  w2 = w2
  Absent = Absent
  MaxAlert = 2
  Workers <- Two
  MaxAttempts = 2
  Batch = 2
  DeliveredRetention = 2
  DeadRetention = 2
  MaxRequeues = 1
  MaxStops = 2
PROPERTIES JobLifecycle EveryAlertSettles
CHECK_DEADLOCK FALSE
