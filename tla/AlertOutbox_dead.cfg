\* One worker, one dead letter kept.
SPECIFICATION OutboxSpec
CONSTANTS
  w1 = w1
  w2 = w2
  Absent = Absent
  MaxAlert = 2
  Workers <- One
  MaxAttempts = 2
  Batch = 2
  DeliveredRetention = 2
  DeadRetention = 1
  MaxRequeues = 1
  MaxStops = 0
PROPERTIES DeadLettersKept
CHECK_DEADLOCK FALSE
