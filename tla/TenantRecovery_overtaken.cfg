\* Run by hand: a request overtaken by a restore undoes it on disk.
SPECIFICATION Spec
CONSTANTS
  Absent = Absent
  Kinds = {"finding"}
  MaxBackup = 3
  Retention = 2
  ReplicaRetention = 1
  Required = TRUE
  MaxClock = 2
  MaxEvents = 5
  MaxFaults = 2
INVARIANT AlwaysConsistent
CHECK_DEADLOCK FALSE
