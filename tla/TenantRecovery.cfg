\* Three recovery points of which two are kept, and two failures.
SPECIFICATION Spec
CONSTANTS
  Absent = Absent
  Kinds = {"finding"}
  MaxBackup = 3
  Retention = 2
  ReplicaRetention = 1
  Required = TRUE
  MaxClock = 2
  MaxEvents = 5
  MaxFaults = 2
INVARIANTS StateMatchesHistory MemoryIsDurable SafetyCopyStands SomethingLoadable
CHECK_DEADLOCK FALSE
