\* Stops between any two file operations, with a clock that all share.
SPECIFICATION Spec
CONSTANTS
  RetentionDays = 1
  MaxSegment = 2
  Skew = 0
  MaxDay = 5
  MaxEvents = 5
INVARIANT AlwaysRecovers
PROPERTY ImplementsLog
CHECK_DEADLOCK FALSE
