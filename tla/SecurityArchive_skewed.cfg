\* Two hosts whose clocks are a day apart for a moment around midnight.
SPECIFICATION Spec
CONSTANTS
  RetentionDays = 1
  MaxSegment = 2
  Skew = 1
  MaxDay = 4
  MaxEvents = 4
INVARIANT AlwaysRecovers
CHECK_DEADLOCK FALSE
