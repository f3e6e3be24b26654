\* The client of a finding disconnects before it is created; nothing fails.
SPECIFICATION Spec
CONSTANTS
  MaxVersion = 1
  MaxTime = 1
  MaxFaults = 0
  Required = FALSE
PROPERTIES CreatedOnActive
CHECK_DEADLOCK FALSE
