\* A disposition is evicted between its check and its tombstone.
SPECIFICATION Spec
CONSTANTS
  MaxVersion = 1
  MaxTime = 1
  MaxFaults = 1
  Required = FALSE
PROPERTIES HoldAlwaysProtects
CHECK_DEADLOCK FALSE
