\* A finding is created after the handler of a disposition looked; nothing fails.
SPECIFICATION Spec
CONSTANTS
  MaxVersion = 1
  MaxTime = 1
  MaxFaults = 0
  Required = FALSE
PROPERTIES ReferencedIsKept
CHECK_DEADLOCK FALSE
