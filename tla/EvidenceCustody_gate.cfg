\* A version is added between the gate and the tombstone; nothing fails.
SPECIFICATION Spec
CONSTANTS
  MaxVersion = 2
  MaxTime = 2
  MaxFaults = 0
  Required = TRUE
INVARIANTS DisposedIsPreserved
CHECK_DEADLOCK FALSE
