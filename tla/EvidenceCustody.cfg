\* Two versions and two failures, with a required receipt.
SPECIFICATION Spec
CONSTANTS
  MaxVersion = 2
  MaxTime = 2
  MaxFaults = 2
  Required = TRUE
INVARIANTS IndexMatchesContents GatedIsPreserved
PROPERTIES ProtectedIsKept GuardCoversFinding
CHECK_DEADLOCK FALSE
