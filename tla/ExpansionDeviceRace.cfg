SPECIFICATION Spec
CONSTANTS
  GiB = 2
  MaxInt64 = 7
  MaxBytes = 7
  ExpandOnly = TRUE
  MaxFaults = 0
INVARIANTS CapacityBacked
CHECK_DEADLOCK FALSE
