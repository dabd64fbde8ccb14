SPECIFICATION Spec
CONSTANTS
  Volumes = {v1}
  Pods = {p1}
  TeardownUncertain = FALSE
  MaxErrors = 0
  MaxLosses = 1
INVARIANTS RemovedAfterUnmount
CHECK_DEADLOCK FALSE
