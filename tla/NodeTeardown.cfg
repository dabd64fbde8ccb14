SPECIFICATION FairSpec
CONSTANTS
  Volumes = {v1}
  Pods = {p1}
  TeardownUncertain = FALSE
  MaxErrors = 1
  MaxLosses = 1
PROPERTIES TeardownCompletes
CHECK_DEADLOCK FALSE
