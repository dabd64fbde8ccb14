SPECIFICATION FairSpec
CONSTANTS
  GiB = 2
  MaxInt64 = 7
  MaxBytes = 7
  ExpandOnly = TRUE
  MaxFaults = 2
INVARIANTS TypeOK VolumeAsTold DeviceAsTold
PROPERTIES NoShrink AnswerCovers ExpandCompletes
CHECK_DEADLOCK FALSE
