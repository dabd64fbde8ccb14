SPECIFICATION FairSpec
CONSTANTS
  Volumes = {v1}
  Pods = {p1, p2}
  TeardownUncertain = TRUE
  MaxErrors = 3
  MaxLosses = 2
INVARIANTS TypeOK PublishedSeesVolume CleanAfterUnstage
PROPERTIES NoDataLoss SetupCompletes TeardownTakesEffect ImplementsNodeMount
CHECK_DEADLOCK FALSE
