SPECIFICATION FairSpec
CONSTANTS
  WaitSteps = 5
  MaxWrites = 2
  MaxFaults = 4
INVARIANTS TypeOK ReadySnapshotUsable SnapshotOfItsTime
PROPERTIES CreateCompletes DeleteTakesEffect
CHECK_DEADLOCK FALSE
