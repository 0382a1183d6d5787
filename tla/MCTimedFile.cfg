CONSTANTS
  Names = {0, 1, 2, 3}
  MaxFaults = 1
  Period = 2
  Rotations = {0, 1}
  MaxFiles = 2
  MaxDelay = 1
  MaxTime = 6
  MaxMessages = 3
SPECIFICATION TimedSpec
INVARIANTS
  OldFilesAreDeleted
PROPERTIES
  EachMessageInItsPeriod
  RetainsTheLastFiles
CHECK_DEADLOCK FALSE
