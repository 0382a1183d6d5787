CONSTANTS
  Names = {0, 1, 2}
  MaxFaults = 2
  MaxSize = 3
  MaxFiles = 2
  MessageSizes = {1, 2, 4}
  MaxMessages = 5
SPECIFICATION RotatingSpec
INVARIANTS
  FilesAreInOrder
  FilesAreBounded
PROPERTIES
  OnlyTheOldestAreDropped
CHECK_DEADLOCK FALSE
