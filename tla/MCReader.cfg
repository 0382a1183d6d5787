CONSTANTS
  BufferSize = 7
  HeaderSize = 2
  MaxMessageSize = 3
  Requests = {0, 1, 3, 4}
  MaxMessages = 4
  Readers = {r1}
  Caps = {1, 4}
  SeqModulus = 1000
SPECIFICATION Spec
INVARIANTS
  WindowIntact
  CopyInBounds
  ReleasedIsCountedAndInPlace
  ReadsInBounds
  KeptUpReaderIsServed
  KeptUpReaderNeverRaces
PROPERTIES
  EmptyMeansCaughtUp
CHECK_DEADLOCK FALSE
