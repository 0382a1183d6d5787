CONSTANTS
  BufferSize = 7
  HeaderSize = 2
  MaxMessageSize = 3
  Requests = {1, 3}
  MaxMessages = 4
  Readers = {r1}
  Caps = {3}
  SeqModulus = 1000
SPECIFICATION Spec
INVARIANT
  WholeMessageIsStored
CHECK_DEADLOCK FALSE
