\* Every message fits the read buffer, as ReaderApp's does.
CONSTANTS
  BufferSize = 7
  HeaderSize = 2
  MaxMessageSize = 3
  Requests = {1, 3}
  MaxMessages = 4
  Readers = {r1}
  Caps = {3}
  SeqModulus = 1000
SPECIFICATION FairSpec
PROPERTIES
  EveryMessageIsRead
  ImplementsMessageStream
CHECK_DEADLOCK FALSE
