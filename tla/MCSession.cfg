\* Two writers and a reader, three constructions among them, and one fault.
CONSTANTS
  BufferSize = 5
  HeaderSize = 2
  MaxMessageSize = 2
  Requests = {1, 2}
  MaxMessages = 2
  Readers = {r1}
  Caps = {2}
  SeqModulus = 1000
  Objects = {w1, w2}
  MaxSessions = 3
  MaxFaults = 1
SPECIFICATION SessionSpec
SYMMETRY Interchangeable
INVARIANTS
  OneWriter
  StateIsTheLiveWriters
  AttachedReaderIsServed
  RegionsAreGivenBack
CHECK_DEADLOCK FALSE
