CONSTANTS
  Threads = {t1, t2}
  Nobody = Nobody
  Kinds <- MCKinds
  Level = 2
  SinkLevel <- MCSinkLevel
  Items = 2
  MaxSkip = 0
  MaxTime = 2
  MaxCalls = 4
  MaxFaults = 1
SPECIFICATION Spec
SYMMETRY MCSymmetry
INVARIANTS
  DumpedOnceInOrder
  SkippedAreAnnounced
  ConnectionsCarryWholeLines
CHECK_DEADLOCK FALSE
