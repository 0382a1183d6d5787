\* Three objects, four constructions, sizes that differ, and one fault.
CONSTANTS
  Objects = {o1, o2, o3}
  Sizes = {1, 2}
  MaxObjects = 4
  MaxFaults = 1
SPECIFICATION Spec
SYMMETRY Interchangeable
INVARIANTS
  OneHolder
  LiveShareTheBoundRegion
  RemovedAfterLastUser
  UncontendedConstructionSucceeds
CHECK_DEADLOCK FALSE
