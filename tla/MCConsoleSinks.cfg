CONSTANTS
  sink1 = sink1
  sink2 = sink2
  Order <- MCOrder
  Threads = {t1, t2}
  Second = 2
  Refresh = 4
  MaxWidth = 30
  Calendar <- MCCalendar
  Times = {4, 5, 9}
  Births = {5}
  Kinds <- MCKinds
  Patterns <- MCPatterns
  Types = {"local", "utc"}
  Idle = Idle
  MaxCalls = 3
SPECIFICATION Spec
SYMMETRY MCSymmetry
INVARIANTS
  TimesAreTheMessages
  FieldsHaveTheirWidth
  ColouredIsTheMarked
CHECK_DEADLOCK FALSE
