CONSTANTS
  d = d
  a = a
  b = b
  Loggers = {d, a, b}
  LoggerName <- MCLoggerName
  Standard = d
  Threads = {t1, t2}
  Workers = {w1, w2}
  None = None
  Inputs <- MCInputs
  MaxCalls = 3
SPECIFICATION RegistrySpec
INVARIANTS
  SettingsReachEveryLogger
  NoStrayFlusher
PROPERTIES
  LevelStaysTheApplications
  RegistryCallsReturn
  RegisteredAreFlushed
CHECK_DEADLOCK FALSE
