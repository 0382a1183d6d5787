--------------------------- MODULE RegistryProofs ---------------------------
(***************************************************************************)
(* Proofs about the registry, for every number of loggers, threads,        *)
(* workers and calls: settings reach every logger, whatever is registered, *)
(* replaced or dropped meanwhile; no thread that flushes is left behind;   *)
(* and a level that the application set after SetupSpdlog stays.  And      *)
(* about the applications themselves: how their threads end.               *)
(***************************************************************************)
EXTENDS Registry, Applications, TLAPS

AnyLevel == Values \cup {Off}

(* What logger_map_mutex_ protects: a logger is under its name, and the    *)
(* loggers configured are in the map.                                      *)
DataTypeOK ==
  /\ \A n \in DOMAIN loggers : loggers[n] \in Loggers /\ LoggerName[loggers[n]] = n
  /\ defaultLogger \in Loggers \cup {None}
  /\ global \in [Kinds -> AnyLevel] /\ settings \in [Loggers -> [Kinds -> AnyLevel]]
  /\ Range(logLevels) \subseteq AnyLevel
  /\ {automatic, envLoaded, setupDone, levelIsApps} \subseteq BOOLEAN
  /\ unflushed \subseteq Loggers /\ configured \subseteq Registered

(* Before set_levels there are no levels by name.                          *)
NamedLevelsInv == ~envLoaded => DOMAIN logLevels = {}

DataInv == DataTypeOK /\ NamedLevelsInv /\ SettingsReachEveryLogger

----------------------------------------------------------------------------
Pcs == {"idle", "stop", "stopAll", "join", "joinAll", "drop", "setup", "read", "set",
        "latch", "crashed"}

Statuses == {"unborn", "inactive", "wait", "call", "flush", "ended"}

(* A call that stops a flusher thread holds flusher_mutex_ to its end.     *)
Stopping(t) == pc[t] \in {"stop", "stopAll", "join", "joinAll"}

ThreadsInv ==
  /\ pc \in [Threads -> Pcs] /\ victim \in [Threads -> Workers \cup {None}]
  /\ flusher \in Workers \cup {None} /\ flusherOwner \in Threads \cup {None}
  /\ calls \in Nat
  /\ \A t \in Threads : Stopping(t) <=> flusherOwner = t

(* A flusher thread is the current one's or that of the worker which the   *)
(* owner of the mutex destroys.                                            *)
FlusherInv ==
  /\ status \in [Workers -> Statuses]
  /\ \A w \in Workers : status[w] = "flush" <=> mapOwner = w
  /\ \A w \in Workers : status[w] \notin {"unborn", "inactive"} =>
       w = flusher \/ (flusherOwner # None /\ w = victim[flusherOwner])

(* What the application sets, it sets when no SetupSpdlog goes on, and     *)
(* none begins any more.                                                   *)
SetupInv == levelIsApps => SetupIsOver

(***************************************************************************)
(* The inductive invariant of Registry.                                    *)
(***************************************************************************)
RegistryInv == DataInv /\ ThreadsInv /\ FlusherInv /\ SetupInv

----------------------------------------------------------------------------
(* A logger that is added is registered, and so stay those of other names. *)
LEMMA AddedIsRegistered ==
  ASSUME DataTypeOK, NEW l \in Loggers, loggers' = AddToMap(l)
  PROVE  /\ \A n \in DOMAIN loggers' : loggers'[n] \in Loggers /\ LoggerName[loggers'[n]] = n
         /\ l \in Registered'
         /\ \A k \in Registered : LoggerName[k] # LoggerName[l] => k \in Registered'
         /\ ~NameIsTaken(l) => Registered \subseteq Registered'
<1>1. /\ DOMAIN loggers' = DOMAIN loggers \cup {LoggerName[l]} /\ loggers'[LoggerName[l]] = l
      /\ \A n \in DOMAIN loggers \ {LoggerName[l]} : loggers'[n] = loggers[n]
  BY DEF AddToMap
<1>2. \A n \in DOMAIN loggers : loggers[n] \in Loggers /\ LoggerName[loggers[n]] = n
  BY DEF DataTypeOK
<1> QED
  BY <1>1, <1>2 DEF Registered, Range, NameIsTaken

(* The level a name stands for is one of those loaded or set.              *)
LEMMA LevelsByName ==
  ASSUME DataInv, NEW l \in Loggers
  PROVE  LevelFor(l) \in AnyLevel /\ (~envLoaded => LevelFor(l) = global["level"])
BY DEF DataInv, DataTypeOK, NamedLevelsInv, LevelFor, Range, Kinds

(* set_level and its like: all that is registered gets the setting.        *)
LEMMA WithSettingReaches ==
  ASSUME DataInv, NEW kind \in Kinds, NEW value \in Values, WithSetting(kind, value),
         UNCHANGED <<loggers, configured, envLoaded>>
  PROVE  /\ global' \in [Kinds -> AnyLevel] /\ settings' \in [Loggers -> [Kinds -> AnyLevel]]
         /\ SettingsReachEveryLogger'
<1>1. /\ global \in [Kinds -> AnyLevel] /\ settings \in [Loggers -> [Kinds -> AnyLevel]]
      /\ value \in AnyLevel /\ configured \subseteq Registered /\ Registered \subseteq Loggers
  BY DEF DataInv, DataTypeOK, AnyLevel, Registered, Range
<1>2. global' \in [Kinds -> AnyLevel] /\ settings' \in [Loggers -> [Kinds -> AnyLevel]]
  BY <1>1 DEF WithSetting
<1>3. ASSUME NEW l \in configured, NEW k \in Kinds
      PROVE  /\ settings'[l][k] = IF k = kind THEN value ELSE settings[l][k]
             /\ global'[k] = IF k = kind THEN value ELSE global[k]
  BY <1>1 DEF WithSetting
<1>4. /\ {"level", "flush_level", "backtrace"} \subseteq Kinds
      /\ \A l \in configured, k \in Kinds : settings[l][k] \in Int /\ global[k] \in Int
  BY <1>1 DEF Kinds, AnyLevel, Values, Off
<1>5. value \in Int
  BY DEF Values
<1> QED
  BY <1>2, <1>3, <1>4, <1>5 DEF DataInv, SettingsReachEveryLogger
(* initialize_logger gives the logger all settings, before it finds out    *)
(* whether the name is taken.                                              *)
LEMMA InitializeStep ==
  ASSUME DataInv, NEW l \in Loggers, InitializeLogger(l)
  PROVE  DataInv'
<1>1. /\ global \in [Kinds -> AnyLevel] /\ settings \in [Loggers -> [Kinds -> AnyLevel]]
      /\ {"level", "flush_level", "backtrace"} \subseteq Kinds /\ LevelFor(l) \in AnyLevel
      /\ l \notin configured /\ configured \subseteq Registered
  BY LevelsByName DEF DataInv, DataTypeOK, Kinds, InitializeLogger
<1>2. /\ \A k \in Loggers \ {l} : settings'[k] = settings[k]
      /\ settings' \in [Loggers -> [Kinds -> AnyLevel]]
      /\ settings'[l]["flush_level"] = global["flush_level"]
      /\ settings'[l]["level"] = LevelFor(l)
      /\ settings'[l]["backtrace"] >= global["backtrace"]
  <2> DEFINE bt == IF global["backtrace"] = 0 THEN settings[l]["backtrace"] ELSE global["backtrace"]
             new == [Initialised EXCEPT !["level"] = LevelFor(l), !["backtrace"] = bt]
  <2>1. bt \in AnyLevel /\ bt >= global["backtrace"]
    BY <1>1 DEF AnyLevel, Values, Off
  <2>2. settings' = [settings EXCEPT ![l] = new]
    BY <1>1 DEF InitializeLogger, Initialised, Kinds
  <2>3. /\ new \in [Kinds -> AnyLevel] /\ new["flush_level"] = global["flush_level"]
        /\ new["level"] = LevelFor(l) /\ new["backtrace"] = bt
    <3> HIDE DEF bt
    <3> QED
      BY <1>1, <2>1 DEF Initialised, Kinds
  <2> HIDE DEF new, bt
  <2> QED
    BY <1>1, <2>1, <2>2, <2>3
<1>3. UNCHANGED <<defaultLogger, global, logLevels, automatic, envLoaded, levelIsApps, unflushed, setupDone>>
  BY DEF InitializeLogger, MapCall
<1>4. CASE automatic /\ ~NameIsTaken(l)
  <2>1. loggers' = AddToMap(l) /\ configured' = configured \cup {l}
    BY <1>4 DEF InitializeLogger
  <2>2. DataTypeOK'
    BY <1>2, <1>3, <1>4, <2>1, AddedIsRegistered DEF DataInv, DataTypeOK
  <2>3. SettingsReachEveryLogger'
    BY <1>2, <1>3, <2>1, <1>1, LevelsByName DEF DataInv, DataTypeOK, SettingsReachEveryLogger, Registered, Range
  <2> QED
    BY <1>3, <2>2, <2>3 DEF DataInv, NamedLevelsInv
<1>5. CASE ~(automatic /\ ~NameIsTaken(l))
  <2>1. UNCHANGED <<loggers, configured>>
    BY <1>5 DEF InitializeLogger
  <2>2. DataTypeOK'
    BY <1>2, <1>3, <2>1 DEF DataInv, DataTypeOK, Registered
  <2>3. SettingsReachEveryLogger'
    BY <1>1, <1>2, <1>3, <2>1 DEF DataInv, DataTypeOK, SettingsReachEveryLogger, Registered, Range
  <2> QED
    BY <1>3, <2>2, <2>3 DEF DataInv, NamedLevelsInv
<1> QED
  BY <1>4, <1>5

(* A logger registered as it is: one that was configured stays so until    *)
(* another takes its name.                                                 *)
LEMMA RegisterStep ==
  ASSUME DataInv, NEW l \in Loggers \cup {None},
         \/ l \in Loggers /\ (RegisterLogger(l) \/ RegisterOrReplace(l))
         \/ SetDefaultLogger(l)
  PROVE  DataInv'
<1>1. /\ UNCHANGED <<global, logLevels, automatic, settings, envLoaded, levelIsApps, unflushed, setupDone>>
      /\ defaultLogger' \in {defaultLogger, l}
  BY DEF RegisterLogger, RegisterOrReplace, SetDefaultLogger, MapCall, histVars
<1>2. DataTypeOK
  BY DEF DataInv
<1>3. /\ configured' \subseteq configured /\ configured' \subseteq Registered'
      /\ \A n \in DOMAIN loggers' : loggers'[n] \in Loggers /\ LoggerName[loggers'[n]] = n
  <2>1. CASE UNCHANGED <<loggers, configured>>
    BY <1>2, <2>1 DEF DataTypeOK, Registered
  <2>2. CASE l \in Loggers /\ loggers' = AddToMap(l) /\ ~NameIsTaken(l) /\ UNCHANGED configured
    BY <1>2, <2>2, AddedIsRegistered DEF DataTypeOK
  <2>3. CASE /\ l \in Loggers /\ loggers' = AddToMap(l)
             /\ configured' = configured \ {k \in Loggers \ {l} : LoggerName[k] = LoggerName[l]}
    <3>1. configured \subseteq Registered /\ Registered \subseteq Loggers
      BY <1>2 DEF DataTypeOK, Registered, Range
    <3> QED
      BY <1>2, <2>3, <3>1, AddedIsRegistered
  <2> QED
    BY <2>1, <2>2, <2>3, RegistryAssumption
    DEF RegisterLogger, RegisterOrReplace, SetDefaultLogger, histVars
<1> QED
  BY <1>1, <1>2, <1>3 DEF DataInv, DataTypeOK, NamedLevelsInv, SettingsReachEveryLogger

(* A logger is taken out of the map.                                       *)
LEMMA DropStep ==
  ASSUME DataInv, NEW n, Drop(n)
  PROVE  DataInv'
<1>1. /\ UNCHANGED <<global, logLevels, automatic, settings, envLoaded, levelIsApps, unflushed, setupDone>>
      /\ defaultLogger' \in {defaultLogger, None}
      /\ configured' = {l \in configured : LoggerName[l] # n}
      /\ DOMAIN loggers' = DOMAIN loggers \ {n}
      /\ \A m \in DOMAIN loggers' : loggers'[m] = loggers[m]
  BY DEF Drop, MapCall
<1>2. configured' \subseteq Registered'
  BY <1>1 DEF DataInv, DataTypeOK, Registered, Range
<1> QED
  BY <1>1, <1>2 DEF DataInv, DataTypeOK, NamedLevelsInv, SettingsReachEveryLogger

(* shutdown and drop_all empty the map.                                    *)
LEMMA ClearStep ==
  ASSUME DataInv, ClearMap, UNCHANGED <<unflushed, setupDone, levelIsApps>>
  PROVE  DataInv'
<1>1. /\ UNCHANGED <<global, logLevels, automatic, settings, envLoaded>>
      /\ defaultLogger' = None /\ configured' = {} /\ DOMAIN loggers' = {}
  BY DEF ClearMap
<1> QED
  BY <1>1 DEF DataInv, DataTypeOK, NamedLevelsInv, SettingsReachEveryLogger, Registered, Range

(* set_level, flush_on and enable_backtrace, and SetupSpdlog's set_level.  *)
LEMMA SetForAllStep ==
  ASSUME DataInv, NEW kind \in Kinds, NEW value \in Values, WithSetting(kind, value),
         UNCHANGED <<loggers, defaultLogger, logLevels, automatic, histVars, unflushed, setupDone>>,
         levelIsApps' \in BOOLEAN
  PROVE  DataInv'
<1>1. UNCHANGED <<configured, envLoaded>>
  BY DEF histVars
<1>2. /\ global' \in [Kinds -> AnyLevel] /\ settings' \in [Loggers -> [Kinds -> AnyLevel]]
      /\ SettingsReachEveryLogger'
  BY <1>1, WithSettingReaches
<1> QED
  BY <1>1, <1>2 DEF DataInv, DataTypeOK, NamedLevelsInv, Registered

(* load_env_levels sets levels that are levels, whatever the names were.   *)
LEMMA LevelsAreRead ==
  ASSUME NEW pairs, LoadLevels(pairs)
  PROVE  \E levels, glob : /\ SetLevels(levels, glob)
                           /\ Range(levels) \subseteq AnyLevel /\ glob \in AnyLevel \cup {None}
<1> DEFINE read   == KeyVals(pairs)
           known  == {n \in DOMAIN read : FromStr(read[n]) # Off \/ read[n] = "off"}
           levels == [n \in known \ {""} |-> FromStr(read[n])]
           glob   == IF "" \in known THEN FromStr(read[""]) ELSE None
<1>1. \A name : FromStr(name) \in AnyLevel
  BY DEF FromStr, AnyLevel, Values, Off
<1>2. Range(levels) \subseteq AnyLevel /\ glob \in AnyLevel \cup {None}
  <2> HIDE DEF known, read
  <2> QED
    BY <1>1 DEF Range
<1>3. SetLevels(levels, glob)
  BY DEF LoadLevels
<1> HIDE DEF levels, glob
<1> QED
  BY <1>2, <1>3

(* The levels of the environment reach all that is registered.             *)
LEMMA LoadLevelsStep ==
  ASSUME DataInv, NEW pairs, LoadLevels(pairs)
  PROVE  DataInv'
<1>1. PICK levels, glob : /\ SetLevels(levels, glob)
                          /\ Range(levels) \subseteq AnyLevel /\ glob \in AnyLevel \cup {None}
  BY LevelsAreRead
<1>2. Range(levels) \subseteq AnyLevel /\ glob \in AnyLevel \cup {None}
  BY <1>1
<1>3. SetLevels(levels, glob)
  BY <1>1
<1>4. /\ UNCHANGED <<loggers, defaultLogger, automatic, configured, unflushed, setupDone>>
      /\ logLevels' = levels /\ envLoaded' = TRUE /\ levelIsApps' \in BOOLEAN
  BY <1>3 DEF SetLevels, MapCall, DataInv, DataTypeOK, SetupIsOver
<1>5. /\ global \in [Kinds -> AnyLevel] /\ settings \in [Loggers -> [Kinds -> AnyLevel]]
      /\ {"level", "flush_level", "backtrace"} \subseteq Kinds /\ configured \subseteq Loggers
  BY DEF DataInv, DataTypeOK, Kinds, Registered, Range
<1>6. /\ global' \in [Kinds -> AnyLevel]
      /\ \A k \in {"flush_level", "backtrace"} : global'[k] = global[k]
  BY <1>2, <1>3, <1>5 DEF SetLevels
<1>7. /\ settings' \in [Loggers -> [Kinds -> AnyLevel]]
      /\ \A l \in Loggers : \A k \in {"flush_level", "backtrace"} : settings'[l][k] = settings[l][k]
  <2>1. settings' = [l \in Loggers |-> settings'[l]]
    BY <1>3 DEF SetLevels
  <2>2. ASSUME NEW l \in Loggers
        PROVE  \/ settings'[l] = settings[l]
               \/ \E v \in AnyLevel : settings'[l] = [settings[l] EXCEPT !["level"] = v]
    <3>1. LoggerName[l] \in DOMAIN levels => levels[LoggerName[l]] \in AnyLevel
      BY <1>2 DEF Range
    <3> QED
      BY <1>2, <1>3, <3>1 DEF SetLevels
  <2>3. ASSUME NEW l \in Loggers
        PROVE  /\ settings'[l] \in [Kinds -> AnyLevel]
               /\ \A k \in {"flush_level", "backtrace"} : settings'[l][k] = settings[l][k]
    <3>1. settings[l] \in [Kinds -> AnyLevel] /\ {"flush_level", "backtrace"} \subseteq Kinds
      BY <1>5
    <3>2. ASSUME NEW v \in AnyLevel, settings'[l] = [settings[l] EXCEPT !["level"] = v]
          PROVE  /\ settings'[l] \in [Kinds -> AnyLevel]
                 /\ \A k \in {"flush_level", "backtrace"} : settings'[l][k] = settings[l][k]
      BY <3>1, <3>2
    <3> QED
      BY <2>2, <3>1, <3>2
  <2> QED
    BY <2>1, <2>3
<1> QED
  BY <1>2, <1>4, <1>5, <1>6, <1>7
  DEF DataInv, DataTypeOK, NamedLevelsInv, SettingsReachEveryLogger, Registered

(* A new logger gets the level that was loaded for its name.               *)
LEMMA ApplyLevelsStep ==
  ASSUME DataInv, NEW l \in Loggers, ApplyLoggerEnvLevels(l)
  PROVE  DataInv'
<1>1. UNCHANGED <<loggers, defaultLogger, global, logLevels, automatic, configured, envLoaded,
                  levelIsApps, unflushed, setupDone>>
  BY DEF ApplyLoggerEnvLevels, MapCall, histVars
<1>2. LevelFor(l) \in AnyLevel /\ (~envLoaded => LevelFor(l) = global["level"])
  BY LevelsByName
<1>3. /\ settings \in [Loggers -> [Kinds -> AnyLevel]]
      /\ {"level", "flush_level", "backtrace"} \subseteq Kinds /\ configured \subseteq Loggers
  BY DEF DataInv, DataTypeOK, Kinds, Registered, Range
<1>4. settings' = [settings EXCEPT ![l] = [settings[l] EXCEPT !["level"] = LevelFor(l)]]
  BY DEF ApplyLoggerEnvLevels
<1>5. /\ settings' \in [Loggers -> [Kinds -> AnyLevel]]
      /\ \A k \in Loggers : \A kind \in {"flush_level", "backtrace"} :
           settings'[k][kind] = settings[k][kind]
      /\ \A k \in Loggers : settings'[k]["level"] \in {settings[k]["level"], LevelFor(k)}
      /\ \A k \in Loggers \ {l} : settings'[k] = settings[k]
      /\ settings'[l]["level"] = LevelFor(l)
  BY <1>2, <1>3, <1>4
<1>6. SettingsReachEveryLogger'
  BY <1>1, <1>2, <1>3, <1>5 DEF DataInv, SettingsReachEveryLogger
<1> QED
  BY <1>1, <1>5, <1>6 DEF DataInv, DataTypeOK, NamedLevelsInv, Registered

(* What does not touch the loggers, their settings and the map.            *)
LEMMA OtherDataStep ==
  ASSUME DataInv,
         UNCHANGED <<loggers, defaultLogger, global, logLevels, settings, histVars, levelIsApps>>,
         automatic' \in BOOLEAN, setupDone' \in BOOLEAN, unflushed' \subseteq Loggers
  PROVE  DataInv'
BY DEF DataInv, DataTypeOK, NamedLevelsInv, SettingsReachEveryLogger, Registered, histVars
(* The calls that are one step under logger_map_mutex_.                    *)
LEMMA MapOperationStep ==
  ASSUME RegistryInv, MapOperation
  PROVE  RegistryInv' /\ calls' # calls
<1>1. DataInv /\ calls \in Nat
  BY DEF RegistryInv, ThreadsInv
<1>2. MapCall /\ (levelIsApps' => levelIsApps \/ SetupIsOver)
  <2>1. CASE LoadEnvLevels
    <3>1. ASSUME NEW levels, NEW glob, SetLevels(levels, glob)
          PROVE  MapCall /\ (levelIsApps' => levelIsApps \/ SetupIsOver)
      BY <3>1, Zenon DEF SetLevels
    <3> QED
      BY <2>1, <3>1, LevelsAreRead DEF LoadEnvLevels
  <2>2. ASSUME NEW kind \in Kinds, NEW value \in Values, SetForAll(kind, value)
        PROVE  MapCall /\ (levelIsApps' => levelIsApps \/ SetupIsOver)
    BY <2>2, Zenon DEF SetForAll
  <2>3. CASE ~LoadEnvLevels /\ ~\E kind \in Kinds, value \in Values : SetForAll(kind, value)
    <3>1. \A l : \/ InitializeLogger(l) \/ RegisterLogger(l) \/ RegisterOrReplace(l)
                 \/ ApplyLoggerEnvLevels(l) \/ SetDefaultLogger(l)
                 => MapCall /\ UNCHANGED levelIsApps
      BY DEF InitializeLogger, RegisterLogger, RegisterOrReplace, ApplyLoggerEnvLevels,
             SetDefaultLogger
    <3>2. \A x : Drop(x) \/ SetAutomaticRegistration(x) => MapCall /\ UNCHANGED levelIsApps
      BY DEF Drop, SetAutomaticRegistration
    <3>3. DropAll => MapCall /\ UNCHANGED levelIsApps
      BY DEF DropAll
    <3> QED
      BY <2>3, <3>1, <3>2, <3>3 DEF MapOperation
  <2> QED
    BY <2>1, <2>2, <2>3
<1>3. DataInv'
  <2>1. ASSUME NEW l \in Loggers, InitializeLogger(l) PROVE DataInv'
    BY <1>1, <2>1, InitializeStep
  <2>2. ASSUME NEW l \in Loggers, RegisterLogger(l) \/ RegisterOrReplace(l) PROVE DataInv'
    BY <1>1, <2>2, RegisterStep
  <2>3. ASSUME NEW l \in Loggers, ApplyLoggerEnvLevels(l) PROVE DataInv'
    BY <1>1, <2>3, ApplyLevelsStep
  <2>4. ASSUME NEW l \in Loggers \cup {None}, SetDefaultLogger(l) PROVE DataInv'
    BY <1>1, <2>4, RegisterStep
  <2>5. ASSUME NEW kind \in Kinds, NEW value \in Values, SetForAll(kind, value) PROVE DataInv'
    <3>1. /\ WithSetting(kind, value)
          /\ UNCHANGED <<loggers, defaultLogger, logLevels, automatic, histVars, unflushed, setupDone>>
      BY <2>5 DEF SetForAll, MapCall
    <3>2. levelIsApps' \in BOOLEAN
      BY <1>1, <2>5 DEF SetForAll, DataInv, DataTypeOK
    <3> QED
      BY <1>1, <3>1, <3>2, SetForAllStep
  <2>6. CASE LoadEnvLevels
    BY <1>1, <2>6, LoadLevelsStep DEF LoadEnvLevels
  <2>7. ASSUME NEW n, Drop(n) PROVE DataInv'
    BY <1>1, <2>7, DropStep
  <2>8. CASE DropAll
    BY <1>1, <2>8, ClearStep DEF DropAll, MapCall
  <2>9. ASSUME NEW b \in BOOLEAN, SetAutomaticRegistration(b) PROVE DataInv'
    <3>1. /\ UNCHANGED <<loggers, defaultLogger, global, logLevels, settings, histVars>>
          /\ UNCHANGED <<levelIsApps, unflushed, setupDone>> /\ automatic' = b
      BY <2>9 DEF SetAutomaticRegistration, MapCall
    <3>2. setupDone' \in BOOLEAN /\ unflushed' \subseteq Loggers
      BY <1>1, <3>1 DEF DataInv, DataTypeOK
    <3> QED
      BY <1>1, <3>1, <3>2, OtherDataStep
  <2> QED
    BY <2>1, <2>2, <2>3, <2>4, <2>5, <2>6, <2>7, <2>8, <2>9 DEF MapOperation
<1>4. /\ UNCHANGED <<workerVars, pc, setupDone>> /\ calls' = calls + 1
      /\ UNCHANGED <<mapOwner, flusher, flusherOwner, status, active, todo, victim>>
  BY <1>2 DEF MapCall, Call, workerVars
<1>5. ThreadsInv' /\ FlusherInv' /\ calls' # calls
  BY <1>1, <1>4 DEF RegistryInv, ThreadsInv, FlusherInv, Stopping
<1>6. SetupInv'
  BY <1>2, <1>4 DEF RegistryInv, SetupInv, SetupIsOver
<1> QED
  BY <1>3, <1>5, <1>6 DEF RegistryInv

(* A message changes no setting.                                           *)
LEMMA LogStep ==
  ASSUME RegistryInv, NEW l \in Loggers, NEW severity \in Values, Log(l, severity)
  PROVE  RegistryInv' /\ calls' # calls
<1>1. /\ calls' = calls + 1 /\ calls \in Nat /\ unflushed' \subseteq unflushed \cup {l}
      /\ UNCHANGED <<dataVars, workerVars, histVars, pc, setupDone, levelIsApps>>
  BY DEF Log, Call, RegistryInv, ThreadsInv
<1>2. /\ UNCHANGED <<loggers, defaultLogger, global, logLevels, automatic, settings>>
      /\ UNCHANGED <<mapOwner, flusher, flusherOwner, status, active, todo, victim>>
  BY <1>1 DEF dataVars, workerVars
<1>3. /\ setupDone' \in BOOLEAN /\ automatic' \in BOOLEAN /\ unflushed' \subseteq Loggers
  BY <1>1, <1>2 DEF RegistryInv, DataInv, DataTypeOK
<1>4. DataInv'
  BY <1>1, <1>2, <1>3, OtherDataStep DEF RegistryInv
<1>5. ThreadsInv' /\ FlusherInv' /\ SetupInv'
  BY <1>1, <1>2 DEF RegistryInv, ThreadsInv, FlusherInv, Stopping, SetupInv, SetupIsOver
<1> QED
  BY <1>1, <1>4, <1>5 DEF RegistryInv

----------------------------------------------------------------------------
(* What a step leaves the data as it was. *)
LEMMA DataStays ==
  ASSUME DataInv, UNCHANGED <<dataVars, histVars, unflushed, setupDone, levelIsApps>>
  PROVE  DataInv'
<1>1. UNCHANGED <<loggers, defaultLogger, global, logLevels, automatic, settings>>
  BY DEF dataVars
<1>2. setupDone' \in BOOLEAN /\ automatic' \in BOOLEAN /\ unflushed' \subseteq Loggers
  BY <1>1 DEF DataInv, DataTypeOK
<1> QED
  BY <1>1, <1>2, OtherDataStep

(* A flusher thread is replaced or stopped: the caller takes               *)
(* flusher_mutex_, and what it is to join is its victim.                   *)
LEMMA TakesOver ==
  ASSUME RegistryInv, NEW t \in Threads,
         (\E isZero \in BOOLEAN : FlushEvery(t, isZero)) \/ Shutdown(t)
  PROVE  RegistryInv' /\ calls' # calls
<1>1. /\ calls' = calls + 1 /\ calls \in Nat /\ UNCHANGED mapOwner
      /\ pc[t] = "idle" /\ flusherOwner = None /\ flusherOwner' = t
      /\ \E step \in {"stop", "stopAll"} : pc' = [pc EXCEPT ![t] = step]
      /\ victim' = [victim EXCEPT ![t] = flusher] /\ flusher' \in Workers \cup {None}
      /\ UNCHANGED <<dataVars, histVars, unflushed, setupDone, levelIsApps>>
  BY DEF FlushEvery, Shutdown, Call, Goto, OldFlusher, dataUnchanged, RegistryInv, ThreadsInv
<1>2. /\ pc \in [Threads -> Pcs] /\ victim \in [Threads -> Workers \cup {None}]
      /\ flusher \in Workers \cup {None} /\ status \in [Workers -> Statuses]
      /\ \A u \in Threads : Stopping(u) <=> flusherOwner = u
      /\ \A w \in Workers : status[w] = "flush" <=> mapOwner = w
      /\ \A w \in Workers : status[w] \notin {"unborn", "inactive"} => w = flusher
  BY <1>1 DEF RegistryInv, ThreadsInv, FlusherInv
<1>3. ThreadsInv'
  BY <1>1, <1>2, RegistryAssumption DEF ThreadsInv, Stopping, Pcs
<1>4. FlusherInv'
  <2>1. victim'[t] = flusher /\ flusherOwner' # None
    BY <1>1, <1>2, RegistryAssumption
  <2>2. CASE Shutdown(t)
    BY <1>1, <1>2, <2>1, <2>2 DEF Shutdown, FlusherInv
  <2>3. ASSUME NEW isZero \in BOOLEAN, FlushEvery(t, isZero) PROVE FlusherInv'
    <3>1. PICK w \in Workers :
            /\ status[w] = "unborn" /\ flusher' = w
            /\ \/ status' = [status EXCEPT ![w] = "inactive"]
               \/ status' = [status EXCEPT ![w] = "wait"]
      BY <2>3 DEF FlushEvery
    <3> QED
      BY <1>1, <1>2, <2>1, <3>1 DEF FlusherInv, Statuses
  <2> QED
    BY <2>2, <2>3
<1>5. SetupInv'
  BY <1>1, <1>2 DEF RegistryInv, SetupInv, SetupIsOver
<1> QED
  BY <1>1, <1>3, <1>4, <1>5, DataStays DEF RegistryInv
(* The destructor of the old worker, step by step, with the mutex held.    *)
LEMMA DestructorStep ==
  ASSUME RegistryInv, NEW t \in Threads, StopWorker(t) \/ JoinWorker(t) \/ NothingToStop(t)
  PROVE  RegistryInv' /\ UNCHANGED global
<1>1. UNCHANGED <<dataVars, histVars, unflushed, setupDone, levelIsApps, calls, mapOwner, flusher>>
  BY DEF StopWorker, JoinWorker, NothingToStop, dataUnchanged
<1>2. /\ pc \in [Threads -> Pcs] /\ victim \in [Threads -> Workers \cup {None}]
      /\ flusher \in Workers \cup {None} /\ status \in [Workers -> Statuses]
      /\ \A u \in Threads : Stopping(u) <=> flusherOwner = u
      /\ Stopping(t) /\ None \notin Workers \cup Threads /\ flusherOwner = t
  BY RegistryAssumption
  DEF RegistryInv, ThreadsInv, FlusherInv, Stopping, StopWorker, JoinWorker, NothingToStop
<1>3. CASE StopWorker(t)
  <2>1. /\ UNCHANGED <<flusherOwner, status, victim>>
        /\ \E step \in {"join", "joinAll"} : pc' = [pc EXCEPT ![t] = step]
    BY <1>3 DEF StopWorker, Goto
  <2>2. ThreadsInv'
    BY <1>1, <1>2, <2>1 DEF RegistryInv, ThreadsInv, Stopping, Pcs
  <2>3. FlusherInv' /\ SetupInv'
    BY <1>1, <1>2, <2>1 DEF RegistryInv, FlusherInv, SetupInv, SetupIsOver
  <2> QED
    BY <1>1, <2>2, <2>3, DataStays DEF RegistryInv, dataVars
<1>4. CASE JoinWorker(t) \/ NothingToStop(t)
  <2>1. /\ flusherOwner' = None /\ victim' = [victim EXCEPT ![t] = None]
        /\ \E step \in {"drop", "idle"} : pc' = [pc EXCEPT ![t] = step]
        /\ IF victim[t] = None THEN UNCHANGED status
           ELSE status' = [status EXCEPT ![victim[t]] = "unborn"] /\ status[victim[t]] # "flush"
    BY <1>2, <1>4 DEF JoinWorker, NothingToStop, EndOfDestructor, Goto, Stopping, Joined, ThreadsInv, RegistryInv
  <2>2. ThreadsInv'
    BY <1>1, <1>2, <2>1 DEF RegistryInv, ThreadsInv, Stopping, Pcs
  <2>3. FlusherInv'
    BY <1>1, <1>2, <2>1 DEF RegistryInv, FlusherInv, Statuses
  <2>4. SetupInv'
    BY <1>1, <1>2, <2>1 DEF RegistryInv, SetupInv, SetupIsOver
  <2> QED
    BY <1>1, <2>2, <2>3, <2>4, DataStays DEF RegistryInv, dataVars
<1> QED
  BY <1>3, <1>4

(* The end of shutdown, and SetupSpdlog.                                   *)
LEMMA DropOrSetupStep ==
  ASSUME RegistryInv, NEW t \in Threads,
         \/ ShutdownDrops(t) \/ Setup(t) \/ SetupPattern(t) \/ SetupReads(t)
         \/ SetupLevel(t) \/ SetupLatch(t)
  PROVE  /\ RegistryInv'
         /\ levelIsApps /\ calls' = calls => UNCHANGED global
<1>1. /\ UNCHANGED <<workerVars, unflushed, levelIsApps>>
      /\ UNCHANGED <<mapOwner, flusher, flusherOwner, status, active, todo, victim>>
  BY DEF ShutdownDrops, Setup, SetupPattern, SetupReads, SetupLevel, SetupLatch, workerVars,
         dataUnchanged
<1>2. /\ pc \in [Threads -> Pcs] /\ calls \in Nat /\ calls' \in {calls, calls + 1}
      /\ \A u \in Threads : Stopping(u) <=> flusherOwner = u
      /\ DataInv /\ setupDone \in BOOLEAN
  BY DEF RegistryInv, ThreadsInv, DataInv, DataTypeOK, ShutdownDrops, Setup, SetupPattern,
         SetupReads, SetupLevel, SetupLatch, Call
<1>3. \E step \in {"idle", "setup", "read", "set", "latch", "crashed"} :
        pc' = [pc EXCEPT ![t] = step] /\ ~Stopping(t)
  BY DEF ShutdownDrops, Setup, SetupPattern, SetupReads, SetupLevel, SetupLatch, Goto, Stopping
<1>4. ThreadsInv' /\ FlusherInv'
  BY <1>1, <1>2, <1>3 DEF RegistryInv, ThreadsInv, FlusherInv, Stopping, Pcs
<1>5. SetupInv'
  <2>1. CASE Setup(t)
    BY <1>1, <2>1 DEF Setup, IsDone, RegistryInv, SetupInv, SetupIsOver
  <2>2. CASE ~Setup(t)
    BY <1>1, <1>2, <2>2
    DEF ShutdownDrops, SetupPattern, SetupReads, SetupLevel, SetupLatch, Goto, RegistryInv,
        SetupInv, SetupIsOver, dataUnchanged
  <2> QED
    BY <2>1, <2>2
<1>6. DataInv' /\ (levelIsApps /\ calls' = calls => UNCHANGED global)
  <2>1. CASE ShutdownDrops(t)
    BY <1>1, <1>2, <2>1, ClearStep DEF ShutdownDrops, ClearMap
  <2>2. CASE Setup(t) \/ SetupPattern(t) \/ SetupReads(t)
    BY <1>2, <2>2, DataStays DEF Setup, SetupPattern, SetupReads, dataUnchanged, dataVars
  <2>3. CASE SetupLatch(t)
    <3>1. UNCHANGED <<loggers, defaultLogger, global, logLevels, automatic, settings, histVars>>
      BY <2>3 DEF SetupLatch, dataVars
    <3>2. automatic' \in BOOLEAN /\ setupDone' \in BOOLEAN /\ unflushed' \subseteq Loggers
      BY <1>1, <1>2, <2>3, <3>1 DEF SetupLatch, DataInv, DataTypeOK
    <3> QED
      BY <1>1, <1>2, <3>1, <3>2, OtherDataStep
  <2>4. CASE SetupLevel(t)
    <3>1. ~levelIsApps /\ levelIsApps' \in BOOLEAN
      BY <1>1, <1>2, <2>4 DEF SetupLevel, RegistryInv, SetupInv, SetupIsOver, DataInv, DataTypeOK
    <3> QED
      BY <1>1, <1>2, <2>4, <3>1, SetForAllStep DEF SetupLevel, Kinds, Values
  <2> QED
    BY <2>1, <2>2, <2>3, <2>4
<1> QED
  BY <1>4, <1>5, <1>6 DEF RegistryInv

(* The thread of a worker. *)
LEMMA WorkerThreadStep ==
  ASSUME RegistryInv, NEW w \in Workers, WorkerStep(w)
  PROVE  RegistryInv' /\ UNCHANGED global
<1>1. /\ UNCHANGED <<dataVars, histVars, setupDone, levelIsApps, calls, pc>>
      /\ UNCHANGED <<flusher, flusherOwner, victim>>
      /\ unflushed' \subseteq unflushed
      /\ UNCHANGED <<loggers, defaultLogger, global, logLevels, automatic, settings>>
  BY DEF WorkerStep, WakeUp, BeginFlushAll, FlushOne, EndFlushAll, dataUnchanged, dataVars
<1>2. DataInv'
  <2>1. automatic' \in BOOLEAN /\ setupDone' \in BOOLEAN /\ unflushed' \subseteq Loggers
    BY <1>1 DEF RegistryInv, DataInv, DataTypeOK
  <2> QED
    BY <1>1, <2>1, OtherDataStep DEF RegistryInv
<1>3. ThreadsInv' /\ SetupInv'
  BY <1>1 DEF RegistryInv, ThreadsInv, Stopping, SetupInv, SetupIsOver
<1>4. FlusherInv'
  BY <1>1, RegistryAssumption
  DEF WorkerStep, WakeUp, BeginFlushAll, FlushOne, EndFlushAll, RegistryInv, FlusherInv, Statuses
<1> QED
  BY <1>1, <1>2, <1>3, <1>4 DEF RegistryInv

----------------------------------------------------------------------------
(* The registry begins with its default logger alone.                      *)
LEMMA InitEstablishesRegistryInv == RegistryInit => RegistryInv
<1> SUFFICES ASSUME RegistryInit PROVE RegistryInv
  OBVIOUS
<1>1. Defaults \in [Kinds -> AnyLevel] /\ Registered = {Standard} /\ Standard \in Loggers
  BY RegistryAssumption DEF Defaults, Kinds, AnyLevel, Values, RegistryInit, Registered, Range
<1>2. DataInv
  <2>1. SettingsReachEveryLogger
    BY <1>1 DEF RegistryInit, SettingsReachEveryLogger, Defaults, AnyLevel, Values
  <2>2. Range(logLevels) = {} /\ DOMAIN logLevels = {}
    BY DEF RegistryInit, Range
  <2> QED
    BY <1>1, <2>1, <2>2 DEF RegistryInit, DataInv, DataTypeOK, NamedLevelsInv
<1>3. ThreadsInv
  BY RegistryAssumption DEF RegistryInit, ThreadsInv, Stopping, Pcs
<1>4. FlusherInv /\ SetupInv
  BY RegistryAssumption DEF RegistryInit, FlusherInv, SetupInv, Statuses
<1> QED
  BY <1>2, <1>3, <1>4 DEF RegistryInv

(* Each step keeps the invariant, and what the application set, unless the *)
(* step is a call of the application.                                      *)
LEMMA RegistryStep ==
  RegistryInv /\ [RegistryNext]_vars =>
    RegistryInv' /\ (levelIsApps /\ calls' = calls => global' = global)
<1> SUFFICES ASSUME RegistryInv, [RegistryNext]_vars
             PROVE  RegistryInv' /\ (levelIsApps /\ calls' = calls => global' = global)
  OBVIOUS
<1>1. CASE MapOperation
  BY <1>1, MapOperationStep
<1>2. ASSUME NEW l \in Loggers, NEW severity \in Values, Log(l, severity)
      PROVE  RegistryInv' /\ calls' # calls
  BY <1>2, LogStep
<1>3. ASSUME NEW t \in Threads,
             (\E isZero \in BOOLEAN : FlushEvery(t, isZero)) \/ Shutdown(t)
      PROVE  RegistryInv' /\ calls' # calls
  BY <1>3, TakesOver
<1>4. ASSUME NEW t \in Threads, Setup(t) \/ ThreadStep(t)
      PROVE  RegistryInv' /\ (levelIsApps /\ calls' = calls => global' = global)
  BY <1>4, DestructorStep, DropOrSetupStep DEF ThreadStep
<1>5. ASSUME NEW w \in Workers, WorkerStep(w)
      PROVE  RegistryInv' /\ global' = global
  BY <1>5, WorkerThreadStep
<1>6. CASE UNCHANGED vars
  <2>1. /\ UNCHANGED <<dataVars, histVars, unflushed, setupDone, levelIsApps, global>>
        /\ UNCHANGED <<pc, calls, mapOwner, flusher, flusherOwner, status, active, todo, victim>>
    BY <1>6 DEF vars, workerVars, dataVars
  <2> QED
    BY <2>1, DataStays
    DEF RegistryInv, ThreadsInv, Stopping, FlusherInv, SetupInv, SetupIsOver
<1> QED
  BY <1>1, <1>2, <1>3, <1>4, <1>5, <1>6 DEF RegistryNext

(***************************************************************************)
(* Whatever calls are made, and whoever replaces or stops the flusher:     *)
(* the map, the settings, flusher_mutex_ and the latch of SetupSpdlog.     *)
(***************************************************************************)
THEOREM RegistryInvariance == RegistrySpec => []RegistryInv
BY InitEstablishesRegistryInv, RegistryStep, PTL DEF RegistrySpec

(* The registry keeps its types, and each logger under its name.           *)
THEOREM RegistryTypeCorrect == RegistrySpec => []RegistryTypeOK
<1>1. RegistryInv => RegistryTypeOK
  <2> SUFFICES ASSUME RegistryInv PROVE RegistryTypeOK
    OBVIOUS
  <2>1. DOMAIN loggers \subseteq LoggerNames
    BY RegistryAssumption DEF RegistryInv, DataInv, DataTypeOK, LoggerNames, Range
  <2>2. /\ flusher \in Workers \cup {None} /\ flusherOwner \in Threads \cup {None}
        /\ status \in [Workers -> Statuses]
        /\ \A w \in Workers : status[w] = "flush" <=> mapOwner = w
    BY DEF RegistryInv, ThreadsInv, FlusherInv
  <2>3. DataTypeOK
    BY DEF RegistryInv, DataInv
  <2> QED
    BY <2>1, <2>2, <2>3 DEF DataTypeOK, RegistryTypeOK, AnyLevel, Statuses
<1> QED
  BY <1>1, RegistryInvariance, PTL

(***************************************************************************)
(* What was last set for all is what every logger has that                 *)
(* initialize_logger registered, as long as it is in the map.              *)
(***************************************************************************)
THEOREM SettingsAlwaysReach == RegistrySpec => []SettingsReachEveryLogger
<1>1. RegistryInv => SettingsReachEveryLogger
  BY DEF RegistryInv, DataInv
<1> QED
  BY <1>1, RegistryInvariance, PTL

(* flush_every and shutdown leave no thread behind that flushes.           *)
THEOREM NeverAStrayFlusher == RegistrySpec => []NoStrayFlusher
<1>1. RegistryInv => NoStrayFlusher
  BY DEF RegistryInv, FlusherInv, NoStrayFlusher
<1> QED
  BY <1>1, RegistryInvariance, PTL

(* A level that the application set when SetupSpdlog was over is not set   *)
(* back by the constructors that come later.                               *)
THEOREM LevelAlwaysStays == RegistrySpec => LevelStaysTheApplications
BY RegistryStep, RegistryInvariance, PTL DEF RegistrySpec, LevelStaysTheApplications

----------------------------------------------------------------------------
(* The applications. *)

(* main has told an app to stop, and has waited for its thread.            *)
WasStopped(a) ==
  mainPc \in {"join", "done"} \/ (mainPc = "stop" /\ a = "writer" /\ target = "reader")

WasJoined(a) ==
  mainPc = "done" \/ (mainPc = "join" /\ a = "writer" /\ target = "reader")

(* A thread that was told to stop has run, and is on its way out for good, *)
(* but for one that had not begun.                                         *)
StoppedInv ==
  \A a \in apps : WasStopped(a) => a \in unheard \/ (runPc[a] # "start" /\ ~running[a])

JoinedInv == \A a \in apps : WasJoined(a) => runPc[a] = "ended"

AppInv ==
  /\ AppTypeOK
  /\ mainPc \in {"await", "serve"} => target = First
  /\ StoppedInv
  /\ JoinedInv

(* What holds when a program begins.                                       *)
LEMMA InitEstablishesAppInv == AppInit => AppInv
<1> SUFFICES ASSUME AppInit PROVE AppInv
  OBVIOUS
<1>1. apps = {"reader"} \/ apps = {"writer"} \/ apps = Apps
  BY DEF AppInit
<1>2. AppTypeOK
  BY <1>1 DEF AppInit, AppTypeOK, Apps, First, Has
<1>3. mainPc \in {"await", "serve"} /\ target = First
  BY DEF AppInit
<1> QED
  BY <1>2, <1>3 DEF AppInv, StoppedInv, JoinedInv, WasStopped, WasJoined

(* main goes from the writer, if there is one, to the reader, if there is  *)
(* one.                                                                    *)
LEMMA Targets ==
  ASSUME AppTypeOK, NEW then, NextTarget(then)
  PROVE  \/ /\ target = "writer" /\ "reader" \in apps
            /\ target' = "reader" /\ mainPc' = mainPc
         \/ /\ apps \subseteq {"writer", "reader"}
            /\ target = "writer" => apps = {"writer"}
            /\ target' = First /\ mainPc' = then
<1> QED
  BY DEF NextTarget, AppTypeOK, Apps, Has

(* Every step keeps the invariant.                                         *)
LEMMA NextKeepsAppInv ==
  AppInv /\ [AppNext]_appVars => AppInv'
<1> SUFFICES ASSUME AppInv, [AppNext]_appVars
             PROVE  AppInv'
  OBVIOUS
<1> USE DEF AppInv
<1>1. CASE Interrupt \/ SeeReaderRun \/ LeaveLoop
  BY <1>1 DEF Interrupt, SeeReaderRun, LeaveLoop, AfterLoop, threadVars, AppTypeOK, Apps,
              First, Has, StoppedInv, JoinedInv, WasStopped, WasJoined
<1>2. ASSUME NEW a \in Apps, Stop(a) PROVE AppInv'
  <2>1. /\ mainPc = "stop" /\ target = a /\ a \in apps /\ NextTarget("join")
        /\ running' = [running EXCEPT ![a] = FALSE] /\ UNCHANGED <<apps, gRunning, runPc, failed>>
        /\ unheard' = IF runPc[a] = "start" THEN unheard \cup {a} ELSE unheard
    BY <1>2 DEF Stop, LowerFlag, AppTypeOK
  <2>2. First' = First /\ First \in apps
    BY <2>1 DEF First, Has, AppTypeOK, Apps
  <2>3. AppTypeOK'
    <3>1. target' \in apps' /\ mainPc' \in {"await", "serve", "stop", "join", "done"}
      BY <2>1, <2>2, Targets DEF AppTypeOK
    <3>2. unheard' \subseteq apps' /\ running' \in [Apps -> BOOLEAN]
      BY <2>1 DEF AppTypeOK
    <3> QED
      BY <2>1, <3>1, <3>2 DEF AppTypeOK
  <2>4. StoppedInv'
    BY <2>1, Targets DEF StoppedInv, WasStopped, AppTypeOK
  <2>5. JoinedInv'
    BY <2>1, <2>2, Targets DEF JoinedInv, WasJoined, AppTypeOK, First, Has
  <2> QED
    BY <2>1, <2>3, <2>4, <2>5, Targets
<1>3. ASSUME NEW a \in Apps, Join(a) PROVE AppInv'
  <2>1. /\ mainPc = "join" /\ target = a /\ a \in apps /\ runPc[a] = "ended" /\ NextTarget("done")
        /\ UNCHANGED <<apps, gRunning, running, runPc, failed, unheard>>
    BY <1>3 DEF Join, threadVars, AppTypeOK
  <2>2. First' = First /\ First \in apps
    BY <2>1 DEF First, Has, AppTypeOK, Apps
  <2>3. AppTypeOK'
    <3>1. target' \in apps' /\ mainPc' \in {"await", "serve", "stop", "join", "done"}
      BY <2>1, <2>2, Targets DEF AppTypeOK
    <3>2. unheard' \subseteq apps' /\ running' \in [Apps -> BOOLEAN]
      BY <2>1 DEF AppTypeOK
    <3> QED
      BY <2>1, <3>1, <3>2 DEF AppTypeOK
  <2>4. StoppedInv'
    BY <2>1, Targets DEF StoppedInv, WasStopped
  <2>5. JoinedInv'
    BY <2>1, Targets DEF JoinedInv, WasJoined, AppTypeOK
  <2> QED
    BY <2>1, <2>3, <2>4, <2>5, Targets
<1>4. ASSUME NEW a \in Apps, Run(a) \/ (a = "reader" /\ ReadFails) PROVE AppInv'
  <2>1. /\ runPc[a] # "ended" /\ UNCHANGED <<apps, mainPc, target, gRunning, unheard>>
        /\ \E step \in {"test", "call", "end", "ended"} : runPc' = [runPc EXCEPT ![a] = step]
        /\ failed' \in BOOLEAN
        /\ \/ runPc[a] = "start" /\ running' = [running EXCEPT ![a] = TRUE]
           \/ running' = running \/ running' = [running EXCEPT ![a] = FALSE]
    BY <1>4 DEF Run, Start, TestFlag, CallSucceeds, End, ReadFails, RunTo, LowerFlag, AppTypeOK
  <2>2. AppTypeOK'
    BY <2>1 DEF AppTypeOK
  <2>3. StoppedInv'
    BY <2>1 DEF StoppedInv, WasStopped, AppTypeOK
  <2>4. JoinedInv'
    BY <2>1 DEF JoinedInv, WasJoined, AppTypeOK
  <2> QED
    BY <2>1, <2>2, <2>3, <2>4 DEF First, Has
<1>5. CASE UNCHANGED appVars
  BY <1>5 DEF appVars, AppTypeOK, First, Has, StoppedInv, JoinedInv, WasStopped, WasJoined
<1> QED
  BY <1>1, <1>2, <1>3, <1>4, <1>5 DEF AppNext, Main, Apps

(* Each program, with one app or with two, keeps the invariant.            *)
THEOREM AppInvariance == AppSpec => []AppInv
<1> QED
  BY InitEstablishesAppInv, NextKeepsAppInv, PTL DEF AppSpec

(* The threads that main waits for have been told to end, and nothing can  *)
(* make them go on, in every behaviour.                                    *)
THEOREM JoinedAlwaysTold == AppSpec => []JoinedWillEnd
<1>1. AppInv => JoinedWillEnd
  BY DEF AppInv, StoppedInv, WasStopped, JoinedWillEnd
<1> QED
  BY <1>1, AppInvariance, PTL

(* When main returns, its threads have ended, in every behaviour.          *)
THEOREM NeverOutlivesMain == AppSpec => []NoThreadOutlivesMain
<1>1. AppInv => NoThreadOutlivesMain
  BY DEF AppInv, JoinedInv, WasJoined, NoThreadOutlivesMain
<1> QED
  BY <1>1, AppInvariance, PTL
=============================================================================
