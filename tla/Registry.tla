------------------------------ MODULE Registry ------------------------------
(***************************************************************************)
(* spdlog's registry: the loggers of the process by name, the default      *)
(* logger, the settings that every logger is to have, and the thread that  *)
(* flushes them periodically.  An operation under logger_map_mutex_ is one *)
(* step, except flush_all, which flushes logger by logger.  The calls that *)
(* stop a flusher thread wait for it, and so does SetupSpdlog, through     *)
(* which every constructor of the library goes, have steps of their own.   *)
(***************************************************************************)
EXTENDS Naturals, FiniteSets, Functions

CONSTANTS
  Loggers,      \* the logger objects
  LoggerName,   \* their names, from Loggers
  Standard,     \* the logger that the registry creates, its first default
  Threads,      \* threads of the application
  Workers,      \* periodic_worker objects
  None,         \* a null pointer
  Inputs,       \* the levels in the environment or the arguments, see LoadLevels
  MaxCalls      \* bound on the calls of the application

ASSUME RegistryAssumption ==
  /\ Standard \in Loggers /\ None \notin Loggers \cup Workers \cup Threads
  /\ DOMAIN LoggerName = Loggers
  /\ MaxCalls \in Nat

VARIABLES
  loggers,         \* loggers_, from names to objects
  defaultLogger,   \* default_logger_
  global,          \* global_log_level_, flush_level_, backtrace_n_messages_
  logLevels,       \* log_levels_, from names to levels
  automatic,       \* automatic_registration_
  settings,        \* the level, flush level and backtrace of every logger
  unflushed,       \* the loggers with something to flush in their sinks
  mapOwner,        \* the worker in flush_all, which has logger_map_mutex_
  flusher,         \* periodic_flusher_
  flusherOwner,    \* the thread that has flusher_mutex_
  status,          \* where the thread of a worker is
  active,          \* active_ of the workers
  todo,            \* what is left of a worker's flush_all
  pc, victim,      \* the step of a call, and the worker it destroys
  setupDone,       \* the latch of SetupSpdlog
  calls,           \* how many calls the application has made
  configured,      \* history: the loggers that initialize_logger registered
  envLoaded,       \* history: set_levels was called
  levelIsApps      \* history: the application set a level when SetupSpdlog was over

dataVars   == <<loggers, defaultLogger, global, logLevels, automatic, settings>>
workerVars == <<mapOwner, flusher, flusherOwner, status, active, todo, victim>>
histVars   == <<configured, envLoaded>>
vars == <<dataVars, workerVars, histVars, unflushed, pc, setupDone, calls, levelIsApps>>

(* A level is 0, debug, or 1, info, or off; as flush_level 0 is off and 1  *)
(* is err; as backtrace 0 is disabled.                                     *)
Kinds == {"level", "flush_level", "backtrace"}
Values == {0, 1}
Off == 2
Defaults == [level |-> 1, flush_level |-> 0, backtrace |-> 0]

LoggerNames    == Range(LoggerName)
Registered == Range(loggers)

----------------------------------------------------------------------------
(* Mutations of the definitions below. *)

WithoutFlushLevel        == [global EXCEPT !["flush_level"] = 0]
AllButTheDefault         == Registered \ {defaultLogger}
StillActive(w)           == active[w]
Forgotten                == None
NeverDone                == FALSE

----------------------------------------------------------------------------
RegistryInit ==
  /\ loggers = [n \in {LoggerName[Standard]} |-> Standard] /\ defaultLogger = Standard
  /\ global = Defaults /\ logLevels = [n \in {} |-> 0] /\ automatic = TRUE
  /\ settings = [l \in Loggers |-> Defaults]
  /\ configured = {Standard} /\ envLoaded = FALSE
  /\ unflushed = {} /\ calls = 0 /\ setupDone = FALSE /\ levelIsApps = FALSE
  /\ mapOwner = None /\ flusher = None /\ flusherOwner = None
  /\ status = [w \in Workers |-> "unborn"] /\ active = [w \in Workers |-> FALSE]
  /\ todo = [w \in Workers |-> {}]
  /\ pc = [t \in Threads |-> "idle"] /\ victim = [t \in Threads |-> None]

(* A call that the application makes, and one of a single step under       *)
(* logger_map_mutex_.                                                      *)
Call == calls < MaxCalls /\ calls' = calls + 1

MapCall ==
  /\ Call /\ mapOwner = None
  /\ (\E t \in Threads : pc[t] = "idle")
  /\ UNCHANGED <<workerVars, unflushed, pc, setupDone>>

(* The level of a new logger: the one configured for its name, or the      *)
(* global level.                                                           *)
LevelFor(l) ==
  IF LoggerName[l] \in DOMAIN logLevels THEN logLevels[LoggerName[l]] ELSE global["level"]

Initialised == global

NameIsTaken(l) == LoggerName[l] \in DOMAIN loggers

AddToMap(l) == [n \in DOMAIN loggers \cup {LoggerName[l]} |->
                  IF n = LoggerName[l] THEN l ELSE loggers[n]]

(* The settings are made before the name is found to be taken: then it     *)
(* throws, and the logger keeps them.                                      *)
InitializeLogger(l) ==
  /\ MapCall /\ l \notin Registered
  /\ settings' = [settings EXCEPT ![l] =
                    [Initialised EXCEPT !["level"] = LevelFor(l),
                       !["backtrace"] = IF @ = 0 THEN settings[l]["backtrace"] ELSE @]]
  /\ IF automatic /\ ~NameIsTaken(l)
     THEN loggers' = AddToMap(l) /\ configured' = configured \cup {l}
     ELSE UNCHANGED <<loggers, configured>>
  /\ UNCHANGED <<defaultLogger, global, logLevels, automatic, envLoaded, levelIsApps>>

RegisterLogger(l) ==
  /\ MapCall /\ ~NameIsTaken(l)
  /\ loggers' = AddToMap(l)
  /\ UNCHANGED <<defaultLogger, global, logLevels, automatic, settings, histVars, levelIsApps>>

RegisterOrReplace(l) ==
  /\ MapCall
  /\ loggers' = AddToMap(l)
  /\ configured' = configured \ {k \in Loggers \ {l} : LoggerName[k] = LoggerName[l]}
  /\ UNCHANGED <<defaultLogger, global, logLevels, automatic, settings, envLoaded, levelIsApps>>

SetDefaultLogger(l) ==
  /\ MapCall
  /\ defaultLogger' = l
  /\ IF l = None THEN UNCHANGED <<loggers, configured>>
     ELSE /\ loggers' = AddToMap(l)
          /\ configured' = configured \ {k \in Loggers \ {l} : LoggerName[k] = LoggerName[l]}
  /\ UNCHANGED <<global, logLevels, automatic, settings, envLoaded, levelIsApps>>

SetupIsOver == setupDone /\ \A t \in Threads : pc[t] \notin {"setup", "read", "set"}

(* A setting of every logger in the map, and of those to come.             *)
WithSetting(kind, value) ==
  /\ settings' = [l \in Loggers |->
                    IF l \in Registered THEN [settings[l] EXCEPT ![kind] = value] ELSE settings[l]]
  /\ global' = [global EXCEPT ![kind] = value]

SetForAll(kind, value) ==
  /\ MapCall
  /\ WithSetting(kind, value)
  /\ levelIsApps' = (levelIsApps \/ (kind = "level" /\ SetupIsOver))
  /\ UNCHANGED <<loggers, defaultLogger, logLevels, automatic, histVars>>

(* Levels by name, as loaded from the environment, and perhaps a global    *)
(* level.                                                                  *)
SetLevels(levels, globalLevel) ==
  /\ MapCall
  /\ logLevels' = levels
  /\ global' = IF globalLevel = None THEN global ELSE [global EXCEPT !["level"] = globalLevel]
  /\ settings' = [l \in Loggers |->
                    IF l \notin Registered THEN settings[l]
                    ELSE IF LoggerName[l] \in DOMAIN levels
                    THEN [settings[l] EXCEPT !["level"] = levels[LoggerName[l]]]
                    ELSE IF globalLevel # None THEN [settings[l] EXCEPT !["level"] = globalLevel]
                    ELSE settings[l]]
  /\ envLoaded' = TRUE
  /\ levelIsApps' = (levelIsApps \/ SetupIsOver)
  /\ UNCHANGED <<loggers, defaultLogger, automatic, configured>>

(* level::from_str: what is no name of a level is off.                     *)
FromStr(name) == CASE name = "debug" -> 0 [] name = "info" -> 1 [] OTHER -> Off

(* extract_key_vals_: the pairs by logger name, of which the last counts.  *)
KeyVals(pairs) ==
  LET names == {pairs[k].logger : k \in DOMAIN pairs}
      last(n) == CHOOSE k \in DOMAIN pairs :
                   pairs[k].logger = n /\ \A j \in DOMAIN pairs : pairs[j].logger = n => j <= k
  IN  [n \in names |-> pairs[last(n)].level]

(* load_levels: a name that is no level's is ignored, with its logger, and *)
(* no logger's name means the global level.                                *)
LoadLevels(pairs) ==
  LET read   == KeyVals(pairs)
      known  == {n \in DOMAIN read : FromStr(read[n]) # Off \/ read[n] = "off"}
      levels == [n \in known \ {""} |-> FromStr(read[n])]
  IN  SetLevels(levels, IF "" \in known THEN FromStr(read[""]) ELSE None)

(* load_env_levels, unless the variable is not set or empty.               *)
LoadEnvLevels == \E pairs \in Inputs : pairs # <<>> /\ LoadLevels(pairs)

ApplyLoggerEnvLevels(l) ==
  /\ MapCall
  /\ settings' = [settings EXCEPT ![l]["level"] = LevelFor(l)]
  /\ UNCHANGED <<loggers, defaultLogger, global, logLevels, automatic, histVars, levelIsApps>>

IsDefault(n) == defaultLogger # None /\ LoggerName[defaultLogger] = n

Drop(n) ==
  /\ MapCall
  /\ loggers' = [m \in DOMAIN loggers \ {n} |-> loggers[m]]
  /\ defaultLogger' = IF IsDefault(n) THEN None ELSE defaultLogger
  /\ configured' = {l \in configured : LoggerName[l] # n}
  /\ UNCHANGED <<global, logLevels, automatic, settings, envLoaded, levelIsApps>>

ClearMap ==
  /\ loggers' = [n \in {} |-> None] /\ defaultLogger' = None /\ configured' = {}
  /\ UNCHANGED <<global, logLevels, automatic, settings, envLoaded>>

DropAll == MapCall /\ ClearMap /\ UNCHANGED levelIsApps

SetAutomaticRegistration(b) ==
  /\ MapCall
  /\ automatic' = b
  /\ UNCHANGED <<loggers, defaultLogger, global, logLevels, settings, histVars, levelIsApps>>

(* A message, debug or err, to a logger that some thread has.  No lock of  *)
(* the registry is needed.                                                 *)
Log(l, severity) ==
  /\ Call
  /\ severity >= settings[l]["level"]
  /\ unflushed' = IF severity = 1 /\ settings[l]["flush_level"] = 1
                  THEN unflushed \ {l} ELSE unflushed \cup {l}
  /\ UNCHANGED <<dataVars, workerVars, histVars, pc, setupDone, levelIsApps>>

----------------------------------------------------------------------------
Goto(t, step) == pc' = [pc EXCEPT ![t] = step]

dataUnchanged == UNCHANGED <<dataVars, histVars, unflushed, setupDone, levelIsApps>>

OldFlusher == flusher

(* flush_every: under flusher_mutex_ a new worker, and its thread unless   *)
(* the interval is zero; the old one is destroyed.                         *)
FlushEvery(t, isZero) ==
  /\ Call /\ pc[t] = "idle" /\ flusherOwner = None
  /\ \E w \in Workers :
       /\ status[w] = "unborn"
       /\ status' = [status EXCEPT ![w] = IF isZero THEN "inactive" ELSE "wait"]
       /\ active' = [active EXCEPT ![w] = ~isZero]
       /\ flusher' = w
  /\ victim' = [victim EXCEPT ![t] = OldFlusher] /\ flusherOwner' = t
  /\ Goto(t, "stop")
  /\ UNCHANGED <<mapOwner, todo>> /\ dataUnchanged

Shutdown(t) ==
  /\ Call /\ pc[t] = "idle" /\ flusherOwner = None
  /\ victim' = [victim EXCEPT ![t] = OldFlusher] /\ flusherOwner' = t /\ flusher' = None
  /\ Goto(t, "stopAll")
  /\ UNCHANGED <<mapOwner, status, active, todo>> /\ dataUnchanged

(* The mutex of the worker is taken while it is in its callback.           *)
InCallback(w) == status[w] \in {"call", "flush"}

AfterStop(w) == FALSE

(* The destructor of the old worker, if there is one: active_ ...          *)
StopWorker(t) ==
  /\ pc[t] \in {"stop", "stopAll"} /\ victim[t] # None
  /\ ~InCallback(victim[t])
  /\ active' = [active EXCEPT ![victim[t]] = AfterStop(victim[t])]
  /\ Goto(t, IF pc[t] = "stop" THEN "join" ELSE "joinAll")
  /\ UNCHANGED <<mapOwner, flusher, flusherOwner, status, todo, victim, calls>> /\ dataUnchanged

(* ... and join, unless it never had a thread.                             *)
Joined(w) == status[w] \in {"inactive", "ended"}

EndOfDestructor(t) ==
  /\ Goto(t, IF pc[t] \in {"stopAll", "joinAll"} THEN "drop" ELSE "idle")
  /\ flusherOwner' = None /\ victim' = [victim EXCEPT ![t] = None]

JoinWorker(t) ==
  /\ pc[t] \in {"join", "joinAll"} /\ Joined(victim[t])
  /\ status' = [status EXCEPT ![victim[t]] = "unborn"]
  /\ EndOfDestructor(t)
  /\ UNCHANGED <<mapOwner, flusher, active, todo, calls>> /\ dataUnchanged

NothingToStop(t) ==
  /\ pc[t] \in {"stop", "stopAll"} /\ victim[t] = None
  /\ EndOfDestructor(t)
  /\ UNCHANGED <<mapOwner, flusher, status, active, todo, calls>> /\ dataUnchanged

(* shutdown goes on with drop_all. *)
ShutdownDrops(t) ==
  /\ pc[t] = "drop" /\ mapOwner = None
  /\ ClearMap
  /\ Goto(t, "idle")
  /\ UNCHANGED <<workerVars, unflushed, setupDone, calls, levelIsApps>>

(* The thread of a worker: it ends, or the interval is over, ...           *)
WakeUp(w) ==
  /\ status[w] = "wait"
  /\ status' = [status EXCEPT ![w] = IF active[w] THEN "call" ELSE "ended"]
  /\ UNCHANGED <<mapOwner, flusher, flusherOwner, active, todo, victim, pc, calls>>
  /\ dataUnchanged

ToFlush == Registered

(* ... and it flushes all, one by one, under logger_map_mutex_.            *)
BeginFlushAll(w) ==
  /\ status[w] = "call" /\ mapOwner = None
  /\ mapOwner' = w
  /\ todo' = [todo EXCEPT ![w] = ToFlush]
  /\ status' = [status EXCEPT ![w] = "flush"]
  /\ UNCHANGED <<flusher, flusherOwner, active, victim, pc, calls>> /\ dataUnchanged

FlushOne(w) ==
  /\ status[w] = "flush"
  /\ \E l \in todo[w] : /\ unflushed' = unflushed \ {l}
                        /\ todo' = [todo EXCEPT ![w] = @ \ {l}]
  /\ UNCHANGED <<mapOwner, flusher, flusherOwner, status, active, victim>>
  /\ UNCHANGED <<dataVars, histVars, pc, setupDone, calls, levelIsApps>>

EndFlushAll(w) ==
  /\ status[w] = "flush" /\ todo[w] = {}
  /\ mapOwner' = None
  /\ status' = [status EXCEPT ![w] = "wait"]
  /\ UNCHANGED <<flusher, flusherOwner, active, todo, victim, pc, calls>> /\ dataUnchanged

----------------------------------------------------------------------------
IsDone == setupDone

(* SetupSpdlog tests its latch, ... *)
Setup(t) ==
  /\ Call /\ pc[t] = "idle" /\ ~IsDone
  /\ Goto(t, "setup")
  /\ UNCHANGED workerVars /\ dataUnchanged

(* ... gives all loggers its pattern, for which it waits for the map's     *)
(* mutex, ...                                                              *)
SetupPattern(t) ==
  /\ pc[t] = "setup" /\ mapOwner = None
  /\ Goto(t, "read")
  /\ UNCHANGED <<workerVars, calls>> /\ dataUnchanged

(* ... reads the level of the default logger, which must not be null,      *)
(* without the mutex, ...                                                  *)
SetupReads(t) ==
  /\ pc[t] = "read"
  /\ Goto(t, IF defaultLogger = None THEN "crashed"
             ELSE IF settings[defaultLogger]["level"] = 0 THEN "latch" ELSE "set")
  /\ UNCHANGED <<workerVars, calls>> /\ dataUnchanged

(* ... sets the level of all if it was another, ...                        *)
SetupLevel(t) ==
  /\ pc[t] = "set" /\ mapOwner = None
  /\ WithSetting("level", 0)
  /\ Goto(t, "latch")
  /\ UNCHANGED <<loggers, defaultLogger, logLevels, automatic>>
  /\ UNCHANGED <<workerVars, histVars, unflushed, setupDone, calls, levelIsApps>>

(* ... and stores the latch.                                               *)
SetupLatch(t) ==
  /\ pc[t] = "latch"
  /\ setupDone' = TRUE
  /\ Goto(t, "idle")
  /\ UNCHANGED <<dataVars, workerVars, histVars, unflushed, calls, levelIsApps>>

----------------------------------------------------------------------------
ThreadStep(t) ==
  \/ StopWorker(t) \/ JoinWorker(t) \/ NothingToStop(t) \/ ShutdownDrops(t)
  \/ SetupPattern(t) \/ SetupReads(t) \/ SetupLevel(t) \/ SetupLatch(t)

WorkerStep(w) == WakeUp(w) \/ BeginFlushAll(w) \/ FlushOne(w) \/ EndFlushAll(w)

MapOperation ==
  \/ \E l \in Loggers : InitializeLogger(l) \/ RegisterLogger(l) \/ RegisterOrReplace(l)
                         \/ ApplyLoggerEnvLevels(l)
  \/ \E l \in Loggers \cup {None} : SetDefaultLogger(l)
  \/ \E kind \in Kinds, value \in Values : SetForAll(kind, value)
  \/ LoadEnvLevels
  \/ \E name \in LoggerNames : Drop(name)
  \/ DropAll
  \/ \E b \in BOOLEAN : SetAutomaticRegistration(b)

RegistryNext ==
  \/ MapOperation
  \/ \E l \in Loggers, severity \in Values : Log(l, severity)
  \/ \E t \in Threads : \/ \E isZero \in BOOLEAN : FlushEvery(t, isZero)
                        \/ Shutdown(t) \/ Setup(t) \/ ThreadStep(t)
  \/ \E w \in Workers : WorkerStep(w)

(* The application may stop to make calls.  Threads run, time passes, and  *)
(* a mutex that is released again and again is got at last.                *)
RegistrySpec ==
  /\ RegistryInit /\ [][RegistryNext]_vars
  /\ \A t \in Threads : SF_vars(ThreadStep(t))
  /\ \A w \in Workers : SF_vars(WorkerStep(w))

----------------------------------------------------------------------------
RegistryTypeOK ==
  /\ DOMAIN loggers \subseteq LoggerNames
  /\ \A n \in DOMAIN loggers : loggers[n] \in Loggers /\ LoggerName[loggers[n]] = n
  /\ defaultLogger \in Loggers \cup {None}
  /\ global \in [Kinds -> Values \cup {Off}] /\ settings \in [Loggers -> [Kinds -> Values \cup {Off}]]
  /\ Range(logLevels) \subseteq Values \cup {Off}
  /\ {automatic, envLoaded, setupDone, levelIsApps} \subseteq BOOLEAN
  /\ unflushed \subseteq Loggers /\ configured \subseteq Registered
  /\ flusher \in Workers \cup {None} /\ flusherOwner \in Threads \cup {None}
  /\ status \in [Workers -> {"unborn", "inactive", "wait", "call", "flush", "ended"}]
  /\ \A w \in Workers : status[w] = "flush" <=> mapOwner = w

(***************************************************************************)
(* A logger that initialize_logger registered has what was last set for    *)
(* all, whether that was before or after, as long as it is in the map: its *)
(* flush level, a backtrace, and, unless levels were given by name, its    *)
(* level (registry-inl.h:62-84, 132-163).                                  *)
(***************************************************************************)
SettingsReachEveryLogger ==
  \A l \in configured :
    /\ settings[l]["flush_level"] = global["flush_level"]
    /\ settings[l]["backtrace"] >= global["backtrace"]
    /\ ~envLoaded => settings[l]["level"] = global["level"]

(***************************************************************************)
(* The only thread that flushes is the one of the current periodic worker, *)
(* except while a call replaces or stops it: flush_every and shutdown      *)
(* leave no thread behind, whoever else calls them at the same time        *)
(* (registry.h:68-72, registry-inl.h:204-216, periodic_worker-inl.h:14-23).*)
(***************************************************************************)
NoStrayFlusher ==
  flusherOwner = None => \A w \in Workers : status[w] \notin {"unborn", "inactive"} => w = flusher

(***************************************************************************)
(* What the application sets after SetupSpdlog is not overwritten when     *)
(* later constructors call SetupSpdlog again.  A call that was already in  *)
(* progress in another thread overwrites it: the latch is not atomic       *)
(* (Utils.cpp:8-20).                                                       *)
(***************************************************************************)
LevelStaysTheApplications == [][levelIsApps /\ calls' = calls => global' = global]_vars

(***************************************************************************)
(* flush_every, shutdown and SetupSpdlog return, also when the flusher is  *)
(* in the middle of its callback, and though that needs the map's mutex,   *)
(* unless SetupSpdlog finds no default logger (Utils.cpp:14).              *)
(***************************************************************************)
RegistryCallsReturn == \A t \in Threads : pc[t] # "idle" ~> pc[t] \in {"idle", "crashed"}

(***************************************************************************)
(* While there is a periodic flusher, what is logged to a registered       *)
(* logger gets flushed.                                                    *)
(***************************************************************************)
NoFlusher == flusher = None \/ ~active[flusher]

RegisteredAreFlushed ==
  \A l \in Loggers :
    l \in unflushed /\ l \in Registered ~> l \notin unflushed \/ l \notin Registered \/ NoFlusher
=============================================================================
